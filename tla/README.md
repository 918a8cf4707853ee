# MonoPanel in TLA+

TLA+ models of the parts of MonoPanel where several things happen at once. On
the server: the job queue, the agent's configuration transaction, the life of a
site. Between server and browser: the stream of a job's events, sessions and
sign-in. In the browser: the pages of the web UI and the file manager. Beside
the panel: the two workers that serve the project's site and its live demo. TLC
checks the models on small instances, TLAPS proves their main invariants for
every value of the constants.

Paths below are relative to `src/internal/`, unless they begin with `web/`,
`site/`, `demo/` or `docs/`, which are directories of `src/`.

## 1. The system

MonoPanel is a hosting panel: one Go binary that runs as two services, with a
web UI in Svelte compiled into it.

    web UI / mp CLI / TUI / REST clients
              |  HTTPS, unix socket; SSE for the log of a job
              v
     monopaneld api  (user monopanel) ---- SQLite (settings, users, sites,
       requests: goroutines                sessions, certificates, jobs, ...)
       job runner: N workers ---> broker ---> SSE handlers, webhooks
       scheduler loops (renewal, backups, updates, samples)
              |  typed RPC over a unix socket, no lock, no order
              v
     monopaneld agent (root): writes files, runs validators, reloads nginx,
       Apache, php-fpm, runs tools

    monopanel.app:  site worker (chooses a page's language)
                    demo worker (a container with a panel for each visitor)

A request validates its input, writes the desired state into SQLite and
enqueues a job; a worker claims the job, reads the state again, renders
configuration and has the agent apply it. Nothing else ties the two halves
together: the row and the job are written by separate statements, the job may
be run again after a restart, and several clients, jobs and scheduler loops
work on the same rows. The browser keeps copies of that state without versions:
no request is cancelled or numbered, and an answer acts on the page as it is
when the answer comes.

### Inventory

| Component | State | Operations | What is hard | What makes it correct |
|---|---|---|---|---|
| Job queue and runner (`jobs/runner.go`, `store/jobs.go`, `cli/daemon.go`, `api/run.go`) | table `jobs`, wake channel, workers | enqueue, claim, run, finish, requeue at start, stop | concurrent claims, lock keys, a stop in mid-handler, kills, lost writes | one job per lock key, in order; no job lost, none repeated after success; the verdict is the handler's |
| Agent configuration transaction (`agent/ops_config.go`) | files on disk, the transaction's saved copies, what the daemon has loaded | write, validate, roll back, reload | failure at file k of n, overlapping requests, kills | all or nothing; a broken file is never loaded; success means live |
| Site lifecycle (`api/ops_sites.go`, `store/sites.go`, `agent/ops_files.go`) | row of `sites`, nginx's file, the pool's file, what the daemons loaded | create, change, suspend, delete; site.apply, site.delete | rows written back as a whole after minutes; jobs repeated from the beginning; jobs under other lock keys | at rest the host is what the row says; a deleted site leaves nothing; settings are not lost |
| Job events and the page's log (`jobs/broker.go`, `api/ops_jobs.go`, `web/src/lib/api.ts`, `JobLog.svelte`) | channels of subscribers, streams, the page's status and lines | publish, subscribe, read the row, send, connect again, show another job | events dropped for slow readers, subscribing against reading, reconnects, restarts | an end that is shown is true; the log has no holes; the end is shown |
| Sign-in and sessions (`api/auth.go`, `api/ops_auth.go`, `store/sessions.go`, `web/src/lib/state.svelte.ts`, `Login.svelte`, `Nav.svelte`, `+layout.svelte`) | sessions, the browser's one cookie, what each tab believes | load, sign in with and without a code, sign out, expire | tabs that share a cookie, late and lost answers | a tab shows the account it acts as; signing out ends the session |
| Pages of the web UI (`web/src/routes`: mail, users, sites, site, php, ssl, settings, databases, stack, firewall, backups, dashboard, audit, console; `Confirm.svelte`) | windows that ask, forms, panels, lists under a choice, requests on their way | ask, send, fill in, open, close, load, poll | what a window named against what its request is about; `load()` over a form; answers out of order | a request is about what was confirmed; typed text stays; a list is of its filter |
| File manager (`web/src/lib/components/FileManager.svelte`, `Monaco`'s loading) | directory, listing, selection, open file, windows | go, open, edit, save, remove, rename, upload | every await: the answer finds another directory, another file, other text | saving writes where it was read; no edit is lost unasked; an editor comes |
| Site's language worker (`site/src/worker.js`, `site/build.mjs`) | one cookie | redirect to the canonical address, to the chosen and to the preferred language | three copies of one rule, redirects between them | redirects end, in the right language |
| Demo's worker (`demo/src/worker.js`, `web/src/lib/i18n/detect.ts`) | a cookie, containers | start, end, pass on, sleep, expire | requests that are older than the end of their demo | containers nobody names stop |
| Webhooks (`api/webhooks.go`) | one setting, the loop's buffer | create, delete, deliver, retry | lost and repeated deliveries, concurrent changes of the setting | every change survives; what is delivered happened |
| Certificates and scheduler (`api/ops_certs.go`, `acme/`, `store/certs.go`) | rows `certificates`, files, idempotency keys | order, issue, renew, back off | an order left "pending", one try per day | a name is renewed before it expires as long as the CA answers |
| Backups (`api/ops_backup.go`) | runs, targets | run, restore, prune, schedule | a run cut off by a restart, daily key | no run stays "running", retention never removes the last good one |
| Panel update (`updater/`, `api/ops_update.go`, `agent/ops_update.go`) | binary, saved binary, state file | install, restart, health check, roll back | cut at any step, repeated job, dead new version | either version answers in the end; the saved binary is the old one |
| PHP branches (`api/ops_php*.go`), users (`api/ops_users*.go`), shares (`api/ops_shares.go`) | rows, unix accounts, ACLs | install, remove, provision, suspend, share | removal against jobs of the sites concerned | no site is on a removed branch; nothing of a removed user is left |
| Mail, webmail, databases, Valkey, cron, firewall, fail2ban, DNS, migration | a row or a setting each | render and apply | order between their jobs and site jobs | what is applied is the last that was saved |
| Rendering, OS profiles, configuration, CLI, TUI, vendored Monaco, message catalogues | none or only a view | text | - | - |

`PROJECT.json` lists each of them with its status, and every hazard we know of
with its line and the properties that watch it.

## 2. Modules

| Module | Models | Composes |
|---|---|---|
| `SerialQueue` | what the queue promises its callers: jobs accepted in order, one at a time per lock key, repeated only when cut off | - |
| `JobQueue` | the runner and the table of jobs, with processes that stop, die and start | implements `SerialQueue` (`ImplementsQueue`) |
| `ConfigSets` | what `/v1/config/apply` promises callers that may overlap but share no file: a set of files takes effect as a whole or not at all | - |
| `ConfigApply` | `/v1/config/apply` of the agent | implements `ConfigSets` for such callers, and for callers that send one request at a time (`ImplementsSets`) |
| `SiteLifecycle` | one site: requests, jobs, files, daemons | uses `SerialQueue` as its queue (`Queue!Accept`, `Begin`, `End`, `Recover`) |
| `JobStream` | runner, broker, SSE handler, EventSource, JobLog | - |
| `FileManager` | the component, against a server that may answer anything | - |
| `Pages` | the pages of the web UI, one browser tab | - |
| `Shell` | tabs, cookie, sessions | - |
| `Visit` | the site's worker and the demo's, one browser | - |
| `*Proofs` (one for each but `SerialQueue` and `ConfigSets`) | theorems about the module of that name | the module, `TLAPS` |
| `MC*` | constants for TLC | the module |

`JobQueue` is shown to implement `SerialQueue`, and `SiteLifecycle` runs its jobs
on `SerialQueue`: a fact about sites does not depend on workers, tickers and
rows of the jobs table. That it uses nothing the abstract queue does not offer
is proved too (`JobsAreQueued`), so the two models meet in one specification.

Operators named "Wrong: ..." in a module's comments are plausible bugs of the
definition that follows them; no specification uses them. Putting one in place
of the definition makes TLC report the property it belongs to, which is how we
know that the property can fail.

### JobQueue

State: `status`, `lockKey`, `last` are the table (`last` is the highest id);
`proc`, `starts` the process; `phase`, `job` the worker goroutines; `wake` the
buffered channel of size one; `faults` the SQL statements that failed.
`verdict`, `cut` and `lost` are history: what the handler of a job last
returned, which jobs were killed between success and its record, which rows are
"running" because a write was lost.

Actions follow the source line by line: `Enqueue` (insert and non-blocking
send), `Claim` / `ClaimNothing` / `ClaimFails` / `ClaimCancelled` (the one SQL
statement of `ClaimJob`, atomic), `WakeUp` / `Tick` / `Leave` (the select),
`HandlerOk` / `HandlerErr` (the handler returns, panics, or exceeds its time),
`Done` / `Failed` / `Interrupted` / `FinishLost` (the tail of `run`; the error of
`FinishJob` is dropped), `Start` (the requeue, whose error is dropped as well),
`Cancel` (SIGTERM), `Exit`, `Crash`, and `ServeFails`: a listener returns an
error, `Run` returns, but the context of the workers is not cancelled, so the
process stays in `Wait` (state "deaf").

Not modelled: idempotency keys (only the scheduler passes one). Progress and log
lines are in `JobStream`.

### ConfigApply

State: `disk` and `loaded` per file, and per request its program counter, the
files it still has to write (`todo`) and the transaction's saved contents
(`saved`, where `Keep` means "no entry"). The agent takes no lock, so the steps
of requests interleave; the constant `Serial` says whether callers send one at
a time. A file's text, mode and owner are one version; a version is broken or
not and a validator looks at all files of the daemon. `Restore` may fail for
a file (its errors are dropped), `Crash` kills the agent.

Files are written in the request's order in the code and in any order in the
model, which allows more. History copies are not modelled: nothing reads them.
A reload that fails may have loaded any part of the files (`ReloadFails`): the
units are reloaded one after the other. A daemon that is not running any more
is not shown; `loaded` is then what it was last told to load.

`ImplementsSets` maps this to `ConfigSets`. There a file holds what was decided:
as long as a request still writes or rolls back, the file holds what the request
has saved of it (`DecidedFiles`), whatever is on the disk. The validator's
success is then the one step in which the whole set takes effect; writing, saving
and putting back are steps in which nothing happens, but for a file that cannot
be put back and the death of the agent, which leave part of a set (`Leave`,
`Die`, counted in `torn`). A request that wrote or forced something owes the
daemon a reload, and only `Load` answers it with success. Because requests may
overlap, `ConfigSets` allows two things that a reader of the code may not expect:
an accepted set may leave a broken file that another request is about to
replace (that request wrote a good file over a broken one, and if it is refused
the broken one comes back), and a reload may take in files that another request
has written and not decided on.

### SiteLifecycle

State: `row` (settings and status; statuses "new" and "gone" stand for no row),
`vhost` (nginx's file) and `nginx` (whether it has loaded that file, has been told
to, or neither: "current", "told", "stale"), `file` and `pool` (the branch whose
pool directory has the pool's file, the branch whose running master holds the
socket), `told` (masters that were told to reload and have not done so), the
requests (`pc`, `op`, `copy`: a request reads the
row, changes a field and writes ALL fields), the queue, and the handlers
(`stage`, `read`, `unit`). History: `refused` (masters that last found the socket
of their pool taken) and `untold` (masters whose pool's file was taken away and
that nobody told). Settings are abstract values; of them only the PHP branch
matters.

A reload only tells a daemon: systemd answers when the signal is sent. The
daemons load their files in steps of their own, at any time later, in any order,
and as the files are then. What `site.apply` does after the reload is to look
whether the socket's path exists, which it also does while another master holds
it, and to ask nginx for an answer, both for a limited time and both with
nothing but a warning when they fail; so `ReloadServices` goes on unconditionally
and only an error of systemd fails the job (`ReloadFails`).

| Action | Code |
|---|---|
| `Create`, `Load`, `Save`, `Refuse`, `Submit`, `SubmitFails` | the handlers of `POST/PATCH/DELETE /sites`, suspend, unsuspend, apply; the certificate job's `reapplySitesForCert` |
| `Reapply`, `ApplyWebmail`, `RemoveOwner` | jobs enqueued by others: panel-wide PHP settings and shares; the webmail installer (key `site:<id>`); removal of the owner (key `user:<login>`) |
| `Fetch`, `FetchNothing` | the job reads the row |
| `Evict`, `Release`, `WriteFiles`, `ReloadServices`, `ReloadFails`, `SaveApplied`, `Finish` | `jobSiteApply` in its order |
| `Unlink`, `ReloadUnlinked`, `ReloadUnlinkedFails`, `DeleteSite` | `jobSiteDelete`, `removeSiteConfig`, the agent's `removePaths`; also the part of `jobUserDelete` that concerns the site |
| `SiteFail`, `Abandon`, `RowVanished` | errors with and without a record in the row |
| `NginxLoads`, `MasterOpens`, `MasterIsRefused`, `MasterCloses` | the daemons, which are external: they reload after being told, or because jobs of other sites told them |
| `Restart` | the API process stops or dies and starts; handlers start again |

Not modelled: sites without PHP (proxy mode) and Apache's files, which are
handled like nginx's; the certificate ordered at the end of site.apply; the CMS
installer and sites.move-ip; a second site of the same name after the first one
is gone.

### JobStream

State: on the server `row`, `log`, the event written down and not published yet
(`unsent`), the end of a job that could not be written (`unsaved`); per job the
stream (`conn`: "closed", "down", "subscribed", "read", "live"), its channel
(`chan`) and the row as the handler read it (`snap`); on the page `job`,
`status`, `lines`. `dropped` and `refused` are history.

`Enqueue`, `Start`, `logLine`, `FinishJob` are the runner's writes, each followed
by `Publish`, which drops the event where the channel is full. `Subscribe`,
`ReadRow`, `Snapshot` are the handler in its order; `Refuse` is its answer
"failed" when the row cannot be read. `Deliver` is one event up to JobLog,
`Break` a broken connection, `Restart` the API process, `Show` JobLog's effect,
which closes one stream and opens the next. Of the wire only order and loss
remain: sending and receiving are one step. Progress events are like log lines.
Two things are simpler than in the browser. JobLog appends what arrives, so that
lines it has already are doubled after a reconnect; `lines` is a set, which does
not show that. And a browser's EventSource gives up for good when it is answered
with an error status instead of a stream, where the model connects again:
`FinishIsSeen` holds under the assumption that a reconnect finds the API up.

### FileManager

State: `cwd`, `entries`, `selected`; the open file (`editing`, `text`,
`original`); `saving`; the listings and files on their way (`loads`, `reads`,
sets of what was asked); `op` (how many operations and uploads wait: nothing
keeps a person from starting another one); `ask` (the window that asks and what
about); `script`, `mount`, `editor` (Monaco's loader, the mount that waits for
it, what the text is edited in). History: `from` (where the text was read),
`stored` (what the server last gave or took), `slips` (answers whose question
was no longer asked).

JavaScript runs a handler up to its next `await` without interruption, so a
handler is one action up to there and what follows is an action of the answer:
`ListingAnswered`, `FileAnswered` / `FileFailed`, `SaveAnswered` / `SaveFailed`,
`OpAnswered`, `MonacoLoaded` / `MonacoFailed`. The others carry the function's
name. The server is external: any listing, any text, any failure.

Not modelled: the pickers, drag and drop, the placement of the context menu,
permissions and archives (operations like any other). An upload sends its files
one after the other and reads `cwd` again for each (`FileManager.svelte:326`), so
that a reader who leaves the directory meanwhile puts the remaining files into
the new one; the model keeps of an upload only that it goes on and that a
listing follows.

### Pages

A page is a record of its operations, sorted by how each is written: asks the
window `Confirm` and gives it what the row named (`asks`), or a function that
reads the page's panel when it runs (`asksNow`); a window of the page (`own`,
`ownNow`); a form (`forms`), one that `load()` writes over (`refilled`), one that
a success empties (`wipes`) or that is emptied when it is sent (`spent`); a
button that sends at once (`buttons`); groups that are disabled while one of
them runs (`once`); windows a success closes (`shuts`); a panel; a list under a
choice. A form may also be written by the answer that opens the panel (`shown`:
the Valkey memory of an account), and `wipes` also names successes that write
another operation's form. These fourteen records are the translation of the
pages; the actions
are the few ways the code has of doing such a thing (`Ask`, `go`, `OpenOwn`,
`Press`, `Type`, `Submit`, `Click`, `openPanel`, `Choose`, `Poll`, and the
answers). `strays` records operations sent for something their window had not
named.

Not modelled: what an operation does on the server, the checks of a form's
values, mail's window of DNS records, the busy marks of users' Valkey cards, and
a person's own clicks that fill or empty a form (edit a row, cancel, the
pencil). What is typed into a window goes with the window.

### Shell

State: `jar` (the browser's cookie), `made`, `live`, `owner` (sessions), per tab
`me`, `loading`, `needCode`, `busy`, and the requests on their way with the
cookie of the moment they were sent. History: `mine` (the session a tab was told
of), `out` (it shows the form because it signed out), `crossed` (an answer to
another tab or to an older sign-out came since it asked, or a request was lost).
`Load`, `Submit`, `Logout` are the person; `Serve*` and `RefuseLogin` the API;
`*Arrives` and `LoginRefused` the browser; `Lose` a request that fails, `Expire`
the end of a session by its age or by the account's suspension. A login may be
refused at any time, which stands for the limiter and for wrong passwords. The
request for `/health`, which `loadMe` waits for once it knows who one is, is left
out: it has no part in what a tab believes; the form is busy a little longer.

### Visit

The rule of the languages in its three implementations (`browserLang` of the
site's worker, `demoLang`, `detectLocale` of the web UI), reduced to what they
look at: the primary tag, the region, the weight. The site's worker is
`RedirectCanonical`, `RedirectChosen`, `RedirectPreferred`, `Show`, over
addresses with the languages their page was built in. The demo's worker is
`ServeStart`, `ServeEnd`, `ServeNoSession`, `Fetch`, `FetchFails`; containers
end by `Sleep`, `expire` or `/end`. Where the demo's worker answers with a
redirect (`/?ended`, `/?busy`), the browser follows it by a request of its own
(`Follow`); one that an API call is answered with is shown to nobody
(`ApiArrives`). The visitor opens, presses and has several requests on their way;
the browser keeps cookies or not. The lists of languages are abstracted, the same
list for the three implementations: that one of them lacks a language would not
be seen.

## 3. What the checks show

Each run finishes within a few minutes on two workers.

| Run | Instance | What it shows |
|---|---|---|
| `job_queue` | 2 workers, a key and the empty one, 3 jobs, 2 starts, 1 failed statement | lock keys exclude and order jobs, verdicts are true, the abstract queue is implemented, whatever stops and fails; every job ends unless a lost write holds its key |
| `config_apply_serial` | 2 requests one after another over the same 2 files, 2 good and 1 broken version, 1 kill, 1 failed restore | nothing broken is loaded |
| `config_apply_overlap` | 2 requests at once, one of 2 files and one of a third, a good and a broken version, 1 kill, 1 failed restore | a refused set leaves no trace; the disk is valid at rest; a broken file that is loaded is one of another caller that has not decided; sets change at once or not at all and success means loaded (`ConfigSets` is implemented) |
| `site_life` | 2 clients, 2 settings on 2 PHP branches, 3 jobs, 1 restart, 1 failing call, daemons that lag | at rest the files are what the row says and the daemons have been told; a deleted site has no files; a master that lost its pool's file is told to let the socket go |
| `site_live` | 1 client, 1 setting, 2 jobs, 1 restart, every caller | an accepted removal ends |
| `job_stream` | 2 jobs, a channel of 2, 2 lines, 2 faults (broken connection, restart, lost write, unreadable row) | an end that is shown is true, the log is whole, the end is shown |
| `file_manager` | 2 directories, 1 name, 2 texts, 2 reads and 2 operations on their way | the editor saves where it read, no unsaved text counts as saved, edits are lost only when asked, an editor comes |
| `pages` | every page with every 2 of its operations, 2 subjects, 2 requests on their way | which operations act on something the window did not name, which steps take typed text, a polled list heals |
| `sign_in` | 2 tabs, 2 accounts, one with a code, 2 sessions, 2 requests, 1 event | a tab shows whom it acts as, signing out ends the session, no screen waits for ever |
| `visit` | 4 headers, with and without cookies, robots, 2 visits, 2 demos, 2 requests, 1 revived container | redirects end in the right language, the three rules agree, orphaned containers stop |
| `site_outside`, `site_lost_update` | see below | where the code does not do what the repository says |

Why these bounds are enough to meet the interesting cases:

- Two workers and two jobs of one key are what it takes to break exclusion,
  three jobs with and without the key to break order when one is cut off and
  goes back into the queue. Other keys behave towards each other as the empty
  one does.
- Two files show a partial write, two requests every overlap of two
  transactions. In `config_apply_overlap` one request has a set of two files, so
  that a set that is half written is refused, rolled back or cut off while the
  other request validates and reloads.
- A site needs one job in progress, one that overwrites and one that removes.
  `site_life` explores overlapping requests with all three jobs while nothing
  has failed, failures with overlapping requests and two jobs, failures and the
  restart with three jobs when requests come one at a time (`Within`, a
  constraint of the configuration). A daemon that was told reloads at any later
  time while requests come one at a time, nothing has failed and a job is left;
  elsewhere it does before the panel's next step (`DaemonsFirst`). Outside of
  these bounds the properties rest on their proofs, which know no such order.
- Two events in a channel of two, with a third to be published, make it
  overflow; a second job is what the page turns to; two faults are what it takes
  to break a connection and to restart before it is up again.
- The file manager's hazards need one request that is answered after its
  directory, file or text was left: two directories holding a file of the same
  name, two texts, two reads.
- A page's operations meet each other only through the window, the form, the
  panel and the lists, of which there is one each: two at a time show every
  pair. Two subjects tell "the one it named" from "the one open now".
- Two tabs, two accounts, two sessions and two requests show each pair of
  crossing answers; one event is a lost request, an expiry or a reload, of
  which the properties excuse the first.
- The four headers are none, a preferred language listed last, Moldovan
  Romanian, and "*" beside Romanian: each decides the rule at another place.

Where bounds are small (`sign_in`, `visit`), the theorems of section 5 hold
without them.

Deadlock is checked in `file_manager`, `pages` and `sign_in`: the person can
always do something. Elsewhere the models stop when their bounds are used up,
and an idle panel does nothing.

### Runs that end with a counterexample

| Run | Statement | What happens |
|---|---|---|
| `site_outside` | "tears down everything a user owns" (`api/ops_users_delete.go:62`), "one job per entity at a time" (`docs/en/01-architecture.md`, 3.1) | a site.apply in progress writes the files of a site that user.delete, under the user's key, has just removed; the webmail job's site.apply (key `site:<id>`) does the same beside a site.delete |
| `site_lost_update` | "The panel is the source of truth" (`docs/en/01-architecture.md`, A4) | site.apply overwrites settings that were saved while it ran |

### What the code does where no property holds

These steps are in the models, with the effects given here; properties are
stated so that they are true in spite of them.

- `agent/ops_config.go:68`: between the write of one request and its validation
  another request may reload the daemon, with files nobody has validated, although
  "a broken config never reaches a reload" (`docs/en/01-architecture.md`, A4).
  `BrokenIsAnothers` says how far the sentence is true: the broken file is never
  the caller's own, and its owner is still to decide and would put it back.
  `LoadedValid`, the sentence itself, is checked for callers that send one
  request at a time, which the panel's workers do not.
- `agent/ops_config.go:80`: a request that finds nothing to write answers
  success without a reload, also when the reload before it failed. `SuccessIsLive`
  and `owed` of `ConfigSets` speak of requests that wrote something or forced the
  reload.
- `agent/ops_config.go:89`: units are reloaded one after the other, and the first
  that fails ends the request: some daemons have the new files then, and nothing
  tries again. All that `ConfigSets` promises is an error (`LoadFails`).
- `agent/ops_files.go:342`: a removal that is cut off between unlinking and the
  reload finds nothing to remove the second time, and does not reload: the
  daemons go on serving what was removed (`Unlink`, `ReloadUnlinked`). That is why
  `GoneHasNoFiles` speaks of files and not of what is loaded.
- `api/ops_sites.go:918`: suspend, change the PHP branch, unsuspend. The suspended
  site's apply removes the pool's file without telling its own branch's master
  ("pool stopped", it reports), so the later applies find no file of that branch
  and nobody to release: the master keeps the socket until something else reloads
  it (`Evict`, `untold`). The new branch's master finds it taken (`refused`), and
  the row is marked "active" all the same, because the job looks only at the
  socket's path (`api/ops_sites.go:952`). `HolderIsTold` names this exception and
  those of a job that failed or was cut off; `RestMatches` speaks of the files
  and of who was told, not of who listens.
- `api/ops_sites.go:932`: the comment at line 905 says that the old branch's master
  has to release the socket before the new one tries to take it. The code tells it
  first, but systemd answers as soon as the signal is sent: the new master may
  look before the old one has let go, and then serves no pool of a site that is
  marked "active" (`MasterIsRefused`).
- `api/ops_sites.go:913`: a change of the branch removes and releases the old pool
  before the new one is written and loaded: in between, and after a failure,
  the site has none. `docs/en/01-architecture.md:212` describes the other order.
- A row whose job could not be enqueued, or whose failure was not recorded, is
  found by nothing (`slip` in `RestMatches` and `DeleteEnds`); a lock key held by
  a row whose final write was lost stays held until the next start (`lost` in
  `Progress`). In that case "done" is shown on the page while the row stays
  "running" (`unsaved` in `ShownFinishIsTrue`).
- A page whose channel dropped "done" shows the job as running until its stream
  breaks (`dropped` in `FinishIsSeen`).
- The file manager: an answer to a read that outlived a change of directory
  becomes the open file of the directory shown now, and saving writes there
  (`"astray"`); text typed while a save is on its way counts as saved
  (`"typedOver"`). Of two listings the one answered last stays, also when it is of
  a directory left meanwhile; `remove` and `rename` then offer its names and act in
  `cwd`. No property speaks of that: the code neither numbers its requests nor
  promises an order. An upload that its reader leaves goes on into the directory
  shown now. A file that comes late replaces unsaved text, and `{#key user}` of
  `web/src/routes/files/+page.svelte` takes the editor away without asking,
  where `docs/en/05-roadmap.md:61` speaks of a guard against leaving with unsaved
  changes. The properties name each of these and exclude everything else.
- The pages: `StraysAreRereads` names the operations whose request may be about
  something else than what their window said: those of users and of backups that
  read the open panel when they run, and `remove` of mail
  (`web/src/routes/mail/+page.svelte:116`), which after the answer for a domain
  looks at its window again, finds the mailbox a person has opened it for
  meanwhile and removes that one too, without its button having been pressed,
  although by the comment at line 29 a window comes first to say what happens.
  `TypedIsKept` names what takes typed text: a success of the form's own request,
  with what was typed after it was sent; `load()`, the forms that show what the
  server has; the panel's answer, the Valkey form (`users/+page.svelte:85`); and
  six operations that write another operation's form (`unban`, `untrust`,
  `resetGlobal`, `resetCfg`, `checkUpdate`, `issueTLS`). The window of `setPassword`
  closes with the typed password also when the request fails.
- Sign-in: another tab's sign-in changes whom this tab acts as without its
  noticing; a second click on "sign out", answered after the next sign-in, takes
  the new cookie; a sign-in leaves the browser's older session alive; a lost
  sign-out leaves the session alive behind the form. `crossed` stands for these.
- The demo: a late failing request drops the cookie of the demo started since
  (`FetchFails`, `PageArrives`, `ApiArrives`), whose container then sleeps unnamed;
  one that was on its way when `/end` destroyed its container starts it again.
  `OrphanStops` says that it stops all the same. A page of the site that was
  built in one language redirects to an address that does not exist; the build
  warns and goes on. `PageComes` says that the redirects end.

## 4. Fairness

- `JobQueue`: a worker goroutine is scheduled, its one-second ticker fires, a
  handler returns (its context has a timeout, which we trust handlers and the
  agent's commands to obey), and the service manager starts the process again
  after a stop. No fairness on requests, stops, kills or failures.
- `SiteLifecycle`: a request that has read the row is answered, and a job that
  may run is run to its end, which is what `JobQueue!Progress` shows of the
  queue. Requests need not arrive, and the daemons need not reload.
- `JobStream`: the runner publishes what it has written, and the handler and the
  browser go on (`WF` of `Stream(j)`), including EventSource's reconnect. A job
  may wait or run for ever.
- `FileManager`, `Pages`, `Shell`: the browser answers every request, if only with
  an error; `setInterval` of the audit page runs. No fairness on the person.
- `Visit`: the browser follows redirects, requests of the demo are answered, the
  platform lets a container without requests sleep (`sleepAfter`). No fairness on
  the fifteen-minute limit or the cookie's age: `OrphanStops` does not need them.

## 5. What is proved

For every number of workers, keys, jobs, starts, requests, files, versions,
clients, settings, branches, lines, names, subjects, tabs, accounts, sessions,
headers and demos. The only assumptions are the named `ASSUME`s of the modules
(distinct keys, naturals as bounds, sentinels outside the sets they are used
with, headers that are sequences) and, for `GoneStaysGone`, `RestIsTrue`,
`MarkedAreWritten`, `HoldersAreTold`, `SetsAtOnce`, `BrokenLoadedIsAnothers`,
`RefusedLeavesNoTrace`, `DiskRestsValid` and `OkIsLive`, the condition in their
statement.

Every state property, action property and refinement that a passing run checks
is proved, but for `LoadedValid`, which speaks of callers the panel does not
have. Of the liveness properties the prover cannot do the last step, from
"somebody will" to "it happens"; what can go wrong before it, that nobody is
left who will, is a safety property and is proved for six of them (`NeverStuck`,
`NotLeftHalfway`, `EndIsOnItsWay`, `NobodyWaitsInVain`, `WaitsEnd`,
`RedirectsEnd` below).

- `JobQueueProofs!TypeCorrect`, `LocksExclude`, `KeysInOrder`, `Implements`,
  `NoOrphans`, `VerdictsHold`, `NoRepeat`. The inductive invariant says that a
  busy worker holds a "running" row of its own (`BusyOwnsRow`, `NoSharedRow`), a
  down process has no busy worker (`DownIsIdle`), and rows are used up to `last`
  (`RowsUpToLast`). Exclusion does not follow from that alone: of two rows of
  one key that left the queue the older one has ended, so `KeyOrder` joins the
  invariant and gives exclusion. `NoOrphans` adds that a running row without a
  worker is accounted for in `lost` (`OrphansHaveCause`); the theorems about
  verdicts add what a returning handler has recorded. `NeverStuck` follows from
  these: workers do not leave while the context is not cancelled, and what bars a
  queued row is a running row of its key, which by `OrphansHaveCause` a worker has
  or `lost` excuses.
- `ConfigApplyProofs!TypeCorrect`, `RefusedLeavesNoTrace`, `DiskRestsValid`,
  `OkIsLive`, `BrokenLoadedIsAnothers`, `SetsAtOnce`. All but the first are about
  requests of which no two that overlap name the same file (`NoSharing`: callers
  one at a time, or files of their own, as those of two sites are;
  section 3 and the plan say what happens otherwise).
  `RefusedLeavesNoTrace`: for every file of a request the disk or the saved entry
  holds what it found. `DiskRestsValid` and `OkIsLive`: a broken file on the disk
  is one a request in progress has put there and can take back, and what it would
  put back is not broken (`BrokenIsOwned`), as long as the agent is not killed and
  every restore succeeds; what a request has written stays until it is answered
  (`WrittenStays`). `BrokenLoadedIsAnothers` joins the two: an accepted set has no
  broken file (`AcceptedWhole`), so one that a reload takes in has another owner,
  and `BrokenIsOwned` says that this one can still take it back. `SetsAtOnce` is
  the refinement of `ConfigSets`, an action at a time, for overlapping requests. It
  needs, beyond the invariants, what the saved entries tell (`EntriesTell`): a file
  with an entry is one the request has changed, to what it asks for; and that at
  most one request holds a file (`Held`, `OnlyHolder`). So writing and putting back
  change no decided file, and when the entries are given up at the validator's
  success, what is on the disk is the whole set, and differs from what was
  decided before exactly when there is an entry.
- `SiteLifecycleProofs!TypeCorrect`, `GoneStaysGone`, `RestIsTrue`,
  `MarkedAreWritten`, `HoldersAreTold`, `JobsAreQueued`, `RemovalsConclude`,
  `NotLeftHalfway`. `GoneStaysGone`: when every job of a site is queued under
  the site's key (`Outside = {}`), no file of a site without a row is left. The
  property alone is not inductive. The invariant adds that the site's jobs run
  one at a time (`Keyed`, `Fresh`, `Resting`, `OneActive`), that a handler past
  its reading of the row has a row (`InHand`), that a job that has removed the
  files finds them removed until it deletes the row (`Removing`), and that a
  request only writes back a row it has read (`LoadedLive`). The run
  `site_outside` shows that the assumption is needed and that the code does not
  meet it. `RestIsTrue`, under the same assumption: a row that the host does not
  match is one that somebody still has work for (`Owed`: a request that has
  written the row, a job that has not), because a request that writes the row
  enqueues a job and a job leaves a row it has made true, "error", or no row
  (`Settled`). That the row is made true follows from the job's files being
  those of the row it read and its daemons having been told (`Carried`), and
  from a daemon that loads leaving it so (`OthersKeepServed`). Of the files
  alone `MarkedAreWritten` says it at the very step: a row that the handler
  marks "active" or "suspended" has its files on the host right then, also after
  a write was lost and while other requests go on. It is a fact about jobs that
  interleave, not about the daemons: what listens by then no step of the code
  finds out. `HoldersAreTold`: a job has a master to tell only between taking
  its file and telling it, and writes a pool's file only where it left none of
  another branch (`Cleared`); so a master that holds the socket without a file
  was told, is about to be, or is one of the exceptions the code leaves.
  `RemovalsConclude` needs no assumption on others' keys: a removal that is over
  leaves no row, or one in "error" (`RemovalStages`, `RemovalOfSomething`). Nor
  does `NotLeftHalfway`: for a row that is "pending" or "deleting" a request has
  yet to enqueue its job or a job has yet to come to its last write, and not
  only the owner's removal, which leaves the row as it is when it fails.
  Together they are `DeleteEnds` but for the fairness.
- `JobStreamProofs!TypeCorrect`, `FinishTold`, `LogIsWhole`, `EndIsOnItsWay`. An
  end passes through four places on its way to the page: the event not yet
  published, the channel, the row as the handler read it, the page. The
  invariant `Truth` says of each that an end found there is the row's, or one
  that could not be written (`EndedSo`), and that only the stream of the job
  shown is open (`OneStream`), without which an older stream could show its end
  as another job's. That nothing un-ends a row is `EndsStay`. `LogIsWhole`
  follows a line the same way (`AllKnown`): what is told of a line is told of
  one the log has, and a line that the reader or the page lacks is not yet
  published, in the channel, or dropped. `EndIsOnItsWay` does so for the end:
  one the page lacks is ahead of the open stream, in the row it will read, the
  row it has read, or the channel (`Coming`), and a page that shows no end has a
  stream (`Listening`).
- `FileManagerProofs!TypeCorrect`, `SavesWhereRead`, `NoTagIsStored`,
  `EditsAreKept`, `NobodyWaitsInVain`. The two state properties are one invariant
  with `OriginalStored`: what the editor compares with is what the
  server has. `EditsAreKept` follows from it step by step: unsaved text shows
  the tag, so whatever replaces it has to pass `leaveEditor`. `NobodyWaitsInVain` is
  inductive by itself: closing and leaving a file take the mount with it.
- `PagesProofs!TypeCorrect`, `RequestsAreNamed`, `TypedStays`, `OneAtATime`: by
  the actions, with the fact that a page's own window holds only its own
  operations (`OwnIsOwn`). `TypedStays` also compares the lists of its property with
  the records of all fourteen pages (`WritesAreListed`, `WipesAreListed`,
  `SpentIsOnce`), so that a page that begins to write another form breaks it.
  `OneAtATime` is not inductive: a window that is open
  shuts out its operation's group, although its own button does not look at the
  group, because whatever else of the group is on its way a window has sent
  (`Alone`).
- `ShellProofs!TypeCorrect`, `ShownActs`, `SignOutEnds`, `WaitsEnd`. One
  invariant: a tab asks one thing at a time (`AsksOnce`), so that an answer to
  an older question cannot overwrite a newer one; a session whose cookie has not
  come is in nobody's hands (`FreshLogins`); a served sign-out has ended its
  session (`Ended`); a tab nobody crossed asks about the cookie there is and was
  told of it (`Told`); its older sign-outs are about other cookies
  (`OldSignOuts`), and one about the present cookie is about the session it was
  told of (`SignOutsOfMine`). `WaitsEnd` adds that the form signs in only after
  the tab was told who it is (`LoginsAreBusy`), so that a refusal, which ends
  only `busy`, leaves nothing to wait for.
- `VisitProofs!TypeCorrect`, `ShownLanguageIsRight`, `RedirectsEnd`. The type
  invariant needs that requests, cookies and containers name only demos that
  were started. The language follows from what the address still being fetched
  and the cookie say of the last choice (`Settling`), and from the agreement of
  the three rules for headers of any length, which rests on the preferred tag
  being unique: of the heaviest tags the one with the least index.
  `RedirectsEnd` is a measure (`Ahead`, at most three): every redirect lowers it
  and no other step raises it.

Only model-checked: `LoadedValid`, and liveness (`Progress`, `DeleteEnds`,
`FinishIsSeen`, `EditorComes`, `PollingHeals`, `ScreenComes`, `PageComes`,
`OrphanStops`), which needs fairness and is out of the prover's reach.
`PollingHeals` and `OrphanStops` have no safety half worth a theorem: a poll or
a sleeping container needs only time.

To repeat: `tlc -config JobQueue.cfg MCJobQueue.tla` (and so on; each `.cfg` is
named after its question), `tlapm ShellProofs.tla`.

## 6. Not modelled

- Waiting client (`client/`): reads the stream as JobLog does, and keeps nothing
  after the command.
- Webhooks: one HTTP request with three tries per event; the broker they read is
  in `JobStream`. Their setting is changed as a whole, a lost update like
  `JobsKeepSettings`.
- Certificates: mostly the dialogue with the CA, which is not in the repository.
  Pending orders and the daily keys are listed as hazards.
- Backups and the panel's update: their steps are restic's, systemd's and the
  file system's; what a cut leaves is listed as a hazard.
- Sign-in limiter, tokens, TOTP set-up: single statements and arithmetic on
  clocks.
- PHP branches and extensions, users, shares, mail, databases, Valkey, cron,
  firewall, fail2ban, DNS, SELinux: a record each and commands on the host. What
  they do to a site and to the order of its jobs is in `SiteLifecycle`; what
  their pages do is in `Pages`.
- Migration from other panels: one long job over foreign data.
- Rendering, OS profiles, configuration, CLI, TUI, message catalogues, the
  generator of the site's pages: text. Only which pages the generator makes is
  in `Visit`.
- Monaco is vendored: only that it loads, fails or comes late is modelled.
- The demo's canned API answers: constants.

## 7. Plan

1. An abstract specification for a page's log, "lines in order and the verdict
   last", which `JobStream` implements with its losses named; the same for
   sessions and one browser, if it says more than `ShownActs` and `SignOutEnds`.
2. Overlapping requests that share files (the callers of one site under
   different keys): which promises of the agent are left, checked and proved.
3. `Certificates` with the scheduler's idempotency keys, which complete
   `EnqueueJob`; liveness: a due certificate is tried again.
4. `SiteLifecycle` extended by the CMS installer, sites.move-ip and a second
   incarnation of a name; a composition with `ConfigApply` where an agent request
   outlives the API process.
5. `PanelUpdate` and `Backups`: small modules for the hazards listed for them.
