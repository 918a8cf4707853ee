--------------------------- MODULE JobStreamProofs ---------------------------
(***************************************************************************)
(* Proofs about JobStream, for any jobs, any size of the channel, any      *)
(* length of the logs and any number of faults.                            *)
(***************************************************************************)
EXTENDS JobStream, SequenceTheorems, TLAPS

USE NoneAssumption, BoundAssumption DEF server, shown

-----------------------------------------------------------------------------
(* Types, part by part. *)

ServerType ==
  /\ row \in [Jobs -> Statuses \cup {"none"}] /\ log \in [Jobs -> 0..MaxLines]
  /\ unsent \in [Jobs -> Events \cup {None}]
  /\ unsaved \in [Jobs -> {"no", "now", "past"}]

ConnType == conn \in [Jobs -> {"closed", "down", "subscribed", "read", "live"}]
ChanType == chan \in [Jobs -> Seq(Events)] /\ \A j \in Jobs : Len(chan[j]) <= Buffer

StreamType ==
  /\ snap \in [status : Statuses \cup {"none"}, log : 0..MaxLines]
  /\ \A j \in Jobs : conn[j] = "read" => snap.status \in Statuses
  /\ faults \in 0..MaxFaults
  /\ dropped \in [Jobs -> SUBSET (Final \cup {"log"})]

PageType ==
  /\ job \in Jobs \cup {None}
  /\ status \in Statuses /\ lines \subseteq 1..MaxLines
  /\ refused \in BOOLEAN

Types == ServerType /\ ConnType /\ ChanType /\ StreamType /\ PageType

LEMMA TypeParts == Types => TypeOK
BY DEF Types, ServerType, ConnType, ChanType, StreamType, PageType, TypeOK

LEMMA EventTypes ==
  /\ \A s \in Final : [type |-> s] \in Events
  /\ \A n \in 1..MaxLines : [type |-> "log", line |-> n] \in Events
  /\ \A e \in Events : e.type \in Final \cup {"log"}
  /\ \A e \in Events : e.type \notin Final => e.line \in 1..MaxLines
BY DEF Events, Final

LEMMA ChannelTypes ==
  /\ <<>> \in Seq(Events) /\ Len(<<>>) = 0
  /\ \A c \in Seq(Events), e \in Events : Append(c, e) \in Seq(Events) /\ Len(Append(c, e)) = Len(c) + 1
  /\ \A c \in Seq(Events) : c # <<>> =>
       /\ Head(c) \in Events /\ Tail(c) \in Seq(Events)
       /\ Len(Tail(c)) <= Len(c)
<1>1. \A c \in Seq(Events) : c # <<>> =>
       /\ Head(c) \in Events /\ Tail(c) \in Seq(Events) /\ Len(Tail(c)) = Len(c) - 1
  BY HeadTailProperties
<1>2. \A c \in Seq(Events) : Len(c) \in Nat  BY LenProperties
<1>3. \A c \in Seq(Events), e \in Events : Append(c, e) \in Seq(Events) /\ Len(Append(c, e)) = Len(c) + 1
  BY AppendProperties
<1>4. <<>> \in Seq(Events) /\ Len(<<>>) = 0  BY EmptySeq
<1> QED  BY <1>1, <1>2, <1>3, <1>4

LEMMA EmptyChannels == [j \in Jobs |-> <<>>] \in [Jobs -> Seq(Events)] /\ Len(<<>>) <= Buffer
BY ChannelTypes

LEMMA EndType ==
  ASSUME ConnType, ChanType, NEW j \in Jobs, Hangup(j) \/ Close(j)
  PROVE  ConnType' /\ ChanType' /\ \A k \in Jobs : conn'[k] = "read" => conn[k] = "read"
<1>1. chan' \in [Jobs -> Seq(Events)] /\ \A k \in Jobs : chan'[k] = <<>> \/ chan'[k] = chan[k]
  BY ChannelTypes DEF Hangup, Close, ChanType
<1>2. ChanType'  BY <1>1, EmptyChannels DEF ChanType
<1> QED  BY <1>2 DEF Hangup, Close, ConnType

-----------------------------------------------------------------------------
LEMMA RunnerType == Types /\ Runner => Types'
<1> SUFFICES ASSUME Types, Runner PROVE Types'  OBVIOUS
<1> USE DEF Types, ServerType, ConnType, ChanType, StreamType, PageType
<1>1. PICK j \in Jobs : Enqueue(j) \/ Start(j) \/ logLine(j) \/ Publish(j) \/ \E s \in Final : FinishJob(j, s)
  BY DEF Runner
<1>2. CASE Enqueue(j) \/ Start(j)  BY <1>2 DEF Enqueue, Start, Statuses
<1>3. CASE logLine(j)
  <2>1. log[j] + 1 \in 1..MaxLines  BY <1>3 DEF logLine
  <2>2. log' \in [Jobs -> 0..MaxLines] /\ log'[j] \in 1..MaxLines  BY <1>3, <2>1 DEF logLine
  <2>3. unsent' \in [Jobs -> Events \cup {None}]  BY <1>3, <2>2, EventTypes DEF logLine
  <2> QED  BY <1>3, <2>2, <2>3 DEF logLine
<1>4. CASE Publish(j)
  <2>1. unsent[j] \in Events  BY <1>4 DEF Publish, Quiet
  <2>2. unsent' \in [Jobs -> Events \cup {None}]  BY <1>4 DEF Publish
  <2>3. dropped' \in [Jobs -> SUBSET (Final \cup {"log"})]  BY <1>4, <2>1, EventTypes DEF Publish
  <2>4. Len(chan[j]) < Buffer => Len(chan[j]) + 1 <= Buffer  BY ChannelTypes, LenProperties
  <2>5. chan' \in [Jobs -> Seq(Events)] /\ \A k \in Jobs : Len(chan'[k]) <= Buffer
    BY <1>4, <2>1, <2>4, ChannelTypes DEF Publish
  <2> QED  BY <1>4, <2>2, <2>3, <2>5 DEF Publish
<1>5. CASE \E s \in Final : FinishJob(j, s)
  <2>1. PICK s \in Final : FinishJob(j, s)  BY <1>5
  <2>2. unsent' \in [Jobs -> Events \cup {None}]  BY <2>1, EventTypes DEF FinishJob
  <2>3. row' \in [Jobs -> Statuses \cup {"none"}]  BY <2>1 DEF FinishJob, Statuses
  <2>4. unsaved' \in [Jobs -> {"no", "now", "past"}]  BY <2>1 DEF FinishJob
  <2>5. faults' \in 0..MaxFaults  BY <2>1 DEF FinishJob
  <2> QED  BY <2>1, <2>2, <2>3, <2>4, <2>5 DEF FinishJob
<1> QED  BY <1>1, <1>2, <1>3, <1>4, <1>5

LEMMA StreamsType ==
  Types /\ (Restart \/ \E j \in Jobs : Stream(j) \/ Refuse(j) \/ Break(j)) => Types'
<1> SUFFICES ASSUME Types, Restart \/ \E j \in Jobs : Stream(j) \/ Refuse(j) \/ Break(j) PROVE Types'
  OBVIOUS
<1> USE DEF Types, ServerType, StreamType, PageType
<1>1. CASE Restart
  <2>1. ChanType'  BY <1>1, EmptyChannels DEF Restart, ChanType
  <2>2. ConnType' /\ \A j \in Jobs : conn'[j] = "read" => conn[j] = "read"
    BY <1>1 DEF Restart, ConnType, Online
  <2>3. ServerType'  BY <1>1 DEF Restart, Statuses
  <2> QED  BY <1>1, <2>1, <2>2, <2>3 DEF Restart
<1>2. ASSUME NEW j \in Jobs, Subscribe(j) PROVE Types'
  BY <1>2 DEF Subscribe, ConnType, ChanType
<1>3. ASSUME NEW j \in Jobs, ReadRow(j) PROVE Types'
  <2>1. row[j] \in Statuses /\ log[j] \in 0..MaxLines  BY <1>3 DEF ReadRow
  <2>2. snap' \in [status : Statuses \cup {"none"}, log : 0..MaxLines] /\ snap'.status \in Statuses
    BY <1>3, <2>1 DEF ReadRow
  <2> QED  BY <1>3, <2>2 DEF ReadRow, ConnType, ChanType
<1>4. ASSUME NEW j \in Jobs, Snapshot(j) PROVE Types'
  <2>1. status' \in Statuses  BY <1>4 DEF Snapshot
  <2>2. lines' \subseteq 1..MaxLines  BY <1>4 DEF Snapshot
  <2>3. ConnType' /\ ChanType' /\ \A k \in Jobs : conn'[k] = "read" => conn[k] = "read"
    <3>1. CASE Hangup(j)  BY <3>1, EndType
    <3>2. CASE conn' = [conn EXCEPT ![j] = "live"] /\ UNCHANGED chan
      BY <3>2 DEF ConnType, ChanType
    <3> QED  BY <1>4, <3>1, <3>2 DEF Snapshot
  <2> QED  BY <1>4, <2>1, <2>2, <2>3 DEF Snapshot
<1>5. ASSUME NEW j \in Jobs, Refuse(j) PROVE Types'
  <2>1. ConnType' /\ ChanType' /\ \A k \in Jobs : conn'[k] = "read" => conn[k] = "read"
    BY <1>5, EndType DEF Refuse
  <2> QED  BY <1>5, <2>1 DEF Refuse, Statuses, Final
<1>6. ASSUME NEW j \in Jobs, Deliver(j) PROVE Types'
  <2>1. /\ Head(chan[j]) \in Events /\ Tail(chan[j]) \in Seq(Events)
        /\ Len(Tail(chan[j])) <= Len(chan[j]) /\ Len(chan[j]) \in Nat /\ Len(Tail(chan[j])) \in Nat
    BY <1>6, ChannelTypes, LenProperties DEF Deliver, ChanType
  <2>2. Len(chan[j]) <= Buffer  BY DEF ChanType
  <2>3. Len(Tail(chan[j])) <= Buffer  BY <2>1, <2>2
  <2>4. CASE Head(chan[j]).type \in Final
    <3>1. status' = Head(chan[j]).type /\ Close(j) /\ UNCHANGED lines
      BY <1>6, <2>4 DEF Deliver
    <3>2. ConnType' /\ ChanType' /\ \A k \in Jobs : conn'[k] = "read" => conn[k] = "read"
      BY <3>1, EndType
    <3> QED  BY <1>6, <2>4, <3>1, <3>2 DEF Deliver, Statuses
  <2>5. CASE Head(chan[j]).type \notin Final
    <3>1. /\ lines' = lines \cup {Head(chan[j]).line}
          /\ chan' = [chan EXCEPT ![j] = Tail(@)] /\ UNCHANGED <<status, conn>>
      BY <1>6, <2>5 DEF Deliver
    <3>2. lines' \subseteq 1..MaxLines  BY <2>1, <2>5, <3>1, EventTypes
    <3>3. ChanType'  BY <2>1, <2>3, <3>1 DEF ChanType
    <3> QED  BY <1>6, <3>1, <3>2, <3>3 DEF Deliver, ConnType
  <2> QED  BY <2>4, <2>5
<1>7. ASSUME NEW j \in Jobs, Break(j) PROVE Types'  BY <1>7, EndType DEF Break
<1> QED  BY <1>1, <1>2, <1>3, <1>4, <1>5, <1>6, <1>7 DEF Stream

LEMMA PageChanges == Types /\ (\E j \in Jobs \cup {None} : Show(j)) => Types'
<1> SUFFICES ASSUME Types, NEW j \in Jobs \cup {None}, Show(j) PROVE Types'  OBVIOUS
<1>1. ConnType' /\ \A k \in Jobs : conn'[k] # "read"  BY DEF Show, ConnType
<1>2. ChanType'  BY EmptyChannels DEF Show, ChanType
<1>3. PageType'  BY DEF Show, PageType, Statuses
<1> QED  BY <1>1, <1>2, <1>3 DEF Show, Types, ServerType, StreamType

LEMMA TypesInductive == Init /\ [][Next]_vars => []Types
<1>1. Init => Types
  <2> SUFFICES ASSUME Init PROVE Types  OBVIOUS
  <2>1. ChanType  BY EmptyChannels DEF Init, ChanType
  <2>2. ConnType  BY DEF Init, ConnType
  <2>3. 0 \in 0..MaxLines /\ 0 \in 0..MaxFaults  OBVIOUS
  <2>4. snap \in [status : Statuses \cup {"none"}, log : 0..MaxLines]  BY <2>3 DEF Init
  <2>5. dropped \in [Jobs -> SUBSET (Final \cup {"log"})]  BY DEF Init
  <2>6. \A j \in Jobs : conn[j] # "read"  BY DEF Init
  <2>7. StreamType  BY <2>3, <2>4, <2>5, <2>6 DEF Init, StreamType
  <2>8. ServerType  BY <2>3 DEF Init, ServerType
  <2>9. PageType  BY DEF Init, PageType, Statuses
  <2> QED  BY <2>1, <2>2, <2>7, <2>8, <2>9 DEF Types
<1>2. Types /\ [Next]_vars => Types'
  <2> SUFFICES ASSUME Types, UNCHANGED vars PROVE Types'
    BY RunnerType, StreamsType, PageChanges DEF Next
  <2> QED  BY DEF vars, Types, ServerType, ConnType, ChanType, StreamType, PageType
<1> QED  BY <1>1, <1>2, PTL

(* Every step keeps the types; the channel never holds more than it has    *)
(* room for.                                                               *)
THEOREM TypeCorrect == Spec => []TypeOK
BY TypesInductive, TypeParts, PTL DEF Spec

-----------------------------------------------------------------------------
(* What is known of a job's end, wherever it is told. *)

(* The end that is told is the row's, or the row could not be written. It  *)
(* stays so: a row that has ended does not change any more.                *)
EndedSo(j, s) == row[j] = s \/ unsaved[j] # "no"
StillSo(j, s) == row'[j] = s \/ unsaved'[j] # "no"

OneStream == \A j \in Jobs : conn[j] # "closed" => job = j
Unsent == \A j \in Jobs : unsent[j] # None /\ unsent[j].type \in Final => EndedSo(j, unsent[j].type)
Sent == \A j \in Jobs : \A i \in 1..Len(chan[j]) :
          chan[j][i].type \in Final => EndedSo(j, chan[j][i].type)
ReadTrue == \A j \in Jobs : conn[j] = "read" /\ snap.status \in Final => EndedSo(j, snap.status)
Shown == job # None /\ status \in Final => EndedSo(job, status) \/ (status = "failed" /\ refused)

Truth == OneStream /\ Unsent /\ Sent /\ ReadTrue /\ Shown

(* Ends stay ends. *)
LEMMA EndsStay ==
  ASSUME Types, [Next]_vars, NEW j \in Jobs, NEW s \in Final, EndedSo(j, s)
  PROVE  StillSo(j, s)
<1> USE DEF EndedSo, StillSo, Types, ServerType, Final
<1>1. CASE Runner
  <2>1. PICK k \in Jobs : Enqueue(k) \/ Start(k) \/ logLine(k) \/ Publish(k) \/ \E e \in Final : FinishJob(k, e)
    BY <1>1 DEF Runner
  <2>2. CASE Enqueue(k) \/ Start(k)  BY <2>2 DEF Enqueue, Start
  <2>3. CASE logLine(k) \/ Publish(k)  BY <2>3 DEF logLine, Publish
  <2>4. CASE \E e \in Final : FinishJob(k, e)  BY <2>4 DEF FinishJob, Works
  <2> QED  BY <2>1, <2>2, <2>3, <2>4
<1>2. CASE Restart  BY <1>2 DEF Restart
<1>3. CASE \E k \in Jobs : Stream(k) \/ Refuse(k) \/ Break(k)
  BY <1>3 DEF Stream, Subscribe, ReadRow, Snapshot, Deliver, Refuse, Break, server
<1>4. CASE \E k \in Jobs \cup {None} : Show(k)  BY <1>4 DEF Show, server
<1>5. CASE UNCHANGED vars  BY <1>5 DEF vars
<1> QED  BY <1>1, <1>2, <1>3, <1>4, <1>5 DEF Next

(* What the channels hold stays true if no channel got anything but what   *)
(* it had, the rest of it, or one more event that tells the truth.         *)
LEMMA SentStays ==
  ASSUME Types, Sent, [Next]_vars,
         \A j \in Jobs : \/ chan'[j] = chan[j] \/ chan'[j] = <<>>
                         \/ chan[j] # <<>> /\ chan'[j] = Tail(chan[j])
                         \/ /\ unsent[j] \in Events /\ chan'[j] = Append(chan[j], unsent[j])
                            /\ unsent[j].type \in Final => EndedSo(j, unsent[j].type)
  PROVE  Sent'
<1> SUFFICES ASSUME NEW j \in Jobs, NEW i \in 1..Len(chan'[j]), chan'[j][i].type \in Final
             PROVE  StillSo(j, chan'[j][i].type)
  BY DEF Sent, EndedSo, StillSo
<1>1. chan[j] \in Seq(Events)  BY DEF Types, ChanType
<1>2. ASSUME NEW k \in 1..Len(chan[j]), chan'[j][i] = chan[j][k] PROVE StillSo(j, chan'[j][i].type)
  <2>1. EndedSo(j, chan[j][k].type)  BY <1>2 DEF Sent
  <2> QED  BY <1>2, <2>1, EndsStay
<1>3. CASE chan'[j] = chan[j]  BY <1>2, <1>3
<1>4. CASE chan'[j] = <<>>  BY <1>4, EmptySeq
<1>5. CASE chan[j] # <<>> /\ chan'[j] = Tail(chan[j])
  <2>1. Len(chan'[j]) = Len(chan[j]) - 1 /\ Len(chan[j]) \in Nat
    BY <1>1, <1>5, HeadTailProperties, LenProperties
  <2>2. i + 1 \in 1..Len(chan[j]) /\ chan'[j][i] = chan[j][i + 1]
    BY <1>1, <1>5, <2>1, HeadTailProperties
  <2> QED  BY <1>2, <2>2
<1>6. CASE /\ unsent[j] \in Events /\ chan'[j] = Append(chan[j], unsent[j])
           /\ unsent[j].type \in Final => EndedSo(j, unsent[j].type)
  <2>1. /\ Len(chan'[j]) = Len(chan[j]) + 1 /\ Len(chan[j]) \in Nat
        /\ chan'[j][Len(chan[j]) + 1] = unsent[j]
        /\ \A k \in 1..Len(chan[j]) : chan'[j][k] = chan[j][k]
    BY <1>1, <1>6, AppendProperties, LenProperties
  <2>2. CASE i \in 1..Len(chan[j])  BY <1>2, <2>1, <2>2
  <2>3. CASE i = Len(chan[j]) + 1
    <3>1. chan'[j][i] = unsent[j] /\ unsent[j].type \in Final  BY <2>1, <2>3
    <3> QED  BY <1>6, <3>1, EndsStay
  <2> QED  BY <2>1, <2>2, <2>3
<1> QED  BY <1>3, <1>4, <1>5, <1>6

(* Likewise for what waits to be published, and for what is shown.         *)
LEMMA UnsentStays ==
  ASSUME Types, Unsent, [Next]_vars,
         \A j \in Jobs : \/ unsent'[j] = unsent[j] \/ unsent'[j] = None
                         \/ unsent'[j].type \notin Final
                         \/ StillSo(j, unsent'[j].type)
  PROVE  Unsent'
<1> SUFFICES ASSUME NEW j \in Jobs, unsent'[j] # None, unsent'[j].type \in Final
             PROVE  StillSo(j, unsent'[j].type)
  BY DEF Unsent, EndedSo, StillSo
<1>1. CASE unsent'[j] = unsent[j]
  <2>1. EndedSo(j, unsent[j].type)  BY <1>1 DEF Unsent
  <2> QED  BY <1>1, <2>1, EndsStay
<1> QED  BY <1>1

LEMMA ShownStays ==
  ASSUME Types, Shown, [Next]_vars, UNCHANGED <<job, status, refused>>
  PROVE  Shown'
<1> SUFFICES ASSUME job # None, status \in Final, ~(status = "failed" /\ refused)
             PROVE  StillSo(job, status)
  BY DEF Shown, EndedSo, StillSo
<1>1. job \in Jobs  BY DEF Types, PageType
<1>2. EndedSo(job, status)  BY DEF Shown
<1> QED  BY <1>1, <1>2, EndsStay

LEMMA ReadStays ==
  ASSUME Types, ReadTrue, [Next]_vars, UNCHANGED snap,
         \A j \in Jobs : conn'[j] = "read" => conn[j] = "read"
  PROVE  ReadTrue'
<1> SUFFICES ASSUME NEW j \in Jobs, conn'[j] = "read", snap.status \in Final
             PROVE  StillSo(j, snap.status)
  BY DEF ReadTrue, EndedSo, StillSo
<1>1. EndedSo(j, snap.status)  BY DEF ReadTrue
<1> QED  BY <1>1, EndsStay

LEMMA RunnerTruth == ASSUME Types, Truth, Runner PROVE Truth'
<1>0. [Next]_vars  BY DEF Next
<1>1. PICK j \in Jobs : Enqueue(j) \/ Start(j) \/ logLine(j) \/ Publish(j) \/ \E s \in Final : FinishJob(j, s)
  BY DEF Runner
<1>2. UNCHANGED <<job, status, refused, snap, conn>>
  BY <1>1 DEF Enqueue, Start, logLine, Publish, FinishJob
<1>3. OneStream' /\ ReadTrue' /\ Shown'
  <2>1. OneStream'  BY <1>2 DEF Truth, OneStream
  <2>2. ReadTrue'  BY <1>0, <1>2, ReadStays DEF Truth
  <2>3. Shown'  BY <1>0, <1>2, ShownStays DEF Truth
  <2> QED  BY <2>1, <2>2, <2>3
<1>4. CASE Enqueue(j) \/ Start(j)
  <2>1. Unsent'  BY <1>0, <1>4, UnsentStays DEF Truth, Enqueue, Start
  <2>2. Sent'  BY <1>0, <1>4, SentStays DEF Truth, Enqueue, Start
  <2> QED  BY <1>3, <2>1, <2>2 DEF Truth
<1>5. CASE logLine(j)
  <2>1. \A k \in Jobs : unsent'[k] = unsent[k] \/ unsent'[k].type \notin Final
    BY <1>5 DEF logLine, Final, Types, ServerType
  <2>2. Unsent'  BY <1>0, <2>1, UnsentStays DEF Truth
  <2>3. Sent'  BY <1>0, <1>5, SentStays DEF Truth, logLine
  <2> QED  BY <1>3, <2>2, <2>3 DEF Truth
<1>6. CASE Publish(j)
  <2>1. \A k \in Jobs : unsent'[k] = unsent[k] \/ unsent'[k] = None
    BY <1>6 DEF Publish, Types, ServerType
  <2>2. Unsent'  BY <1>0, <2>1, UnsentStays DEF Truth
  <2>3. unsent[j] \in Events /\ unsent[j] # None
    BY <1>6 DEF Publish, Quiet, Types, ServerType
  <2>4. unsent[j].type \in Final => EndedSo(j, unsent[j].type)  BY <2>3 DEF Truth, Unsent
  <2>5. \A k \in Jobs : chan'[k] = chan[k] \/ (k = j /\ chan'[k] = Append(chan[k], unsent[k]))
    BY <1>6 DEF Publish, Types, ChanType
  <2>6. Sent'  BY <1>0, <2>3, <2>4, <2>5, SentStays DEF Truth
  <2> QED  BY <1>3, <2>2, <2>6 DEF Truth
<1>7. CASE \E s \in Final : FinishJob(j, s)
  <2>1. PICK s \in Final : FinishJob(j, s)  BY <1>7
  <2>2. StillSo(j, s)  BY <2>1 DEF FinishJob, StillSo, Types, ServerType
  <2>3. \A k \in Jobs : unsent'[k] = unsent[k] \/ (k = j /\ unsent'[k].type = s)
    BY <2>1 DEF FinishJob, Types, ServerType
  <2>4. Unsent'  BY <1>0, <2>2, <2>3, UnsentStays DEF Truth
  <2>5. Sent'  BY <1>0, <2>1, SentStays DEF Truth, FinishJob
  <2> QED  BY <1>3, <2>4, <2>5 DEF Truth
<1> QED  BY <1>1, <1>4, <1>5, <1>6, <1>7

(* A stream that ends leaves nothing behind, and no other one begins.      *)
LEMMA EndTruth ==
  ASSUME Types, Truth, [Next]_vars, UNCHANGED <<server, job, snap>>,
         NEW j \in Jobs, conn[j] # "closed", Hangup(j) \/ Close(j)
  PROVE  OneStream' /\ Unsent' /\ Sent' /\ ReadTrue'
<1>1. \A k \in Jobs : conn'[k] # "closed" => k = j \/ conn[k] # "closed"
  BY DEF Hangup, Close, Types, ConnType
<1>2. \A k \in Jobs : conn'[k] = "read" => conn[k] = "read"
  BY DEF Hangup, Close, Types, ConnType
<1>3. Unsent'  BY UnsentStays DEF Truth
<1>4. \A k \in Jobs : chan'[k] = chan[k] \/ chan'[k] = <<>>
  BY DEF Hangup, Close, Types, ChanType
<1>5. Sent'  BY <1>4, SentStays DEF Truth
<1>6. ReadTrue'  BY <1>2, ReadStays DEF Truth
<1> QED  BY <1>3, <1>5, <1>6, <1>1 DEF Truth, OneStream

LEMMA StreamTruth ==
  ASSUME Types, Truth, NEW j \in Jobs, Stream(j) \/ Refuse(j) \/ Break(j)
  PROVE  Truth'
<1>0. [Next]_vars  BY DEF Next
<1>1. conn[j] # "closed"
  BY DEF Stream, Subscribe, ReadRow, Snapshot, Deliver, Refuse, Break, Online
<1>2. job = j  BY <1>1 DEF Truth, OneStream
<1>3. UNCHANGED <<row, unsaved, unsent, job, server>>
  BY DEF Stream, Subscribe, ReadRow, Snapshot, Deliver, Refuse, Break
<1>4. Unsent'  BY <1>0, <1>3, UnsentStays DEF Truth
<1>5. CASE Subscribe(j)
  <2>1. OneStream'  BY <1>2, <1>5 DEF Truth, OneStream, Subscribe, Types, ConnType
  <2>2. Sent'  BY <1>0, <1>5, SentStays DEF Truth, Subscribe
  <2>3. \A k \in Jobs : conn'[k] = "read" => conn[k] = "read"  BY <1>5 DEF Subscribe, Types, ConnType
  <2>4. ReadTrue'  BY <1>0, <1>5, <2>3, ReadStays DEF Truth, Subscribe
  <2>5. Shown'  BY <1>0, <1>5, ShownStays DEF Truth, Subscribe
  <2> QED  BY <1>4, <2>1, <2>2, <2>4, <2>5 DEF Truth
<1>6. CASE ReadRow(j)
  <2>1. OneStream'  BY <1>2, <1>6 DEF Truth, OneStream, ReadRow, Types, ConnType
  <2>2. Sent'  BY <1>0, <1>6, SentStays DEF Truth, ReadRow
  <2>3. \A k \in Jobs : conn'[k] = "read" => k = j
    BY <1>1, <1>2, <1>6 DEF Truth, OneStream, ReadRow, Types, ConnType
  <2>4. snap'.status = row[j] /\ row' = row  BY <1>6 DEF ReadRow
  <2>5. ReadTrue'  BY <2>3, <2>4 DEF ReadTrue, EndedSo
  <2>6. Shown'  BY <1>0, <1>6, ShownStays DEF Truth, ReadRow
  <2> QED  BY <1>4, <2>1, <2>2, <2>5, <2>6 DEF Truth
<1>7. CASE Snapshot(j)
  <2>1. status' = snap.status /\ conn[j] = "read" /\ snap' = snap /\ refused' = refused
    BY <1>7 DEF Snapshot
  <2>2. snap.status \in Final => EndedSo(j, snap.status)  BY <2>1 DEF Truth, ReadTrue
  <2>3. Shown'  BY <1>2, <1>3, <2>1, <2>2 DEF Shown, EndedSo
  <2>4. CASE Hangup(j)
    BY <1>0, <1>1, <1>3, <1>4, <2>1, <2>3, <2>4, EndTruth DEF Truth
  <2>5. CASE conn' = [conn EXCEPT ![j] = "live"] /\ UNCHANGED chan
    <3>1. OneStream'  BY <1>2, <1>3, <2>5 DEF Truth, OneStream, Types, ConnType
    <3>2. Sent'  BY <1>0, <2>5, SentStays DEF Truth
    <3>3. \A k \in Jobs : conn'[k] = "read" => conn[k] = "read"  BY <2>5 DEF Types, ConnType
    <3>4. ReadTrue'  BY <1>0, <2>1, <3>3, ReadStays DEF Truth
    <3> QED  BY <1>4, <2>3, <3>1, <3>2, <3>4 DEF Truth
  <2> QED  BY <1>7, <2>4, <2>5 DEF Snapshot
<1>8. CASE Refuse(j)
  <2>1. Shown'  BY <1>8 DEF Refuse, Shown
  <2> QED  BY <1>0, <1>1, <1>3, <1>8, <2>1, EndTruth DEF Refuse, Truth
<1>9. CASE Deliver(j)
  <2>1. chan[j] \in Seq(Events) /\ chan[j] # <<>> /\ snap' = snap /\ refused' = refused
    BY <1>9 DEF Deliver, Types, ChanType
  <2>2. 1 \in 1..Len(chan[j]) /\ Head(chan[j]) = chan[j][1]
    BY <2>1, HeadTailProperties, LenProperties, EmptySeq
  <2>3. Head(chan[j]).type \in Final => EndedSo(j, Head(chan[j]).type)  BY <2>2 DEF Truth, Sent
  <2>4. CASE Head(chan[j]).type \in Final
    <3>1. status' = Head(chan[j]).type /\ Close(j)  BY <1>9, <2>4 DEF Deliver
    <3>2. Shown'  BY <1>2, <1>3, <2>3, <2>4, <3>1 DEF Shown, EndedSo
    <3> QED  BY <1>0, <1>1, <1>3, <2>1, <3>1, <3>2, EndTruth DEF Truth
  <2>5. CASE Head(chan[j]).type \notin Final
    <3>1. chan' = [chan EXCEPT ![j] = Tail(@)] /\ UNCHANGED <<status, conn>>
      BY <1>9, <2>5 DEF Deliver
    <3>2. \A k \in Jobs : chan'[k] = chan[k] \/ (chan[k] # <<>> /\ chan'[k] = Tail(chan[k]))
      BY <2>1, <3>1 DEF Types, ChanType
    <3>3. Sent'  BY <1>0, <3>2, SentStays DEF Truth
    <3>4. OneStream'  BY <1>3, <3>1 DEF Truth, OneStream
    <3>5. ReadTrue'  BY <1>0, <2>1, <3>1, ReadStays DEF Truth
    <3>6. Shown'  BY <1>0, <1>3, <2>1, <3>1, ShownStays DEF Truth
    <3> QED  BY <1>4, <3>3, <3>4, <3>5, <3>6 DEF Truth
  <2> QED  BY <2>4, <2>5
<1>10. CASE Break(j)
  <2>1. Shown'  BY <1>0, <1>10, ShownStays DEF Truth, Break
  <2> QED  BY <1>0, <1>1, <1>3, <1>10, <2>1, EndTruth DEF Break, Truth
<1> QED  BY <1>5, <1>6, <1>7, <1>8, <1>9, <1>10 DEF Stream

LEMMA RestartTruth == ASSUME Types, Truth, Restart PROVE Truth'
<1>0. [Next]_vars  BY DEF Next
<1>1. UNCHANGED <<job, status, refused, snap>>  BY DEF Restart
<1>2. \A k \in Jobs : conn'[k] = conn[k] \/ (conn[k] # "closed" /\ conn'[k] = "down")
  BY DEF Restart, Online
<1>3. OneStream'  BY <1>1, <1>2 DEF Truth, OneStream
<1>4. Unsent'  BY <1>0, UnsentStays DEF Truth, Restart
<1>5. Sent'  BY <1>0, SentStays DEF Truth, Restart
<1>6. ReadTrue'  BY <1>0, <1>1, <1>2, ReadStays DEF Truth
<1>7. Shown'  BY <1>0, <1>1, ShownStays DEF Truth
<1> QED  BY <1>3, <1>4, <1>5, <1>6, <1>7 DEF Truth

LEMMA ShowTruth == ASSUME Types, Truth, NEW j \in Jobs \cup {None}, Show(j) PROVE Truth'
<1>0. [Next]_vars  BY DEF Next
<1>1. OneStream'  BY DEF Show, OneStream
<1>2. Unsent'  BY <1>0, UnsentStays DEF Truth, Show
<1>3. Sent'  BY <1>0, SentStays DEF Truth, Show
<1>4. ReadTrue'  BY DEF Show, ReadTrue
<1>5. Shown'  BY DEF Show, Shown, Final
<1> QED  BY <1>1, <1>2, <1>3, <1>4, <1>5 DEF Truth

LEMMA SameTruth == ASSUME Truth, UNCHANGED vars PROVE Truth'
BY DEF vars, Truth, OneStream, Unsent, Sent, ReadTrue, Shown, EndedSo

(* A finish that the page shows is the row's own, whatever was dropped,    *)
(* repeated, cut off or read too early on the way.                         *)
THEOREM FinishTold == Spec => []ShownFinishIsTrue
<1>1. Init => Truth
  BY DEF Init, Truth, OneStream, Unsent, Sent, ReadTrue, Shown, Final
<1>2. Types /\ Truth /\ [Next]_vars => Truth'
  BY RunnerTruth, StreamTruth, RestartTruth, ShowTruth, SameTruth DEF Next
<1>3. Truth => ShownFinishIsTrue  BY DEF Truth, Shown, EndedSo, ShownFinishIsTrue
<1> QED  BY <1>1, <1>2, <1>3, TypesInductive, PTL DEF Spec
-----------------------------------------------------------------------------
(* No line is missing. *)

Has(c, e) == \E i \in 1..Len(c) : c[i] = e
Line(n) == [type |-> "log", line |-> n]

LEMMA HasEmpty == ASSUME NEW e PROVE ~Has(<<>>, e)
BY EmptySeq DEF Has

LEMMA HasAppend ==
  ASSUME NEW c \in Seq(Events), NEW d \in Events, NEW e
  PROVE  Has(Append(c, d), e) <=> Has(c, e) \/ e = d
<1>1. /\ Len(Append(c, d)) = Len(c) + 1 /\ Len(c) \in Nat
      /\ Append(c, d)[Len(c) + 1] = d
      /\ \A i \in 1..Len(c) : Append(c, d)[i] = c[i]
  BY AppendProperties, LenProperties
<1>2. \A i \in 1..(Len(c) + 1) : i \in 1..Len(c) \/ i = Len(c) + 1  BY <1>1
<1>3. \A i \in 1..Len(c) : i \in 1..(Len(c) + 1)  BY <1>1
<1>4. Len(c) + 1 \in 1..(Len(c) + 1)  BY <1>1
<1> QED  BY <1>1, <1>2, <1>3, <1>4 DEF Has

LEMMA HasTail ==
  ASSUME NEW c \in Seq(Events), c # <<>>, NEW e
  PROVE  Has(c, e) <=> e = Head(c) \/ Has(Tail(c), e)
<1>1. /\ Len(Tail(c)) = Len(c) - 1 /\ Len(c) \in Nat /\ Len(c) # 0 /\ Head(c) = c[1]
      /\ \A i \in 1..Len(Tail(c)) : Tail(c)[i] = c[i + 1]
  BY HeadTailProperties, LenProperties, EmptySeq
<1>2. ASSUME Has(c, e) PROVE e = Head(c) \/ Has(Tail(c), e)
  <2>1. PICK i \in 1..Len(c) : c[i] = e  BY <1>2 DEF Has
  <2>2. CASE i = 1  BY <1>1, <2>1, <2>2
  <2>3. CASE i # 1
    <3>1. i - 1 \in 1..Len(Tail(c)) /\ (i - 1) + 1 = i  BY <1>1, <2>3
    <3>2. Tail(c)[i - 1] = e  BY <1>1, <2>1, <3>1
    <3> QED  BY <3>1, <3>2 DEF Has
  <2> QED  BY <2>2, <2>3
<1>3. ASSUME e = Head(c) PROVE Has(c, e)
  <2>1. 1 \in 1..Len(c)  BY <1>1
  <2> QED  BY <1>1, <1>3, <2>1 DEF Has
<1>4. ASSUME Has(Tail(c), e) PROVE Has(c, e)
  <2>1. PICK i \in 1..Len(Tail(c)) : Tail(c)[i] = e  BY <1>4 DEF Has
  <2>2. i + 1 \in 1..Len(c)  BY <1>1, <2>1
  <2> QED  BY <1>1, <2>1, <2>2 DEF Has
<1> QED  BY <1>2, <1>3, <1>4

LEMMA LineTypes ==
  \A n \in 1..MaxLines : /\ Line(n) \in Events /\ Line(n).line = n /\ Line(n).type \notin Final
BY DEF Line, Events, Final

(* What is told of a line is told of one that the log has; and a line of   *)
(* the log that the reader of the row, or the page, does not have is on    *)
(* its way, unless one was dropped.                                        *)
OnItsWay(j, n) == Has(chan[j], Line(n)) \/ unsent[j] = Line(n)
Written(j) ==
  /\ \A e \in Events : /\ Has(chan[j], e) \/ unsent[j] = e
                       /\ e.type \notin Final
                       => e.line \in 1..log[j]
  /\ conn[j] = "read" => snap.log \in 0..log[j]
  /\ conn[j] = "live" => lines \subseteq 1..log[j]
Found(j) ==
  dropped[j] = {} => \A n \in 1..log[j] :
    /\ conn[j] = "read" => n \in 1..snap.log \/ OnItsWay(j, n)
    /\ conn[j] = "live" => n \in lines \/ OnItsWay(j, n)
Known(j) == Written(j) /\ Found(j)
AllKnown == \A j \in Jobs : Known(j)

(* A stream that is left alone, or ends, or starts anew.                   *)
Untouched(j) ==
  /\ log'[j] = log[j] /\ unsent'[j] = unsent[j] /\ chan'[j] = chan[j] /\ conn'[j] = conn[j]
  /\ dropped'[j] = dropped[j]
  /\ conn[j] \in {"read", "live"} => UNCHANGED <<snap, lines>>
Over(j) ==
  /\ log'[j] = log[j] /\ unsent'[j] \in {unsent[j], None} /\ chan'[j] \in {chan[j], <<>>}
  /\ conn'[j] \notin {"read", "live"}

LEMMA UntouchedKnown == ASSUME NEW j \in Jobs, Known(j), Untouched(j) PROVE Known(j)'
BY DEF Known, Written, Found, OnItsWay, Untouched

LEMMA OverKnown == ASSUME NEW j \in Jobs, Known(j), Over(j) PROVE Known(j)'
<1>1. \A e \in Events : Has(chan'[j], e) => Has(chan[j], e)  BY HasEmpty DEF Over
<1>2. None \notin Events  OBVIOUS
<1>3. Written(j)'  BY <1>1, <1>2 DEF Known, Written, Over
<1>4. Found(j)'  BY DEF Found, Over
<1> QED  BY <1>3, <1>4 DEF Known

LEMMA OthersKnown ==
  ASSUME AllKnown, NEW j \in Jobs, Known(j)', \A k \in Jobs : k # j => Untouched(k)
  PROVE  AllKnown'
<1>1. \A k \in Jobs : k # j => Known(k)'  BY UntouchedKnown DEF AllKnown
<1> QED  BY <1>1 DEF AllKnown

LEMMA LogLineKnown == ASSUME Types, AllKnown, NEW j \in Jobs, logLine(j) PROVE AllKnown'
<1>1. \A k \in Jobs : k # j => Untouched(k)
  BY DEF logLine, Untouched, Types, ServerType
<1>2. /\ UNCHANGED <<chan, conn, dropped, snap, lines>> /\ unsent[j] = None
      /\ log[j] \in 0..MaxLines /\ log[j] < MaxLines /\ log'[j] = log[j] + 1
      /\ unsent'[j] = Line(log[j] + 1)
  BY DEF logLine, Works, Quiet, Line, Types, ServerType
<1>3. Written(j) /\ Found(j)  BY DEF AllKnown, Known
<1>4. log'[j] \in 1..MaxLines /\ \A n \in 1..log'[j] : n \in 1..log[j] \/ n = log'[j]
  BY <1>2
<1>5. unsent'[j].line = log'[j]  BY <1>2, <1>4, LineTypes
<1>6. Written(j)'
  <2>1. \A e \in Events : Has(chan[j], e) /\ e.type \notin Final => e.line \in 1..log'[j]
    BY <1>2, <1>3 DEF Written
  <2>2. \A e \in Events : unsent'[j] = e => e.line \in 1..log'[j]  BY <1>4, <1>5
  <2>3. conn[j] = "read" => snap.log \in 0..log'[j]  BY <1>2, <1>3 DEF Written
  <2>4. conn[j] = "live" => lines \subseteq 1..log'[j]
    <3>1. 1..log[j] \subseteq 1..log'[j]  BY <1>2
    <3> QED  BY <1>3, <3>1 DEF Written
  <2> QED  BY <1>2, <2>1, <2>2, <2>3, <2>4 DEF Written
<1>7. Found(j)'
  <2>1. None \notin Events  OBVIOUS
  <2>2. \A n \in 1..log[j] : unsent[j] # Line(n)
    <3>1. \A n \in 1..log[j] : n \in 1..MaxLines  BY <1>2
    <3> QED  BY <1>2, <2>1, <3>1, LineTypes
  <2>3. \A n \in 1..log[j] : OnItsWay(j, n) => OnItsWay(j, n)'
    BY <1>2, <2>2 DEF OnItsWay
  <2>4. \A n \in 1..log'[j] : n \notin 1..log[j] => OnItsWay(j, n)'
    <3>1. \A n \in 1..log'[j] : n \notin 1..log[j] => unsent'[j] = Line(n)  BY <1>2, <1>4
    <3> QED  BY <3>1 DEF OnItsWay
  <2> QED  BY <1>2, <1>3, <1>4, <2>3, <2>4 DEF Found
<1> QED  BY <1>1, <1>6, <1>7, OthersKnown DEF Known

LEMMA FinishKnown ==
  ASSUME Types, AllKnown, NEW j \in Jobs, NEW s \in Final, FinishJob(j, s) PROVE AllKnown'
<1>1. \A k \in Jobs : k # j => Untouched(k)
  BY DEF FinishJob, Untouched, Types, ServerType
<1>2. /\ UNCHANGED <<log, chan, conn, dropped, snap, lines>> /\ unsent[j] = None
      /\ unsent'[j].type = s /\ log[j] \in 0..MaxLines
  BY DEF FinishJob, Works, Quiet, Types, ServerType
<1>3. Written(j) /\ Found(j)  BY DEF AllKnown, Known
<1>4. Written(j)'  BY <1>2, <1>3 DEF Written
<1>5. Found(j)'
  <2>1. \A n \in 1..log[j] : unsent[j] # Line(n)
    <3>1. \A n \in 1..log[j] : n \in 1..MaxLines  BY <1>2
    <3>2. None \notin Events  OBVIOUS
    <3> QED  BY <1>2, <3>1, <3>2, LineTypes
  <2>2. \A n \in 1..log[j] : OnItsWay(j, n) => OnItsWay(j, n)'  BY <1>2, <2>1 DEF OnItsWay
  <2> QED  BY <1>2, <1>3, <2>2 DEF Found
<1> QED  BY <1>1, <1>4, <1>5, OthersKnown DEF Known

LEMMA PublishKnown == ASSUME Types, AllKnown, NEW j \in Jobs, Publish(j) PROVE AllKnown'
<1>1. \A k \in Jobs : k # j => Untouched(k)
  BY DEF Publish, Untouched, Types, ServerType, ChanType, StreamType
<1>2. /\ UNCHANGED <<log, conn, snap, lines>> /\ unsent[j] \in Events /\ unsent'[j] = None
      /\ chan[j] \in Seq(Events)
  BY DEF Publish, Quiet, Types, ServerType, ChanType
<1>3. Known(j)  BY DEF AllKnown
<1>4. CASE conn[j] \notin {"read", "live"}
  <2>1. CASE Online(j) /\ Len(chan[j]) < Buffer
    <3>1. chan'[j] = Append(chan[j], unsent[j])  BY <2>1 DEF Publish, Types, ChanType
    <3>2. \A e : Has(chan'[j], e) <=> Has(chan[j], e) \/ e = unsent[j]  BY <1>2, <3>1, HasAppend
    <3>3. None \notin Events  OBVIOUS
    <3>4. Written(j)'  BY <1>2, <1>3, <1>4, <3>2, <3>3 DEF Known, Written
    <3> QED  BY <1>1, <1>2, <1>4, <3>4, OthersKnown DEF Known, Found
  <2>2. CASE ~(Online(j) /\ Len(chan[j]) < Buffer)
    <3>1. chan'[j] = chan[j]  BY <2>2 DEF Publish
    <3>2. Over(j)  BY <1>2, <1>4, <3>1 DEF Over
    <3> QED  BY <1>1, <1>3, <3>2, OverKnown, OthersKnown
  <2> QED  BY <2>1, <2>2
<1>5. CASE conn[j] \in {"read", "live"}
  <2>1. Online(j)  BY <1>5 DEF Online
  <2>2. CASE Len(chan[j]) < Buffer
    <3>1. chan'[j] = Append(chan[j], unsent[j]) /\ dropped'[j] = dropped[j]
      BY <2>1, <2>2 DEF Publish, Types, ChanType, StreamType
    <3>2. \A e : Has(chan'[j], e) <=> Has(chan[j], e) \/ e = unsent[j]  BY <1>2, <3>1, HasAppend
    <3>3. None \notin Events  OBVIOUS
    <3>4. Written(j)'  BY <1>2, <1>3, <3>2, <3>3 DEF Known, Written
    <3>5. \A n : OnItsWay(j, n) => OnItsWay(j, n)'  BY <3>2 DEF OnItsWay
    <3>6. Found(j)'  BY <1>2, <1>3, <3>1, <3>5 DEF Known, Found
    <3> QED  BY <1>1, <3>4, <3>6, OthersKnown DEF Known
  <2>3. CASE ~(Len(chan[j]) < Buffer)
    <3>1. chan'[j] = chan[j] /\ dropped'[j] # {}
      BY <2>1, <2>3 DEF Publish, Types, ChanType, StreamType
    <3>2. None \notin Events  OBVIOUS
    <3>3. Written(j)'  BY <1>2, <1>3, <3>1, <3>2 DEF Known, Written
    <3> QED  BY <1>1, <3>1, <3>3, OthersKnown DEF Known, Found
  <2> QED  BY <2>2, <2>3
<1> QED  BY <1>4, <1>5

LEMMA StreamKnown ==
  ASSUME Types, OneStream, AllKnown, NEW j \in Jobs, Stream(j) \/ Refuse(j) \/ Break(j)
  PROVE  AllKnown'
<1>1. conn[j] # "closed"
  BY DEF Stream, Subscribe, ReadRow, Snapshot, Deliver, Refuse, Break, Online
<1>2. \A k \in Jobs : k # j => conn[k] = "closed"  BY <1>1 DEF OneStream
<1>3. UNCHANGED <<log, unsent>>
  BY DEF Stream, Subscribe, ReadRow, Snapshot, Deliver, Refuse, Break
<1>4. \A k \in Jobs : k # j => chan'[k] = chan[k] /\ conn'[k] = conn[k] /\ dropped'[k] = dropped[k]
  BY DEF Stream, Subscribe, ReadRow, Snapshot, Deliver, Refuse, Break, Hangup, Close,
         Types, ChanType, ConnType, StreamType
<1>5. \A k \in Jobs : k # j => Untouched(k)  BY <1>2, <1>3, <1>4 DEF Untouched
<1>6. Known(j)  BY DEF AllKnown
<1>7. CASE conn'[j] \in {"down", "closed", "subscribed"} /\ chan'[j] \in {chan[j], <<>>}
  <2>1. Over(j)  BY <1>3, <1>7 DEF Over
  <2> QED  BY <1>5, <1>6, <2>1, OverKnown, OthersKnown
<1>8. CASE Subscribe(j)
  BY <1>7, <1>8 DEF Subscribe, Types, ConnType
<1>9. CASE Refuse(j) \/ Break(j)
  BY <1>7, <1>9 DEF Refuse, Break, Hangup, Close, Types, ConnType, ChanType
<1>10. CASE ReadRow(j)
  <2>1. conn'[j] = "read" /\ snap'.log = log[j] /\ UNCHANGED <<chan, dropped>> /\ log[j] \in Nat
    BY <1>10 DEF ReadRow, Types, ConnType, ServerType
  <2>2. Written(j)'  BY <1>3, <1>6, <2>1 DEF Known, Written
  <2>3. Found(j)'  BY <1>3, <2>1 DEF Found
  <2> QED  BY <1>5, <2>2, <2>3, OthersKnown DEF Known
<1>11. CASE Snapshot(j)
  <2>1. conn[j] = "read" /\ lines' = 1..snap.log /\ UNCHANGED <<snap, dropped>>
    BY <1>11 DEF Snapshot
  <2>2. CASE Hangup(j)  BY <1>7, <2>2 DEF Hangup, Types, ConnType, ChanType
  <2>3. CASE conn' = [conn EXCEPT ![j] = "live"] /\ UNCHANGED chan
    <3>1. conn'[j] = "live" /\ chan' = chan  BY <2>3 DEF Types, ConnType
    <3>2. snap.log \in 0..log[j] /\ log[j] \in Nat
      BY <1>6, <2>1 DEF Known, Written, Types, ServerType
    <3>3. 1..snap.log \subseteq 1..log[j]  BY <3>2
    <3>4. Written(j)'  BY <1>3, <1>6, <2>1, <3>1, <3>3 DEF Known, Written
    <3>5. Found(j)'  BY <1>3, <1>6, <2>1, <3>1 DEF Known, Found, OnItsWay
    <3> QED  BY <1>5, <3>4, <3>5, OthersKnown DEF Known
  <2> QED  BY <1>11, <2>2, <2>3 DEF Snapshot
<1>12. CASE Deliver(j)
  <2>1. chan[j] \in Seq(Events) /\ chan[j] # <<>> /\ conn[j] = "live" /\ UNCHANGED <<snap, dropped>>
    BY <1>12 DEF Deliver, Types, ChanType
  <2>2. CASE Head(chan[j]).type \in Final
    BY <1>7, <1>12, <2>2 DEF Deliver, Close, Types, ConnType, ChanType
  <2>3. CASE Head(chan[j]).type \notin Final
    <3>1. /\ lines' = lines \cup {Head(chan[j]).line} /\ chan'[j] = Tail(chan[j]) /\ conn' = conn
      BY <1>12, <2>3 DEF Deliver, Types, ChanType
    <3>2. \A e : Has(chan[j], e) <=> e = Head(chan[j]) \/ Has(chan'[j], e)
      BY <2>1, <3>1, HasTail
    <3>3. Head(chan[j]) \in Events  BY <2>1, ChannelTypes
    <3>4. Head(chan[j]).line \in 1..log[j]
      BY <1>6, <2>3, <3>2, <3>3 DEF Known, Written
    <3>5. Written(j)'  BY <1>3, <1>6, <2>1, <3>1, <3>2, <3>4 DEF Known, Written
    <3>6. \A n : Line(n).line = n  BY DEF Line
    <3>7. \A n : OnItsWay(j, n) => OnItsWay(j, n)' \/ n \in lines'
      BY <1>3, <3>1, <3>2, <3>6 DEF OnItsWay
    <3>8. Found(j)'  BY <1>3, <1>6, <2>1, <3>1, <3>7 DEF Known, Found
    <3> QED  BY <1>5, <3>5, <3>8, OthersKnown DEF Known
  <2> QED  BY <2>2, <2>3
<1> QED  BY <1>8, <1>9, <1>10, <1>11, <1>12 DEF Stream

LEMMA AllOver == ASSUME AllKnown, \A j \in Jobs : Over(j) PROVE AllKnown'
<1>1. \A j \in Jobs : Known(j)'  BY OverKnown DEF AllKnown
<1> QED  BY <1>1 DEF AllKnown

LEMMA NextKnown == ASSUME Types, OneStream, AllKnown, [Next]_vars PROVE AllKnown'
<1>1. CASE Runner
  <2>1. PICK j \in Jobs : Enqueue(j) \/ Start(j) \/ logLine(j) \/ Publish(j) \/ \E s \in Final : FinishJob(j, s)
    BY <1>1 DEF Runner
  <2>2. CASE Enqueue(j) \/ Start(j)
    <3>1. \A k \in Jobs : Untouched(k)  BY <2>2 DEF Enqueue, Start, Untouched
    <3>2. \A k \in Jobs : Known(k)'  BY <3>1, UntouchedKnown DEF AllKnown
    <3> QED  BY <3>2 DEF AllKnown
  <2> QED  BY <2>1, <2>2, LogLineKnown, PublishKnown, FinishKnown
<1>2. CASE Restart
  <2>1. \A k \in Jobs : Over(k)
    BY <1>2 DEF Restart, Over, Online, Types, ConnType
  <2> QED  BY <2>1, AllOver
<1>3. CASE \E j \in Jobs : Stream(j) \/ Refuse(j) \/ Break(j)  BY <1>3, StreamKnown
<1>4. CASE \E j \in Jobs \cup {None} : Show(j)
  <2>1. \A k \in Jobs : Over(k)  BY <1>4 DEF Show, Over
  <2> QED  BY <2>1, AllOver
<1>5. CASE UNCHANGED vars
  <2>1. \A k \in Jobs : Untouched(k)  BY <1>5 DEF vars, Untouched
  <2>2. \A k \in Jobs : Known(k)'  BY <2>1, UntouchedKnown DEF AllKnown
  <2> QED  BY <2>2 DEF AllKnown
<1> QED  BY <1>1, <1>2, <1>3, <1>4, <1>5 DEF Next

(* When the stream is up and everything written was published and passed   *)
(* on, the page has the lines of the log and no others, unless the channel *)
(* dropped one, for any log, channel, restarts and broken connections.     *)
THEOREM LogIsWhole == Spec => []LinesComplete
<1>1. Init => Truth
  BY DEF Init, Truth, OneStream, Unsent, Sent, ReadTrue, Shown, Final
<1>2. Types /\ Truth /\ [Next]_vars => Truth'
  BY RunnerTruth, StreamTruth, RestartTruth, ShowTruth, SameTruth DEF Next
<1>3. Init => AllKnown
  <2> SUFFICES ASSUME Init, NEW j \in Jobs PROVE Known(j)  BY DEF AllKnown
  <2>1. \A e \in Events : ~Has(chan[j], e) /\ unsent[j] # e
    <3>1. None \notin Events  OBVIOUS
    <3> QED  BY <3>1, HasEmpty DEF Init
  <2> QED  BY <2>1 DEF Init, Known, Written, Found
<1>4. Types /\ Truth /\ AllKnown /\ [Next]_vars => AllKnown'  BY NextKnown DEF Truth
<1>5. Types /\ AllKnown => LinesComplete
  <2> SUFFICES ASSUME Types, AllKnown, NEW j \in Jobs,
                      conn[j] = "live", chan[j] = <<>>, Quiet(j), dropped[j] = {}
               PROVE  lines = 1..log[j]
    BY DEF LinesComplete
  <2>1. Known(j)  BY DEF AllKnown
  <2>2. log[j] \in 0..MaxLines /\ unsent[j] = None  BY DEF Types, ServerType, Quiet
  <2>3. \A n \in 1..log[j] : ~OnItsWay(j, n)
    <3>1. \A n \in 1..log[j] : n \in 1..MaxLines  BY <2>2
    <3>2. None \notin Events  OBVIOUS
    <3> QED  BY <2>2, <3>1, <3>2, LineTypes, HasEmpty DEF OnItsWay
  <2> QED  BY <2>1, <2>3 DEF Known, Written, Found
<1> QED  BY <1>1, <1>2, <1>3, <1>4, <1>5, TypesInductive, PTL DEF Spec
-----------------------------------------------------------------------------
(* An end that is not shown yet is on its way: the safety half of          *)
(* FinishIsSeen.                                                           *)

EndComes(j) == \E e \in Events : e.type \in Final /\ (Has(chan[j], e) \/ unsent[j] = e)

(* When the row of the job on the page has ended and the page does not say *)
(* so, its stream is one that will still read the row, or has read the end *)
(* and not sent it, or has the event of the end in its channel or is going *)
(* to get it, unless the channel dropped that event.                       *)
EndIsComing ==
  job # None /\ row[job] \in Final /\ status \notin Final /\ dropped[job] \cap Final = {} =>
    \/ conn[job] \in {"down", "subscribed"}
    \/ conn[job] = "read" /\ (snap.status \in Final \/ EndComes(job))
    \/ conn[job] = "live" /\ EndComes(job)

Coming(j) ==
  row[j] \in Final /\ dropped[j] \cap Final = {} =>
    /\ conn[j] = "read" => snap.status \in Final \/ EndComes(j)
    /\ conn[j] = "live" => EndComes(j)
AllComing == \A j \in Jobs : Coming(j)
Listening == job # None /\ status \notin Final => conn[job] # "closed"

(* A job whose end and stream are left alone, and one whose stream is over.*)
LEMMA UntouchedComing ==
  ASSUME NEW j \in Jobs, Coming(j), Untouched(j), row'[j] \in Final => row[j] \in Final
  PROVE  Coming(j)'
BY DEF Coming, EndComes, Untouched

LEMMA OverComing == ASSUME NEW j \in Jobs, conn'[j] \notin {"read", "live"} PROVE Coming(j)'
BY DEF Coming

LEMMA OthersComing ==
  ASSUME AllComing, NEW j \in Jobs, Coming(j)',
         \A k \in Jobs : k # j => Untouched(k) /\ (row'[k] \in Final => row[k] \in Final)
  PROVE  AllComing'
<1>1. \A k \in Jobs : k # j => Coming(k)'  BY UntouchedComing DEF AllComing
<1> QED  BY <1>1 DEF AllComing

LEMMA RunnerComing == ASSUME Types, AllComing, Runner PROVE AllComing'
<1>1. PICK j \in Jobs : Enqueue(j) \/ Start(j) \/ logLine(j) \/ Publish(j) \/ \E s \in Final : FinishJob(j, s)
  BY DEF Runner
<1>2. \A k \in Jobs : k # j => Untouched(k) /\ row'[k] = row[k]
  BY <1>1 DEF Enqueue, Start, logLine, Publish, FinishJob, Untouched,
              Types, ServerType, ChanType, StreamType
<1>3. Coming(j)  BY DEF AllComing
<1>4. CASE Enqueue(j) \/ Start(j) \/ logLine(j)
  <2>1. row'[j] \notin Final
    BY <1>4 DEF Enqueue, Start, logLine, Works, Types, ServerType, Final
  <2> QED  BY <1>2, <2>1, OthersComing DEF Coming
<1>5. CASE Publish(j)
  <2>1. /\ UNCHANGED <<row, conn, snap>> /\ unsent[j] \in Events /\ chan[j] \in Seq(Events)
        /\ unsent[j].type \in Final \cup {"log"}
    BY <1>5, EventTypes DEF Publish, Quiet, Types, ServerType, ChanType
  <2>2. CASE conn[j] \notin {"read", "live"}  BY <1>2, <2>1, <2>2, OthersComing, OverComing
  <2>3. CASE conn[j] \in {"read", "live"} /\ Len(chan[j]) < Buffer
    <3>1. chan'[j] = Append(chan[j], unsent[j]) /\ dropped'[j] = dropped[j]
      BY <1>5, <2>3 DEF Publish, Online, Types, ChanType, StreamType
    <3>2. \A e : Has(chan'[j], e) <=> Has(chan[j], e) \/ e = unsent[j]  BY <2>1, <3>1, HasAppend
    <3>3. EndComes(j) => EndComes(j)'  BY <3>2 DEF EndComes
    <3>4. Coming(j)'  BY <1>3, <2>1, <3>1, <3>3 DEF Coming
    <3> QED  BY <1>2, <3>4, OthersComing
  <2>4. CASE conn[j] \in {"read", "live"} /\ ~(Len(chan[j]) < Buffer)
    <3>1. chan'[j] = chan[j] /\ dropped'[j] = dropped[j] \cup {unsent[j].type} /\ unsent'[j] = None
      BY <1>5, <2>4 DEF Publish, Online, Types, ServerType, ChanType, StreamType
    <3>2. CASE unsent[j].type \in Final
      BY <1>2, <3>1, <3>2, OthersComing DEF Coming
    <3>3. CASE unsent[j].type \notin Final
      <4>1. EndComes(j) => EndComes(j)'  BY <3>1, <3>3 DEF EndComes
      <4>2. dropped'[j] \cap Final = {} => dropped[j] \cap Final = {}  BY <3>1
      <4>3. Coming(j)'  BY <1>3, <2>1, <4>1, <4>2 DEF Coming
      <4> QED  BY <1>2, <4>3, OthersComing
    <3> QED  BY <3>2, <3>3
  <2> QED  BY <2>2, <2>3, <2>4
<1>6. CASE \E s \in Final : FinishJob(j, s)
  <2>1. PICK s \in Final : FinishJob(j, s)  BY <1>6
  <2>2. unsent'[j] = [type |-> s]  BY <2>1 DEF FinishJob, Types, ServerType
  <2>3. EndComes(j)'  BY <2>2, EventTypes DEF EndComes
  <2>4. Coming(j)'  BY <2>3 DEF Coming
  <2> QED  BY <1>2, <2>4, OthersComing
<1> QED  BY <1>1, <1>4, <1>5, <1>6

LEMMA StreamComing ==
  ASSUME Types, OneStream, AllComing, NEW j \in Jobs, Stream(j) \/ Refuse(j) \/ Break(j)
  PROVE  AllComing'
<1>1. conn[j] # "closed"
  BY DEF Stream, Subscribe, ReadRow, Snapshot, Deliver, Refuse, Break, Online
<1>2. \A k \in Jobs : k # j => conn[k] = "closed"  BY <1>1 DEF OneStream
<1>3. UNCHANGED <<row, log, unsent>>
  BY DEF Stream, Subscribe, ReadRow, Snapshot, Deliver, Refuse, Break
<1>4. \A k \in Jobs : k # j => chan'[k] = chan[k] /\ conn'[k] = conn[k] /\ dropped'[k] = dropped[k]
  BY DEF Stream, Subscribe, ReadRow, Snapshot, Deliver, Refuse, Break, Hangup, Close,
         Types, ChanType, ConnType, StreamType
<1>5. \A k \in Jobs : k # j => Untouched(k) /\ row'[k] = row[k]
  BY <1>2, <1>3, <1>4 DEF Untouched
<1>6. Coming(j)  BY DEF AllComing
<1>7. CASE conn'[j] \in {"down", "closed", "subscribed"}
  BY <1>5, <1>7, OverComing, OthersComing
<1>8. CASE Subscribe(j) \/ Refuse(j) \/ Break(j)
  BY <1>7, <1>8 DEF Subscribe, Refuse, Break, Hangup, Close, Types, ConnType
<1>9. CASE ReadRow(j)
  <2>1. conn'[j] = "read" /\ snap'.status = row[j]  BY <1>9 DEF ReadRow, Types, ConnType
  <2>2. Coming(j)'  BY <1>3, <2>1 DEF Coming
  <2> QED  BY <1>5, <2>2, OthersComing
<1>10. CASE Snapshot(j)
  <2>1. CASE Hangup(j)  BY <1>7, <2>1 DEF Hangup, Types, ConnType
  <2>2. CASE ~Hangup(j)
    <3>1. /\ snap.status \notin Final /\ conn[j] = "read" /\ conn'[j] = "live"
          /\ UNCHANGED <<chan, dropped>>
      BY <1>10, <2>2 DEF Snapshot, Types, ConnType
    <3>2. Coming(j)'  BY <1>3, <1>6, <3>1 DEF Coming, EndComes
    <3> QED  BY <1>5, <3>2, OthersComing
  <2> QED  BY <2>1, <2>2
<1>11. CASE Deliver(j)
  <2>1. chan[j] \in Seq(Events) /\ chan[j] # <<>> /\ conn[j] = "live" /\ UNCHANGED dropped
    BY <1>11 DEF Deliver, Types, ChanType
  <2>2. CASE Head(chan[j]).type \in Final
    BY <1>7, <1>11, <2>2 DEF Deliver, Close, Types, ConnType
  <2>3. CASE Head(chan[j]).type \notin Final
    <3>1. chan'[j] = Tail(chan[j]) /\ conn' = conn  BY <1>11, <2>3 DEF Deliver, Types, ChanType
    <3>2. \A e : Has(chan[j], e) <=> e = Head(chan[j]) \/ Has(chan'[j], e)
      BY <2>1, <3>1, HasTail
    <3>3. EndComes(j) => EndComes(j)'  BY <1>3, <2>3, <3>2 DEF EndComes
    <3>4. Coming(j)'  BY <1>3, <1>6, <2>1, <3>1, <3>3 DEF Coming
    <3> QED  BY <1>5, <3>4, OthersComing
  <2> QED  BY <2>2, <2>3
<1> QED  BY <1>8, <1>9, <1>10, <1>11 DEF Stream

LEMMA NextComing == ASSUME Types, OneStream, AllComing, [Next]_vars PROVE AllComing'
<1>1. CASE Restart
  <2>1. \A k \in Jobs : conn'[k] \notin {"read", "live"}
    BY <1>1 DEF Restart, Online, Types, ConnType
  <2> QED  BY <2>1, OverComing DEF AllComing
<1>2. CASE \E j \in Jobs \cup {None} : Show(j)
  <2>1. \A k \in Jobs : conn'[k] \notin {"read", "live"}  BY <1>2 DEF Show
  <2> QED  BY <2>1, OverComing DEF AllComing
<1>3. CASE UNCHANGED vars
  <2>1. \A k \in Jobs : Untouched(k) /\ row'[k] = row[k]  BY <1>3 DEF vars, Untouched
  <2>2. \A k \in Jobs : Coming(k)'  BY <2>1, UntouchedComing DEF AllComing
  <2> QED  BY <2>2 DEF AllComing
<1> QED  BY <1>1, <1>2, <1>3, RunnerComing, StreamComing DEF Next

(* The stream of the job on the page is closed only with its end shown.    *)
LEMMA NextListening == ASSUME Types, OneStream, Listening, [Next]_vars PROVE Listening'
<1> USE DEF Listening
<1>1. CASE Runner
  <2>1. UNCHANGED <<job, status, conn>>
    BY <1>1 DEF Runner, Enqueue, Start, logLine, Publish, FinishJob
  <2> QED  BY <2>1
<1>2. CASE Restart  BY <1>2 DEF Restart, Online, Types, ConnType, PageType
<1>3. ASSUME NEW j \in Jobs, Stream(j) \/ Refuse(j) \/ Break(j) PROVE Listening'
  <2>1. conn[j] # "closed"
    BY <1>3 DEF Stream, Subscribe, ReadRow, Snapshot, Deliver, Refuse, Break, Online
  <2>2. job = j  BY <2>1 DEF OneStream
  <2>3. job' = job  BY <1>3 DEF Stream, Subscribe, ReadRow, Snapshot, Deliver, Refuse, Break
  <2>4. conn'[j] # "closed" \/ status' \in Final
    BY <1>3, <2>1 DEF Stream, Subscribe, ReadRow, Snapshot, Deliver, Refuse, Break,
                      Hangup, Close, Final, Types, ConnType
  <2> QED  BY <2>2, <2>3, <2>4
<1>4. CASE \E j \in Jobs \cup {None} : Show(j)  BY <1>4 DEF Show
<1>5. CASE UNCHANGED vars  BY <1>5 DEF vars
<1> QED  BY <1>1, <1>2, <1>3, <1>4, <1>5 DEF Next

(* That a job has ended cannot be missed by the page, whenever it ends     *)
(* between the steps of subscribing, reading the row, sending it and       *)
(* passing on events, through restarts and broken connections: only a full *)
(* channel can lose it.                                                    *)
THEOREM EndIsOnItsWay == Spec => []EndIsComing
<1>1. Init => Truth /\ AllComing /\ Listening
  BY DEF Init, Truth, OneStream, Unsent, Sent, ReadTrue, Shown, Final,
         AllComing, Coming, Listening
<1>2. Types /\ Truth /\ [Next]_vars => Truth'
  BY RunnerTruth, StreamTruth, RestartTruth, ShowTruth, SameTruth DEF Next
<1>3. Types /\ Truth /\ AllComing /\ [Next]_vars => AllComing'  BY NextComing DEF Truth
<1>4. Types /\ Truth /\ Listening /\ [Next]_vars => Listening'  BY NextListening DEF Truth
<1>5. Types /\ AllComing /\ Listening => EndIsComing
  BY DEF Types, ConnType, PageType, AllComing, Coming, Listening, EndIsComing
<1> QED  BY <1>1, <1>2, <1>3, <1>4, <1>5, TypesInductive, PTL DEF Spec
=============================================================================
