---------------------------- MODULE MCFileManager ----------------------------
(* Two directories, a file name that both have, two texts.                 *)
EXTENDS FileManager
=============================================================================
