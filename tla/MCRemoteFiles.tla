--------------------------- MODULE MCRemoteFiles ---------------------------
(***************************************************************************)
(* Two remote files, one of them empty, and a third with more bytes than   *)
(* packets hold at once.                                                   *)
(***************************************************************************)
EXTENDS RemoteFiles

MCSources == {"empty", "notes", "photo"}

MCSize == [s \in MCSources |-> CASE s = "empty" -> 0
                                 [] s = "notes" -> 2
                                 [] s = "photo" -> 3]

\* Each its own name: the files are in different directories of the host, or
\* of different hosts.
MCDistinct == [s \in MCSources |-> s]
=============================================================================
