--------------------------- MODULE MCFileTransfer ---------------------------
(***************************************************************************)
(* Files of a few bytes, sent one or two bytes at a time.                  *)
(***************************************************************************)
EXTENDS FileTransfer

MCSize == [c \in Sources |-> CASE c = "long" -> 5 [] c = "short" -> 3 [] c = "empty" -> 0]
MCName == [c \in Sources |-> c]
=============================================================================
