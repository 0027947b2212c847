----------------------------- MODULE LocalFiles -----------------------------
(***************************************************************************)
(* What the terminal promises of the copies it makes of remote files,      *)
(* whoever asks for them: RemoteFiles serves any requests, FileTransfer    *)
(* those that ropen makes.                                                 *)
(***************************************************************************)
EXTENDS Integers, Sequences

CONSTANTS Sources,  \* the remote files: a host and a canonical path
          Size      \* the size of each; its bytes are 1, 2, ..., Size[s]

VARIABLES
  files,   \* files_: stream id -> File
  disk,    \* the local files: local path -> bytes
  shown,   \* history: what viewers were started with, <<source, bytes>>
  refused  \* history: the sources no local file could be opened for, once

Whole(s) == [i \in 1..Size[s] |-> i]

\* Whatever is lost, repeated or reordered on the way, and however often a
\* transfer is started over, received_ counts the bytes the local file has,
\* and these are the first bytes of the remote file. Once a local file could not
\* be opened this is false: the record stays, and counts what nothing stores.
DeliveredPrefix ==
  \A id \in DOMAIN files :
    LET f == files[id] IN
    f.source \notin refused => /\ f.path \in DOMAIN disk
                               /\ disk[f.path] = [i \in 1..f.received |-> i]

\* A viewer is only ever started on all of the file its request named, unless a
\* local file for it could once not be opened. The README of ropen promises
\* this: "sends local file to the attached terminal, after which the file will be
\* opened".
ShownWhole == \A v \in shown : v[1] \notin refused => v[2] = Whole(v[1])
=============================================================================
