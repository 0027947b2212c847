---------------------------- MODULE RemoteFiles ----------------------------
(***************************************************************************)
(* RemoteFiles of tpp-lib/remote_files.{h,cpp} and the part of             *)
(* TerminalWindow::terminalTppSequence that drives it: the terminal's side *)
(* of `ropen`. Requests come from outside in any order, number and         *)
(* duplication; all that is assumed of a data packet is that its payload   *)
(* is what the remote file holds at the packet's offset (FileTransfer      *)
(* shows that ropen's packets are such). A file's bytes are 1, 2, ...,     *)
(* Size[s], so that a local file shows where each of its bytes came from.  *)
(***************************************************************************)
EXTENDS LocalFiles, FiniteSets, FiniteSetsExt

CONSTANTS Name,     \* its local name: the host's directory and the file name
          MaxOpens  \* bound: how often files are opened for transfer

ASSUME SourcesAssumption == Size \in [Sources -> Nat] /\ MaxOpens \in Nat

\* Files with the same host and file name, from different directories, share
\* a local name; what is proved is proved of files that do not.
DistinctNames == \A s, t \in Sources : Name[s] = Name[t] => s = t

VARIABLES
  locked,  \* local paths that a viewer keeps from being opened for writing
  opens    \* bound: the number of OpenFileTransfer requests served

vars == <<files, disk, locked, shown, refused, opens>>

\* A local path: the n-th name UniqueNameIn makes for a local name.
LocalPath(s, n) == <<Name[s], n>>

Paths == {LocalPath(s, n) : s \in Sources, n \in 0..MaxOpens}

\* File: size_ is Size[source], id_ its key in files, f_ the flag isOpen.
FileRecords == [source : Sources, received : Nat, path : Paths, isOpen : BOOLEAN]

Ready(f) == f.received = Size[f.source]

Init == /\ files = << >>
        /\ disk = << >>
        /\ locked = {}
        /\ shown = {}
        /\ refused = {}
        /\ opens = 0

-----------------------------------------------------------------------------
(* openFileTransfer() *)

\* The loop over the ordered map: the smallest id that is not taken.
IsNewId(id) == /\ id \notin DOMAIN files
               /\ \A k \in 1..(id - 1) : k \in DOMAIN files

\* UniqueNameIn: one of the names made for s, which no local file has.
IsUniqueName(s, n) == /\ n > 0
                      /\ LocalPath(s, n) \notin DOMAIN disk
                      /\ \A k \in 1..(n - 1) : LocalPath(s, k) \in DOMAIN disk

StreamsOf(s) == {k \in DOMAIN files : files[k].source = s}

\* getOrCreateFile: id is the stream that a request to open s gets.
FileOf(s, id) ==
  IF LocalPath(s, 0) \in DOMAIN disk /\ StreamsOf(s) # {}
  THEN id \in StreamsOf(s) /\ \A k \in StreamsOf(s) : id <= k
  ELSE IsNewId(id)

\* The path the record has, or the one a new record is given.
PathOf(s, id) == IF id \in DOMAIN files THEN files[id].path ELSE LocalPath(s, 0)

\* The local file that is opened: if a viewer locks it, a new one.
OpensAt(s, id, path) ==
  IF PathOf(s, id) \in locked
    THEN \E n \in 1..MaxOpens : path = LocalPath(s, n) /\ IsUniqueName(s, n)
    ELSE path = PathOf(s, id)

\* Mutant: received_ of an existing record is kept.
Opened_Resumed(s, id, path) ==
  [source |-> s,
   received |-> IF id \in DOMAIN files THEN files[id].received ELSE 0,
   path |-> path, isOpen |-> TRUE]

Opened(s, id, path) ==
  [source |-> s, received |-> 0, path |-> path, isOpen |-> TRUE]

\* The record is made or reset, its local file opened and so truncated.
OpenFileTransfer(s, id) ==
  /\ opens < MaxOpens
  /\ FileOf(s, id)
  /\ \E path \in Paths :
       /\ OpensAt(s, id, path)
       /\ files' = [k \in DOMAIN files \cup {id} |->
                      IF k = id THEN Opened(s, id, path) ELSE files[k]]
       /\ disk' = [p \in DOMAIN disk \cup {path} |->
                     IF p = path THEN << >> ELSE disk[p]]
  /\ opens' = opens + 1
  /\ UNCHANGED <<locked, shown, refused>>

\* IOError: neither the record's path nor a new one can be opened. By then the
\* record is made or reset and has the new path. No answer is sent.
OpenRefused(s, id) ==
  /\ opens < MaxOpens
  /\ FileOf(s, id)
  /\ \E n \in 1..MaxOpens :
       /\ IsUniqueName(s, n)
       /\ files' = [k \in DOMAIN files \cup {id} |->
                      IF k # id THEN files[k]
                      ELSE [source |-> s, received |-> 0,
                            path |-> LocalPath(s, n), isOpen |-> FALSE]]
  /\ refused' = refused \cup {s}
  /\ opens' = opens + 1
  /\ UNCHANGED <<disk, locked, shown>>

-----------------------------------------------------------------------------
(* transfer(): a Data packet carries len bytes of the file from byte from+1, *)
(* and says that they belong at offset packet.                               *)

Payload(data) == [i \in 1..data.len |-> data.from + i]

\* The bytes after a stream that stands at pos has written some more: the file
\* may have been emptied meanwhile by another stream of the same path.
Written(bytes, pos, more) ==
  [i \in 1..Max({Len(bytes), pos + Len(more)}) |->
     IF i \in (pos + 1)..(pos + Len(more)) THEN more[i - pos]
     ELSE IF i <= Len(bytes) THEN bytes[i] ELSE 0]

\* A packet from any other offset than the next one is dropped without a word.
Transfer(data) ==
  LET f == files[data.id]
      total == f.received + data.len IN
  IF f.received # data.packet THEN UNCHANGED vars
  ELSE /\ files' = [files EXCEPT ![data.id].received = total,
                                 ![data.id].isOpen = @ /\ total # Size[f.source]]
       /\ disk' = IF f.isOpen
                    THEN [disk EXCEPT ![f.path] = Written(@, f.received, Payload(data))]
                    ELSE disk
       /\ UNCHANGED <<locked, shown, refused, opens>>

-----------------------------------------------------------------------------
(* ViewRemoteFile, as terminalTppSequence serves it *)

\* openLocalFile(): a viewer is started on the local file, if there is one,
\* and may lock it.
StartViewer(f) ==
  /\ shown' = shown \cup {<<f.source, disk[p]>> : p \in {f.path} \cap DOMAIN disk}
  /\ locked' \in {locked, locked \cup ({f.path} \cap DOMAIN disk)}
  /\ UNCHANGED <<files, disk, refused, opens>>

\* Mutant: ready() is not asked.
View_Unready(id) == StartViewer(files[id])

View(id) == IF Ready(files[id]) THEN StartViewer(files[id]) ELSE UNCHANGED vars

\* A viewer ends.
CloseViewer(path) == /\ path \in locked
                     /\ locked' = locked \ {path}
                     /\ UNCHANGED <<files, disk, shown, refused, opens>>

-----------------------------------------------------------------------------
\* What a sender that reads its file where it says it does may send.
PacketsOf(id) ==
  {d \in [id : {id}, packet : 0..Size[files[id].source],
          from : 0..Size[files[id].source], len : 0..Size[files[id].source]] :
     /\ d.from = d.packet
     /\ d.packet + d.len <= Size[files[id].source]}

Next == \/ \E s \in Sources, id \in 1..MaxOpens : \/ OpenFileTransfer(s, id)
                                                 \/ OpenRefused(s, id)
        \/ \E id \in DOMAIN files :
             \/ \E data \in PacketsOf(id) : Transfer(data)
             \/ View(id)
        \/ \E path \in locked : CloseViewer(path)

Spec == Init /\ [][Next]_vars

-----------------------------------------------------------------------------
(* Properties: see also LocalFiles *)

TypeOK == /\ DOMAIN files \subseteq 1..MaxOpens
          /\ \A id \in DOMAIN files : /\ files[id] \in FileRecords
                                     /\ files[id].received <= Size[files[id].source]
          /\ \A p \in DOMAIN disk : disk[p] \in Seq(Nat)
          /\ DOMAIN disk \subseteq Paths
          /\ locked \subseteq DOMAIN disk
          /\ refused \subseteq Sources
          /\ opens \in 0..MaxOpens
=============================================================================
