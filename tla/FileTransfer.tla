---------------------------- MODULE FileTransfer ----------------------------
(***************************************************************************)
(* ropen sends a file to the terminal it runs in: RemoteOpen of            *)
(* ropen/main_ropen.cpp on top of TerminalClient::Sync::transmit of        *)
(* tpp-lib/terminal_client.cpp (its main thread and its reader thread),    *)
(* the pseudoterminal in between, and terminalTppSequence, which serves    *)
(* the requests from RemoteFiles. There is one ropen per source, each in a *)
(* session of its own: TerminalWindow keeps a map of sessions that share   *)
(* the RemoteFiles, of which the program opens one at present, so the runs *)
(* have one source and start ropen in it again. The pseudoterminal keeps   *)
(* the order of the sequences but may lose some, and an answer may come    *)
(* after its request has timed out.                                        *)
(***************************************************************************)
EXTENDS LocalFiles, SequencesExt, FiniteSetsExt

CONSTANTS Name, MaxOpens,  \* of RemoteFiles
          PacketSize,   \* packetSize_
          PacketLimit,  \* initialPacketLimit_
          MinLimit,     \* MIN_PACKET_LIMIT
          Attempts,     \* attempts_ of the terminal client
          MaxRuns,      \* bound: how often ropen is run on each file
          MaxFaults     \* bound: sequences lost, early timeouts, interrupts,
                        \* local files that cannot be opened

ASSUME TransferAssumption == /\ Size \in [Sources -> Nat] /\ MaxOpens \in Nat
                             /\ {PacketSize, PacketLimit, MinLimit, Attempts} \subseteq Nat

VARIABLES
  locked, opens,  \* of RemoteFiles, with the variables of LocalFiles
  call,      \* per source, the state of transmit() and where ropen is
  ropen,     \* per source, the fields of RemoteOpen
  toTerm,    \* per source, sequences on their way to the terminal
  toClient,  \* per source, sequences on their way to the client
  runs,      \* bound: the runs of ropen so far, per source
  clean,     \* history: whether the last of them began with nothing on its way
  faults     \* bound: the faults so far

RF == INSTANCE RemoteFiles

filesVars == <<files, disk, locked, shown, refused, opens>>

runsVars == <<runs, clean>>

vars == <<files, disk, locked, shown, refused, opens, call, ropen, toTerm, toClient,
          runs, clean, faults>>

\* The phases in which transmit() waits for an answer, and the answer's kind.
Expected == [caps |-> "Capabilities", open |-> "Ack",
             status |-> "TransferStatus", view |-> "Ack"]

Waiting(c) == call[c].phase \in DOMAIN Expected
Running(c) == Waiting(c) \/ call[c].phase = "data"

Init == /\ RF!Init
        /\ call = [c \in Sources |-> [phase |-> "idle", result |-> "none",
                                      answer |-> "none", attempts |-> 0]]
        /\ ropen = [c \in Sources |-> [sent |-> 0, pos |-> 0, eof |-> FALSE,
                                       packets |-> 0, limit |-> PacketLimit,
                                       id |-> 0]]
        /\ toTerm = [c \in Sources |-> << >>]
        /\ toClient = [c \in Sources |-> << >>]
        /\ runs = [c \in Sources |-> 0]
        /\ clean = [c \in Sources |-> TRUE]
        /\ faults = 0

Fault == faults < MaxFaults /\ faults' = faults + 1

-----------------------------------------------------------------------------
(* transmit(), called by ropen's main thread *)

\* The request of each phase; two requests are the same if their texts are.
Request(c, phase, id) ==
  CASE phase = "caps"   -> [kind |-> "GetCapabilities"]
    [] phase = "open"   -> [kind |-> "OpenFileTransfer", source |-> c]
    [] phase = "status" -> [kind |-> "GetTransferStatus", id |-> id]
    [] phase = "view"   -> [kind |-> "ViewRemoteFile", id |-> id]

\* The call up to its first wait: result_ is where the answer is expected.
\* The packets are sequences that were sent before without an answer.
Transmit(c, phase, id, packets) ==
  /\ call' = [call EXCEPT ![c] =
       [phase |-> phase, result |-> "wait", answer |-> "none",
        attempts |-> IF phase = "caps" THEN 1 ELSE Attempts]]
  /\ toTerm' = [toTerm EXCEPT ![c] = @ \o packets \o <<Request(c, phase, id)>>]

\* The wait has timed out. That it has is all that is looked at: an answer
\* that is already there is not. Timeouts with an answer still to come are
\* faults, the others are not bounded.
TimedOut(c) == /\ Waiting(c)
               /\ IF toTerm[c] = << >> /\ toClient[c] = << >> /\ call[c].result = "wait"
                    THEN UNCHANGED faults
                    ELSE Fault

Resend(c) == /\ TimedOut(c)
             /\ call[c].attempts > 1
             /\ call' = [call EXCEPT ![c].attempts = @ - 1]
             /\ toTerm' = [toTerm EXCEPT ![c] =
                             Append(@, Request(c, call[c].phase, ropen[c].id))]
             /\ UNCHANGED <<filesVars, ropen, toClient, runsVars>>

\* TimeoutError ends ropen, and so does NackError.
GiveUp(c) == /\ Waiting(c)
             /\ IF call[c].result = "nack" THEN UNCHANGED faults
                  ELSE call[c].attempts = 1 /\ TimedOut(c)
             /\ call' = [call EXCEPT ![c] = [@ EXCEPT !.attempts = 0, !.phase = "failed"]]
             /\ UNCHANGED <<filesVars, ropen, toTerm, toClient, runsVars>>

\* transmit() returns.
Answered(c, phase) == call[c].phase = phase /\ call[c].result = "none"

-----------------------------------------------------------------------------
(* The client's reader thread: receivedSequence() and responseCheck() *)

\* Mutant: the status expected is that of the stream known when it began.
Matches_FirstId(c, m) ==
  /\ call[c].result = "wait"
  /\ m.kind = Expected[call[c].phase]
  /\ m.kind = "Ack" => m.request = Request(c, call[c].phase, ropen[c].id)
  /\ m.kind = "TransferStatus" => m.id = 0

Matches(c, m) ==
  \/ /\ call[c].result = "wait"
     /\ m.kind = Expected[call[c].phase]
     /\ m.kind = "Ack" => m.request = Request(c, call[c].phase, ropen[c].id)
     /\ m.kind = "TransferStatus" => m.id = ropen[c].id
  \/ /\ call[c].result # "none"
     /\ m.kind = "Nack"
     /\ m.request = Request(c, call[c].phase, ropen[c].id)

\* A sequence that is not the expected answer is NOT_IMPLEMENTED: an
\* exception that the reader thread does not catch.
Receive(c) ==
  /\ Running(c)
  /\ toClient[c] # << >>
  /\ LET m == Head(toClient[c]) IN
       call' = [call EXCEPT ![c] =
         IF Matches(c, m)
           THEN [@ EXCEPT !.answer = m,
                          !.result = IF m.kind = "Nack" THEN "nack" ELSE "none"]
           ELSE [@ EXCEPT !.phase = "crashed"]]
  /\ toClient' = [toClient EXCEPT ![c] = Tail(@)]
  /\ UNCHANGED <<filesVars, ropen, toTerm, runsVars, faults>>

-----------------------------------------------------------------------------
(* RemoteOpen, the main thread *)

\* A new process: the fields of RemoteOpen and of the client are fresh, the
\* pseudoterminal is not.
Start(c) == /\ ~ Running(c)
            /\ runs[c] < MaxRuns
            /\ runs' = [runs EXCEPT ![c] = @ + 1]
            /\ clean' = [clean EXCEPT ![c] = toTerm[c] = << >> /\ toClient[c] = << >>]
            /\ ropen' = [ropen EXCEPT ![c] =
                           [sent |-> 0, pos |-> 0, eof |-> FALSE, packets |-> 0,
                            limit |-> PacketLimit, id |-> 0]]
            /\ Transmit(c, "caps", 0, << >>)
            /\ UNCHANGED <<filesVars, toClient, faults>>

OpenLocalFile(c) == /\ Answered(c, "caps")
                    /\ Transmit(c, "open", 0, << >>)
                    /\ UNCHANGED <<filesVars, ropen, toClient, runsVars, faults>>

\* The loop of transfer() is entered, or not if the file is empty.
BeginTransfer(c) ==
  LET id == call[c].answer.id IN
  /\ Answered(c, "open")
  /\ ropen' = [ropen EXCEPT ![c].id = id]
  /\ IF Size[c] = 0
       THEN Transmit(c, "view", id, << >>)
       ELSE call' = [call EXCEPT ![c].phase = "data"] /\ UNCHANGED toTerm
  /\ UNCHANGED <<filesVars, toClient, runsVars, faults>>

\* ++packets == packetLimit_ || sent_ == size_
AsksStatus(c, r, sent) == r.packets + 1 = r.limit \/ sent = Size[c]

\* One round of the loop up to the status check: read() at the end of the
\* file reads short, and nothing more until clear().
SendPacket(c) ==
  LET r    == ropen[c]
      len  == IF r.eof THEN 0 ELSE Min({PacketSize, Size[c] - r.pos})
      data == [kind |-> "Data", id |-> r.id, packet |-> r.sent,
               from |-> r.pos, len |-> len]
      sent == r.sent + len
      asks == AsksStatus(c, r, sent)
  IN
  /\ call[c].phase = "data"
  /\ ropen' = [ropen EXCEPT ![c] =
       [r EXCEPT !.sent = sent, !.pos = r.pos + len,
                 !.eof = r.eof \/ len < PacketSize,
                 !.packets = IF asks THEN 0 ELSE r.packets + 1]]
  /\ IF asks
       THEN Transmit(c, "status", r.id, <<data>>)
       ELSE /\ toTerm' = [toTerm EXCEPT ![c] = Append(@, data)]
            /\ UNCHANGED call
  /\ UNCHANGED <<filesVars, toClient, runsVars, faults>>

\* SIGINT: the flag is looked at before each packet.
Interrupted(c) == /\ call[c].phase = "data"
                  /\ Fault
                  /\ call' = [call EXCEPT ![c].phase = "failed"]
                  /\ UNCHANGED <<filesVars, ropen, toTerm, toClient, runsVars>>

\* Mutant: the stream is not moved back with sent_.
Rewound_NoSeek(r, received) ==
  [r EXCEPT !.sent = received, !.eof = FALSE,
            !.limit = IF @ > MinLimit THEN @ \div 2 ELSE @]

\* The terminal has not got all: back to what it has, and slower.
Rewound(r, received) ==
  [r EXCEPT !.sent = received, !.pos = received, !.eof = FALSE,
            !.limit = IF @ > MinLimit THEN @ \div 2 ELSE @]

\* The terminal has got all: faster again.
Confirmed(r) ==
  [r EXCEPT !.limit = IF @ < PacketLimit THEN @ * 4 ELSE @]

\* Mutant: any status will do.
CheckTransferStatus_Trusting(c) ==
  LET r == Confirmed(ropen[c]) IN
  /\ Answered(c, "status")
  /\ ropen' = [ropen EXCEPT ![c] = r]
  /\ IF r.sent = Size[c]
       THEN Transmit(c, "view", r.id, << >>)
       ELSE call' = [call EXCEPT ![c].phase = "data"] /\ UNCHANGED toTerm
  /\ UNCHANGED <<filesVars, toClient, runsVars, faults>>

\* checkTransferStatus(), and the loop condition after it.
CheckTransferStatus(c) ==
  LET received == call[c].answer.received
      r == IF received = ropen[c].sent THEN Confirmed(ropen[c])
                                       ELSE Rewound(ropen[c], received)
  IN
  /\ Answered(c, "status")
  /\ ropen' = [ropen EXCEPT ![c] = r]
  /\ IF r.sent = Size[c]
       THEN Transmit(c, "view", r.id, << >>)
       ELSE call' = [call EXCEPT ![c].phase = "data"] /\ UNCHANGED toTerm
  /\ UNCHANGED <<filesVars, toClient, runsVars, faults>>

Finish(c) == /\ Answered(c, "view")
             /\ call' = [call EXCEPT ![c].phase = "done"]
             /\ UNCHANGED <<filesVars, ropen, toTerm, toClient, runsVars, faults>>

-----------------------------------------------------------------------------
(* terminalTppSequence(), in the reader thread of the session's terminal *)

Reply(c, m) == toClient' = [toClient EXCEPT ![c] = Append(@, m)]

StatusOf(id) == [kind |-> "TransferStatus", id |-> id,
                 received |-> files[id].received]

ServeCapabilities(c, m) == /\ m.kind = "GetCapabilities"
                           /\ Reply(c, [kind |-> "Capabilities"])
                           /\ UNCHANGED filesVars

ServeOpen(c, m) == /\ m.kind = "OpenFileTransfer"
                   /\ \E id \in 1..MaxOpens :
                        /\ RF!OpenFileTransfer(m.source, id)
                        /\ Reply(c, [kind |-> "Ack", request |-> m, id |-> id])

ServeData(c, m) == /\ m.kind = "Data"
                   /\ RF!Transfer(m)
                   /\ UNCHANGED toClient

ServeStatus(c, m) == /\ m.kind = "GetTransferStatus"
                     /\ Reply(c, IF m.id \in DOMAIN files THEN StatusOf(m.id)
                                 ELSE [kind |-> "Nack", request |-> m])
                     /\ UNCHANGED filesVars

ServeView(c, m) ==
  /\ m.kind = "ViewRemoteFile"
  /\ IF m.id \in DOMAIN files /\ RF!Ready(files[m.id])
       THEN Reply(c, [kind |-> "Ack", request |-> m, id |-> m.id]) /\ RF!View(m.id)
       ELSE Reply(c, [kind |-> "Nack", request |-> m]) /\ UNCHANGED filesVars

Serve(c) == /\ toTerm[c] # << >>
            /\ LET m == Head(toTerm[c]) IN
                 \/ ServeCapabilities(c, m) \/ ServeOpen(c, m) \/ ServeData(c, m)
                 \/ ServeStatus(c, m) \/ ServeView(c, m)
            /\ toTerm' = [toTerm EXCEPT ![c] = Tail(@)]
            /\ UNCHANGED <<call, ropen, runsVars, faults>>

\* No local file can be opened: IOError, which terminalTppSequence shows to the
\* user. ropen is not told.
ServeRefused(c) ==
  /\ toTerm[c] # << >>
  /\ Head(toTerm[c]).kind = "OpenFileTransfer"
  /\ Fault
  /\ \E id \in 1..MaxOpens : RF!OpenRefused(Head(toTerm[c]).source, id)
  /\ toTerm' = [toTerm EXCEPT ![c] = Tail(@)]
  /\ UNCHANGED <<call, ropen, toClient, runsVars>>

CloseViewer(path) == /\ RF!CloseViewer(path)
                     /\ UNCHANGED <<call, ropen, toTerm, toClient, runsVars, faults>>

-----------------------------------------------------------------------------
(* The pseudoterminal *)

LoseRequest(c) == /\ toTerm[c] # << >>
                  /\ Fault
                  /\ toTerm' = [toTerm EXCEPT ![c] = Tail(@)]
                  /\ UNCHANGED <<filesVars, call, ropen, toClient, runsVars>>

LoseAnswer(c) == /\ toClient[c] # << >>
                 /\ Fault
                 /\ toClient' = [toClient EXCEPT ![c] = Tail(@)]
                 /\ UNCHANGED <<filesVars, call, ropen, toTerm, runsVars>>

\* With no ropen running, it is the shell that reads an answer.
ShellReads(c) == /\ ~ Running(c)
                 /\ toClient[c] # << >>
                 /\ toClient' = [toClient EXCEPT ![c] = Tail(@)]
                 /\ UNCHANGED <<filesVars, call, ropen, toTerm, runsVars, faults>>

-----------------------------------------------------------------------------
\* The main thread, once ropen runs.
Main(c) == \/ OpenLocalFile(c) \/ BeginTransfer(c)       \/ SendPacket(c)
           \/ CheckTransferStatus(c) \/ Finish(c)
           \/ Resend(c)        \/ GiveUp(c)

Next == \/ \E c \in Sources : \/ Start(c) \/ Main(c) \/ Receive(c) \/ Serve(c)
                              \/ Interrupted(c) \/ LoseRequest(c) \/ LoseAnswer(c)
                              \/ ServeRefused(c) \/ ShellReads(c)
        \/ \E path \in locked : CloseViewer(path)

Spec == Init /\ [][Next]_vars

\* Threads are scheduled, timeouts expire and the pseudoterminal moves on.
Fairness == \A c \in Sources : /\ WF_vars(Main(c))
                               /\ WF_vars(Receive(c))
                               /\ WF_vars(Serve(c))
                               /\ WF_vars(ShellReads(c))

FairSpec == Spec /\ Fairness

-----------------------------------------------------------------------------
(* Properties *)

\* What ropen relies on: once its loop ends, and whatever of this run was lost,
\* sent twice or answered late, the terminal has the whole file under the
\* stream that ropen is about to have opened. It is said of runs that begin when
\* nothing of an earlier one is on its way. Without this it is false: the fourth
\* run in quick succession may take the late answers of the earlier ones for its
\* own, and a request to open that empties the file again is still to come.
\* That the file is stored is said only if it could be opened each time: if not,
\* received_ counts on all the same, and the request to view it is granted.
DeliveredAtEnd ==
  \A c \in Sources : clean[c] /\ call[c].phase \in {"view", "done"} =>
    LET f == files[ropen[c].id] IN
    /\ f.source = c
    /\ RF!Ready(f)
    /\ c \notin refused => disk[f.path] = Whole(c)

\* The packets that reach the terminal are what RemoteFiles assumes: what the
\* file holds at the offset they claim, of a stream that exists.
ServesRemoteFiles == RF!Spec

\* Every run of ropen ends, and while nothing is lost, late or interrupted it
\* ends with the file viewed.
Completes ==
  \A c \in Sources : /\ Running(c) ~> ~ Running(c)
                     /\ Running(c) ~> (call[c].phase = "done" \/ faults > 0)
=============================================================================
