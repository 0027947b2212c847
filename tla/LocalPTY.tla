------------------------------ MODULE LocalPTY ------------------------------
(***************************************************************************)
(* The two ends of a local pseudoterminal on Unix, tpp-lib/local_pty.cpp:  *)
(* a terminal with LocalPTYMaster and the reader of PTYBuffer, and ropen   *)
(* as its child, with LocalPTYSlave and the reader of TerminalClient. The  *)
(* main thread of ropen makes requests, which the terminal answers, and    *)
(* destroys its client when it has its answers or gives up; what ropen     *)
(* asks for is modelled in FileTransfer.                                   *)
(***************************************************************************)
EXTENDS Integers, Sequences, FiniteSets

CONSTANTS
  Requests,    \* the requests ropen makes
  MaxResizes,  \* bound: resizes of the window
  MaxKeys      \* bound: keys pressed

VARIABLES
  \* the pseudoterminal
  toMaster,    \* requests written by ropen
  toSlave,     \* answers and keys written by the terminal
  \* the terminal
  master,      \* owner: "open", "joining" or "closed"; reader: "receive" or
               \* "ended"; terminated_; exitCode_
  \* ropen
  child,       \* the process: "runs", "zombie" or "reaped", and how it ended
  Slave,       \* Slave_ # nullptr
  Receiving,   \* Receiving_
  main,        \* where the main thread is, and the requests it still has to make
  answered,    \* the response has arrived
  reader,      \* where the reader is
  handler,     \* whether SIGWINCH_handler() is installed
  signals,     \* the threads a SIGWINCH is pending for
  handling,    \* of each thread, where it is in the handler
  changes      \* bounds: resizes and keys so far

terminalVars == <<toMaster, master>>
clientVars == <<Slave, Receiving, main, answered, reader, handler, handling>>
vars == <<toMaster, toSlave, master, child, Slave, Receiving, main, answered,
          reader, handler, signals, handling, changes>>

Threads == {"main", "reader"}

\* start() forks ropen, its waiter and the reader of the terminal.
Started ==
  /\ toMaster = 0
  /\ toSlave = << >>
  /\ master = [owner |-> "open", reader |-> "receive", terminated |-> FALSE, exitCode |-> "none"]
  /\ child = [is |-> "runs", ended |-> "none"]

\* LocalPTYSlave() and the reader of TerminalClient.
Opened ==
  /\ Slave = TRUE
  /\ Receiving = FALSE
  /\ main = [at |-> "request", left |-> Requests]
  /\ answered = FALSE
  /\ reader = "test"
  /\ handler = TRUE
  /\ signals = {}
  /\ handling = [t \in Threads |-> "no"]

Init == Started /\ Opened /\ changes = [resizes |-> 0, keys |-> 0]

Runs == child.is = "runs"

\* The end of the process ends its threads; the pseudoterminal is hung up.
End(how) == child' = [is |-> "zombie", ended |-> how]

-----------------------------------------------------------------------------
(* The terminal *)

\* resize(): the process is sent SIGWINCH, which one of its threads takes.
Resize ==
  /\ master.owner = "open" /\ changes.resizes < MaxResizes
  /\ changes' = [changes EXCEPT !.resizes = @ + 1]
  /\ IF Runs THEN \E t \in Threads : signals' = signals \cup {t} ELSE UNCHANGED signals
  /\ UNCHANGED <<terminalVars, toSlave, child, clientVars>>

\* send() of a key.
Key == /\ master.owner = "open" /\ Runs /\ changes.keys < MaxKeys
       /\ changes' = [changes EXCEPT !.keys = @ + 1]
       /\ toSlave' = Append(toSlave, "key")
       /\ UNCHANGED <<terminalVars, child, clientVars, signals>>

\* receive() by the reader of PTYBuffer: a request, which is answered with
\* send(), or, when the process has ended, 0. Before the waiter has stored
\* terminated_ the reader asks again.
MasterReceive ==
  /\ master.reader = "receive"
  /\ IF toMaster > 0
     THEN /\ toMaster' = toMaster - 1
          /\ toSlave' = Append(toSlave, "answer")
          /\ UNCHANGED master
     ELSE /\ ~Runs /\ master.terminated
          /\ master' = [master EXCEPT !.reader = "ended"]
          /\ UNCHANGED <<toMaster, toSlave>>
  /\ UNCHANGED <<child, clientVars, signals, changes>>

\* The waiter of start().
Wait == /\ child.is = "zombie"
        /\ child' = [child EXCEPT !.is = "reaped"]
        /\ master' = [master EXCEPT !.exitCode = child.ended, !.terminated = TRUE]
        /\ UNCHANGED <<toMaster, toSlave, clientVars, signals, changes>>

\* terminatePty(): terminate(), then the reader is joined ...
Terminate == /\ master.owner = "open"
             /\ master' = [master EXCEPT !.owner = "joining"]
             /\ IF Runs THEN End("killed") ELSE UNCHANGED child
             /\ UNCHANGED <<toMaster, toSlave, clientVars, signals, changes>>

\* ... and ~LocalPTYMaster() joins the waiter. Its second kill() finds no child.
Joined == /\ master.owner = "joining" /\ master.reader = "ended" /\ child.is = "reaped"
          /\ master' = [master EXCEPT !.owner = "closed"]
          /\ UNCHANGED <<toMaster, toSlave, child, clientVars, signals, changes>>

-----------------------------------------------------------------------------
(* The threads of ropen. A thread in a signal handler does nothing else.   *)

Free(t) == Runs /\ handling[t] = "no"

\* A pending signal is taken; a thread that is blocked in read() leaves it.
Deliver(t) ==
  /\ Free(t) /\ t \in signals
  /\ signals' = signals \ {t}
  /\ IF handler THEN handling' = [handling EXCEPT ![t] = "test"] ELSE UNCHANGED handling
  /\ UNCHANGED <<terminalVars, toSlave, child, Slave, Receiving, main, answered, reader, handler, changes>>

\* SIGWINCH_handler() tests Slave_ ...
HandlerTest(t) ==
  /\ Runs /\ handling[t] = "test"
  /\ handling' = [handling EXCEPT ![t] = IF Slave THEN "use" ELSE "return"]
  /\ UNCHANGED <<terminalVars, toSlave, child, Slave, Receiving, main, answered, reader, handler, signals, changes>>

\* ... and reads it again to tell the client of the size, which ropen ignores.
HandlerUse(t) ==
  /\ Runs /\ handling[t] = "use"
  /\ IF Slave THEN /\ handling' = [handling EXCEPT ![t] = "return"]
                   /\ UNCHANGED child
     ELSE End("segfault") /\ UNCHANGED handling
  /\ UNCHANGED <<terminalVars, toSlave, Slave, Receiving, main, answered, reader, handler, signals, changes>>

\* After the handler read() fails with EINTR, and receive() looks at Slave_.
HandlerReturn(t) ==
  /\ Runs /\ handling[t] = "return"
  /\ handling' = [handling EXCEPT ![t] = "no"]
  /\ reader' = IF t = "reader" /\ reader = "read" THEN "interrupted" ELSE reader
  /\ UNCHANGED <<terminalVars, toSlave, child, Slave, Receiving, main, answered, handler, signals, changes>>

-----------------------------------------------------------------------------
(* receive() and the loop of the reader *)

ReaderStep(from, to) == Free("reader") /\ reader = from /\ reader' = to

readerKeeps == <<terminalVars, child, Slave, main, handler, signals, handling, changes>>

\* if (Slave_ == nullptr) return.
ReceiveTest == /\ ReaderStep("test", IF Slave THEN "mark" ELSE "ended")
               /\ UNCHANGED <<readerKeeps, toSlave, Receiving, answered>>

\* ReaderThread_ and Receiving_ are stored.
ReceiveMark == /\ ReaderStep("mark", "read")
               /\ Receiving' = TRUE
               /\ UNCHANGED <<readerKeeps, toSlave, answered>>

\* read() returns what has been sent.
ReceiveData == /\ toSlave # << >>
               /\ ReaderStep("read", Head(toSlave))
               /\ toSlave' = Tail(toSlave)
               /\ Receiving' = FALSE
               /\ UNCHANGED <<readerKeeps, answered>>

ReceiveInterrupted == /\ ReaderStep("interrupted", IF Slave THEN "read" ELSE "ended")
                      /\ Receiving' = Slave
                      /\ UNCHANGED <<readerKeeps, toSlave, answered>>

\* processInput(), which tells the main thread of its response.
ProcessInput == \E what \in {"answer", "key"} :
                  /\ ReaderStep(what, "test")
                  /\ answered' = (answered \/ what = "answer")
                  /\ UNCHANGED <<readerKeeps, toSlave, Receiving>>

\* The reader calls receive() of a slave that has been deleted.
UseDeleted == /\ Free("reader") /\ reader = "test" /\ main.at = "join"
              /\ End("segfault")
              /\ UNCHANGED <<terminalVars, toSlave, clientVars, signals, changes>>

-----------------------------------------------------------------------------
(* The main thread *)

MainStep(from, to) == Free("main") /\ main.at = from /\ main' = [main EXCEPT !.at = to]

mainKeeps == <<toSlave, Receiving, reader, handling, changes, master>>

\* A request is sent.
Request == /\ MainStep("request", "await")
           /\ toMaster' = toMaster + 1
           /\ answered' = FALSE
           /\ UNCHANGED <<mainKeeps, child, Slave, handler, signals>>

\* The response wakes the main thread up; after the last one the client is destroyed.
Response == /\ Free("main") /\ main.at = "await" /\ answered
            /\ main' = [at |-> IF main.left = 1 THEN "destroy" ELSE "request", left |-> main.left - 1]
            /\ UNCHANGED <<mainKeeps, toMaster, answered, child, Slave, handler, signals>>

\* A timeout is thrown, and the client is destroyed.
GiveUp == /\ MainStep("await", "destroy")
          /\ UNCHANGED <<mainKeeps, toMaster, answered, child, Slave, handler, signals>>

\* ~LocalPTYSlave(): Slave_ = nullptr ...
Destroy == /\ MainStep("destroy", "signal")
           /\ Slave' = FALSE
           /\ UNCHANGED <<mainKeeps, toMaster, answered, child, handler, signals>>

\* ... the reader is signalled for as long as it receives ...
Signal == /\ Free("main") /\ main.at = "signal" /\ Receiving
          /\ "reader" \notin signals
          /\ signals' = signals \cup {"reader"}
          /\ UNCHANGED <<mainKeeps, main, toMaster, answered, child, Slave, handler>>

\* ... and the handler and the terminal's attributes are restored.
Restore == /\ ~Receiving
           /\ MainStep("signal", "join")
           /\ handler' = FALSE
           /\ UNCHANGED <<mainKeeps, toMaster, answered, child, Slave, signals>>

\* ~TerminalClient() has joined the reader, and the program ends.
Join == /\ reader = "ended"
        /\ MainStep("join", "returned")
        /\ End("returned")
        /\ UNCHANGED <<mainKeeps, toMaster, answered, Slave, handler, signals>>

-----------------------------------------------------------------------------

Handling(t) == Deliver(t) \/ HandlerTest(t) \/ HandlerUse(t) \/ HandlerReturn(t)

Receive == ReceiveTest \/ ReceiveMark \/ ReceiveData \/ ReceiveInterrupted \/ ProcessInput \/ UseDeleted

Main == Request \/ Response \/ Destroy \/ Signal \/ Restore \/ Join

Next == \/ Resize \/ Key \/ MasterReceive \/ Wait \/ Terminate \/ Joined
        \/ \E t \in Threads : Handling(t)
        \/ Receive \/ Main \/ GiveUp

\* Every thread runs on, also between two signals; nobody has to press a key or
\* to resize or close the window.
Fairness == /\ WF_vars(MasterReceive) /\ WF_vars(Wait) /\ WF_vars(Joined)
            /\ SF_vars(Receive) /\ SF_vars(Main)
            /\ \A t \in Threads : WF_vars(Handling(t))

Spec == Init /\ [][Next]_vars /\ Fairness

\* Once ropen destroys its end of the pseudoterminal, receive() ends and the
\* reader with it, or the process is gone ("If the pseudoterminal has been
\* terminated returns immediately", pty.h:39). Not so: the destructor may run
\* while the reader is between its test of Slave_ and its store of Receiving_.
ReceiveEnds == (main.at = "signal") ~> (reader = "ended" \/ ~Runs)
=============================================================================
