---------------------------- MODULE PriorityLock ----------------------------
(***************************************************************************)
(* PriorityLock of helpers/locks.h: a std::mutex m_, a condition variable  *)
(* cv_ and the atomic counter priorityRequests_. Threads call lock(),      *)
(* priorityLock() and unlock(); every atomic step of those three functions *)
(* is an action. A terminal's bufferLock_ is such a lock: its reader       *)
(* thread calls lock(), the UI thread both lock() and priorityLock().      *)
(***************************************************************************)
EXTENDS Integers, FiniteSets

CONSTANTS Threads,          \* the threads sharing the lock
          PriorityThreads,  \* those that also call priorityLock()
          Free              \* the value of an unowned m_ or locked_

ASSUME ThreadsAssumption == /\ IsFiniteSet(Threads)
                            /\ PriorityThreads \subseteq Threads
                            /\ Free \notin Threads

VARIABLES
  pc,                \* where each thread is, see Places
  owner,             \* the owner of m_
  priorityRequests,  \* the counter of the same name
  locked             \* locked_, kept by debug builds for ASSERT(locked())

vars == <<pc, owner, priorityRequests, locked>>

Places == { "idle",       \* outside the three functions, not holding the lock
            "lock",       \* in lock(), waiting for m_
            "check",      \* in lock(), owning m_, about to test priorityRequests_
            "parked",     \* in cv_.wait(), m_ released
            "prioWait",   \* in priorityLock(), counted, waiting for m_
            "prioGot",    \* in priorityLock(), owning m_, still counted
            "critical",   \* holding the lock
            "unlocking" } \* in unlock(), after cv_.notify_all()

Goto(t, place) == pc' = [pc EXCEPT ![t] = place]

Init == /\ pc = [t \in Threads |-> "idle"]
        /\ owner = Free
        /\ priorityRequests = 0
        /\ locked = Free

-----------------------------------------------------------------------------
(* lock() *)

CallLock(t) == /\ pc[t] = "idle"
               /\ Goto(t, "lock")
               /\ UNCHANGED <<owner, priorityRequests, locked>>

\* The constructor of the unique_lock, and the end of cv_.wait().
LockMutex(t) == /\ pc[t] = "lock"
                /\ owner = Free
                /\ owner' = t
                /\ Goto(t, "check")
                /\ UNCHANGED <<priorityRequests, locked>>

\* Mutant: the while loop is gone.
PassCheck_NoTest(t) == /\ pc[t] = "check"
                       /\ locked' = t
                       /\ Goto(t, "critical")
                       /\ UNCHANGED <<owner, priorityRequests>>

\* Mutant: without g.release() the unique_lock unlocks m_ as it goes.
PassCheck_NoRelease(t) == /\ pc[t] = "check"
                          /\ priorityRequests = 0
                          /\ locked' = t
                          /\ owner' = Free
                          /\ Goto(t, "critical")
                          /\ UNCHANGED priorityRequests

\* The loop ends; g.release() keeps m_ locked.
PassCheck(t) == /\ pc[t] = "check"
                /\ priorityRequests = 0
                /\ locked' = t
                /\ Goto(t, "critical")
                /\ UNCHANGED <<owner, priorityRequests>>

\* cv_.wait() gives m_ up and parks the thread in one step.
Park(t) == /\ pc[t] = "check"
           /\ priorityRequests > 0
           /\ owner' = Free
           /\ Goto(t, "parked")
           /\ UNCHANGED <<priorityRequests, locked>>

\* A wait may end without a notification.
SpuriousWakeup(t) == /\ pc[t] = "parked"
                     /\ Goto(t, "lock")
                     /\ UNCHANGED <<owner, priorityRequests, locked>>

-----------------------------------------------------------------------------
(* priorityLock() *)

CallPriorityLock(t) == /\ pc[t] = "idle"
                       /\ priorityRequests' = priorityRequests + 1
                       /\ Goto(t, "prioWait")
                       /\ UNCHANGED <<owner, locked>>

PriorityLockMutex(t) == /\ pc[t] = "prioWait"
                        /\ owner = Free
                        /\ owner' = t
                        /\ Goto(t, "prioGot")
                        /\ UNCHANGED <<priorityRequests, locked>>

PriorityLocked(t) == /\ pc[t] = "prioGot"
                     /\ priorityRequests' = priorityRequests - 1
                     /\ locked' = t
                     /\ Goto(t, "critical")
                     /\ UNCHANGED owner

-----------------------------------------------------------------------------
(* unlock() *)

\* Mutant: unlock() only unlocks m_.
NotifyAll_Forgotten(t) == /\ pc[t] = "critical"
                          /\ Goto(t, "unlocking")
                          /\ UNCHANGED <<owner, priorityRequests, locked>>

NotifyAll(t) ==
  /\ pc[t] = "critical"
  /\ pc' = [u \in Threads |-> IF u = t THEN "unlocking"
                              ELSE IF pc[u] = "parked" THEN "lock"
                              ELSE pc[u]]
  /\ UNCHANGED <<owner, priorityRequests, locked>>

UnlockMutex(t) == /\ pc[t] = "unlocking"
                  /\ locked' = Free
                  /\ owner' = Free
                  /\ Goto(t, "idle")
                  /\ UNCHANGED priorityRequests

-----------------------------------------------------------------------------
\* What a thread does once it has called lock(), priorityLock() or unlock().
Progress(t) == \/ LockMutex(t)         \/ PassCheck(t)      \/ Park(t)
               \/ PriorityLockMutex(t) \/ PriorityLocked(t)
               \/ NotifyAll(t)         \/ UnlockMutex(t)

Next == \/ \E t \in Threads : CallLock(t) \/ SpuriousWakeup(t) \/ Progress(t)
        \/ \E t \in PriorityThreads : CallPriorityLock(t)

Spec == Init /\ [][Next]_vars

\* The scheduler runs every thread that can run, critical sections end, and
\* waits do not end spuriously forever.
Fairness == /\ \A t \in Threads : WF_vars(Progress(t))
            /\ <>[][\A t \in Threads : ~SpuriousWakeup(t)]_vars

FairSpec == Spec /\ Fairness

-----------------------------------------------------------------------------
(* Properties *)

Asking == {t \in Threads : pc[t] \in {"prioWait", "prioGot"}}

Owning == {"check", "prioGot", "critical", "unlocking"}

TypeOK == /\ pc \in [Threads -> Places]
          /\ owner \in Threads \cup {Free}
          /\ priorityRequests \in Nat
          /\ locked \in Threads \cup {Free}

\* A thread parked in lock() is always going to be notified: some priority
\* request is still pending or its holder has not yet reached notify_all.
\* unlock() notifies before it unlocks m_, and a thread can only park while
\* it owns m_, so no wakeup falls between its test and its wait.
NoLostWakeup ==
  \A t \in Threads : pc[t] = "parked" =>
     \E u \in Threads : pc[u] \in {"prioWait", "prioGot", "critical"}

\* What ASSERT(bufferLock_.locked()) relies on: a thread between the return
\* of lock() or priorityLock() and its unlock() is the only one that holds
\* the lock, and locked() says so.
LockedByHolder ==
  \A t \in Threads : pc[t] = "critical" =>
     /\ owner = t /\ locked = t
     /\ \A u \in Threads \ {t} : pc[u] # "critical"

\* The lock's own documentation: a holder at a time, and no normal lock is
\* granted between a priority request and its grant.
Mutex == INSTANCE PriorityMutex
           WITH holder <- IF owner \in Threads /\ pc[owner] # "check"
                            THEN owner ELSE Free,
                asking <- {t \in Threads : pc[t] = "prioWait"}

ServesPriorityFirst == Mutex!Spec

\* A pending priority request leads to the grant of one: readers that keep
\* calling lock() cannot hold the UI thread off, even with an unfair m_.
PriorityServed == (\E t \in Threads : pc[t] = "prioWait")
                    ~> (\E t \in Threads : pc[t] = "prioGot")
=============================================================================
