---------------------------- MODULE PriorityMutex ----------------------------
(***************************************************************************)
(* What helpers/locks.h promises of a PriorityLock: one holder at a time,  *)
(* and "a priority lock request will be serviced before any waiting normal *)
(* locks". Nothing is said of how threads wait.                            *)
(***************************************************************************)

CONSTANTS Threads,          \* every thread that uses the lock
          PriorityThreads,  \* those that may also call priorityLock()
          Free              \* "no thread"

VARIABLES holder,  \* the thread the lock has been granted to, or Free
          asking   \* the threads whose priority request is not yet granted

vars == <<holder, asking>>

Init == /\ holder = Free
        /\ asking = {}

Ask(t) == /\ holder # t
          /\ t \notin asking
          /\ asking' = asking \cup {t}
          /\ UNCHANGED holder

GrantPriority(t) == /\ holder = Free
                    /\ t \in asking
                    /\ holder' = t
                    /\ asking' = asking \ {t}

\* A normal request is granted only while no priority request is pending.
GrantNormal(t) == /\ holder = Free
                  /\ asking = {}
                  /\ holder' = t
                  /\ UNCHANGED asking

Release(t) == /\ holder = t
              /\ holder' = Free
              /\ UNCHANGED asking

Next == \/ \E t \in PriorityThreads : Ask(t) \/ GrantPriority(t)
        \/ \E t \in Threads : GrantNormal(t) \/ Release(t)

Spec == Init /\ [][Next]_vars
=============================================================================
