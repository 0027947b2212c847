-------------------------- MODULE PriorityLockProofs --------------------------
(***************************************************************************)
(* Proofs about PriorityLock, for any finite set of threads.               *)
(***************************************************************************)
EXTENDS PriorityLock, FiniteSetTheorems, TLAPS

\* m_ is owned exactly by the thread that is at a place that owns it.
OwnerInv == \A t \in Threads : (pc[t] \in Owning) <=> (owner = t)

\* priorityRequests_ counts the priority requests that have not returned.
CountInv == priorityRequests = Cardinality(Asking)

\* Only callers of priorityLock() are ever inside it.
CallerInv == Asking \subseteq PriorityThreads

\* locked_ names the thread in its critical section.
LockedInv == \A t \in Threads : pc[t] = "critical" => locked = t

\* The inductive invariant.
LockInv == TypeOK /\ OwnerInv /\ CountInv /\ CallerInv /\ LockedInv /\ NoLostWakeup

-----------------------------------------------------------------------------
(* A set that gains or loses one thread. *)

LEMMA AskingFinite == IsFiniteSet(Asking) /\ Cardinality(Asking) \in Nat
<1>1. Asking \subseteq Threads
  BY DEF Asking
<1>2. IsFiniteSet(Asking)
  BY <1>1, ThreadsAssumption, FS_Subset
<1>. QED
  BY <1>2, FS_CardinalityType

\* Moving t into Asking adds one to its cardinality.
LEMMA AskingGrows ==
  ASSUME NEW t \in Threads, t \notin Asking, Asking' = Asking \cup {t}
  PROVE  Cardinality(Asking') = Cardinality(Asking) + 1
BY AskingFinite, FS_AddElement

\* Moving t out of Asking takes one off its cardinality.
LEMMA AskingShrinks ==
  ASSUME NEW t \in Asking, Asking' = Asking \ {t}
  PROVE  Cardinality(Asking') = Cardinality(Asking) - 1
BY AskingFinite, FS_RemoveElement

\* A positive count means that some thread is asking, a zero count that none is.
LEMMA AskingEmpty == Cardinality(Asking) = 0 <=> Asking = {}
BY AskingFinite, FS_EmptySet

-----------------------------------------------------------------------------
LEMMA InitInv == Init => LockInv
<1>. SUFFICES ASSUME Init PROVE LockInv
  OBVIOUS
<1>1. Asking = {}
  BY DEF Init, Asking
<1>2. TypeOK
  BY DEF Init, TypeOK, Places
<1>3. OwnerInv
  BY ThreadsAssumption DEF Init, OwnerInv, Owning
<1>4. CountInv
  BY <1>1, AskingEmpty DEF CountInv, Init
<1>5. CallerInv /\ LockedInv /\ NoLostWakeup
  BY <1>1 DEF CallerInv, LockedInv, NoLostWakeup, Init
<1>. QED
  BY <1>2, <1>3, <1>4, <1>5 DEF LockInv

\* The steps that change neither the counter nor the set it counts.
LEMMA CountKept ==
  ASSUME CountInv, CallerInv, Asking' = Asking, priorityRequests' = priorityRequests
  PROVE  CountInv' /\ CallerInv'
BY DEF CountInv, CallerInv

LEMMA StepInv == LockInv /\ [Next]_vars => LockInv'
<1>. SUFFICES ASSUME LockInv, [Next]_vars PROVE LockInv'
  OBVIOUS
<1>. USE DEF LockInv
<1>1. ASSUME NEW t \in Threads, CallLock(t) PROVE LockInv'
  <2>. USE <1>1 DEF CallLock, Goto
  <2>1. TypeOK' /\ OwnerInv' /\ LockedInv' /\ NoLostWakeup'
    BY DEF TypeOK, OwnerInv, LockedInv, NoLostWakeup, Places, Owning
  <2>2. Asking' = Asking
    BY DEF TypeOK, Asking
  <2>. QED
    BY <2>1, <2>2, CountKept
<1>2. ASSUME NEW t \in Threads, SpuriousWakeup(t) PROVE LockInv'
  <2>. USE <1>2 DEF SpuriousWakeup, Goto
  <2>1. TypeOK' /\ OwnerInv' /\ LockedInv' /\ NoLostWakeup'
    BY DEF TypeOK, OwnerInv, LockedInv, NoLostWakeup, Places, Owning
  <2>2. Asking' = Asking
    BY DEF TypeOK, Asking
  <2>. QED
    BY <2>1, <2>2, CountKept
<1>3. ASSUME NEW t \in Threads, LockMutex(t) PROVE LockInv'
  <2>. USE <1>3 DEF LockMutex, Goto
  <2>1. TypeOK' /\ OwnerInv' /\ LockedInv' /\ NoLostWakeup'
    BY ThreadsAssumption DEF TypeOK, OwnerInv, LockedInv, NoLostWakeup, Places, Owning
  <2>2. Asking' = Asking
    BY DEF TypeOK, Asking
  <2>. QED
    BY <2>1, <2>2, CountKept
<1>4. ASSUME NEW t \in Threads, PassCheck(t) PROVE LockInv'
  <2>. USE <1>4 DEF PassCheck, Goto
  <2>1. TypeOK' /\ OwnerInv' /\ LockedInv' /\ NoLostWakeup'
    BY DEF TypeOK, OwnerInv, LockedInv, NoLostWakeup, Places, Owning
  <2>2. Asking' = Asking
    BY DEF TypeOK, Asking
  <2>. QED
    BY <2>1, <2>2, CountKept
<1>5. ASSUME NEW t \in Threads, Park(t) PROVE LockInv'
  <2>. USE <1>5 DEF Park, Goto
  <2>1. TypeOK' /\ OwnerInv' /\ LockedInv'
    BY ThreadsAssumption DEF TypeOK, OwnerInv, LockedInv, Places, Owning
  <2>2. Asking' = Asking
    BY DEF TypeOK, Asking
  <2>3. PICK u \in Threads : pc[u] \in {"prioWait", "prioGot"}
    BY AskingEmpty DEF CountInv, Asking, TypeOK
  <2>4. u # t /\ pc'[u] = pc[u]
    BY <2>3 DEF TypeOK
  <2>5. NoLostWakeup'
    BY <2>3, <2>4 DEF NoLostWakeup
  <2>. QED
    BY <2>1, <2>2, <2>5, CountKept
<1>6. ASSUME NEW t \in PriorityThreads, CallPriorityLock(t) PROVE LockInv'
  <2>. USE <1>6 DEF CallPriorityLock, Goto
  <2>1. t \in Threads
    BY ThreadsAssumption
  <2>2. TypeOK' /\ OwnerInv' /\ LockedInv' /\ NoLostWakeup'
    BY <2>1 DEF TypeOK, OwnerInv, LockedInv, NoLostWakeup, Places, Owning
  <2>3. t \notin Asking /\ Asking' = Asking \cup {t}
    BY <2>1 DEF TypeOK, Asking
  <2>4. CountInv'
    BY <2>1, <2>3, AskingGrows DEF CountInv
  <2>. QED
    BY <2>2, <2>3, <2>4 DEF CallerInv
<1>7. ASSUME NEW t \in Threads, PriorityLockMutex(t) PROVE LockInv'
  <2>. USE <1>7 DEF PriorityLockMutex, Goto
  <2>1. TypeOK' /\ OwnerInv' /\ LockedInv' /\ NoLostWakeup'
    BY ThreadsAssumption DEF TypeOK, OwnerInv, LockedInv, NoLostWakeup, Places, Owning
  <2>2. Asking' = Asking
    BY DEF TypeOK, Asking
  <2>. QED
    BY <2>1, <2>2, CountKept
<1>8. ASSUME NEW t \in Threads, PriorityLocked(t) PROVE LockInv'
  <2>. USE <1>8 DEF PriorityLocked, Goto
  <2>1. t \in Asking /\ Asking' = Asking \ {t}
    BY DEF TypeOK, Asking
  <2>2. CountInv'
    BY <2>1, AskingShrinks DEF CountInv
  <2>3. priorityRequests' \in Nat
    BY <2>1, AskingFinite, AskingEmpty DEF CountInv
  <2>4. TypeOK' /\ OwnerInv' /\ LockedInv' /\ NoLostWakeup'
    BY <2>3 DEF TypeOK, OwnerInv, LockedInv, NoLostWakeup, Places, Owning
  <2>. QED
    BY <2>1, <2>2, <2>4 DEF CallerInv
<1>9. ASSUME NEW t \in Threads, NotifyAll(t) PROVE LockInv'
  <2>. USE <1>9 DEF NotifyAll
  <2>1. TypeOK' /\ OwnerInv' /\ LockedInv' /\ NoLostWakeup'
    BY DEF TypeOK, OwnerInv, LockedInv, NoLostWakeup, Places, Owning
  <2>2. Asking' = Asking
    BY DEF TypeOK, Asking
  <2>. QED
    BY <2>1, <2>2, CountKept
<1>10. ASSUME NEW t \in Threads, UnlockMutex(t) PROVE LockInv'
  <2>. USE <1>10 DEF UnlockMutex, Goto
  <2>1. TypeOK' /\ OwnerInv' /\ NoLostWakeup'
    BY ThreadsAssumption DEF TypeOK, OwnerInv, NoLostWakeup, Places, Owning
  <2>2. LockedInv'
    BY DEF TypeOK, OwnerInv, LockedInv, Owning
  <2>3. Asking' = Asking
    BY DEF TypeOK, Asking
  <2>. QED
    BY <2>1, <2>2, <2>3, CountKept
<1>11. CASE UNCHANGED vars
  <2>. USE <1>11 DEF vars
  <2>1. TypeOK' /\ OwnerInv' /\ LockedInv' /\ NoLostWakeup' /\ Asking' = Asking
    BY DEF TypeOK, OwnerInv, LockedInv, NoLostWakeup, Asking
  <2>. QED
    BY <2>1, CountKept
<1>. QED
  BY <1>1, <1>2, <1>3, <1>4, <1>5, <1>6, <1>7, <1>8, <1>9, <1>10, <1>11
     DEF Next, Progress

-----------------------------------------------------------------------------
(* The theorems *)

\* Every reachable state satisfies the inductive invariant.
THEOREM InvHolds == Spec => []LockInv
BY InitInv, StepInv, PTL DEF Spec

\* TypeOK: in particular priorityRequests_, an unsigned, never goes below zero.
THEOREM TypeCorrect == Spec => []TypeOK
BY InvHolds, PTL DEF LockInv

\* NoLostWakeup: unlock() notifying before it unlocks m_ loses no waiter.
THEOREM WakeupsKept == Spec => []NoLostWakeup
BY InvHolds, PTL DEF LockInv

\* LockedByHolder: the critical sections exclude each other.
THEOREM MutualExclusion == Spec => []LockedByHolder
<1>1. LockInv => LockedByHolder
  BY DEF LockInv, OwnerInv, LockedInv, LockedByHolder, Owning
<1>. QED
  BY <1>1, InvHolds, PTL

\* ServesPriorityFirst: the lock implements PriorityMutex, for any number of
\* threads taking it in either mode.
THEOREM Refinement == Spec => ServesPriorityFirst
<1>. DEFINE H == IF owner \in Threads /\ pc[owner] # "check" THEN owner ELSE Free
            A == {t \in Threads : pc[t] = "prioWait"}
<1>1. Init => Mutex!Init
  BY ThreadsAssumption DEF Init, Mutex!Init
<1>2. LockInv /\ LockInv' /\ [Next]_vars => [Mutex!Next]_Mutex!vars
  <2>. SUFFICES ASSUME LockInv, LockInv', [Next]_vars
                PROVE  Mutex!Next \/ (H' = H /\ A' = A)
    BY DEF Mutex!vars
  <2>. USE ThreadsAssumption DEF LockInv, TypeOK, OwnerInv, Owning
  <2>1. ASSUME NEW t \in Threads,
               CallLock(t) \/ SpuriousWakeup(t) \/ LockMutex(t) \/ Park(t)
        PROVE  H' = H /\ A' = A
    BY <2>1 DEF CallLock, SpuriousWakeup, LockMutex, Park, Goto
  <2>2. ASSUME NEW t \in Threads, PriorityLocked(t) \/ NotifyAll(t)
        PROVE  H' = H /\ A' = A
    BY <2>2 DEF PriorityLocked, NotifyAll, Goto
  <2>3. ASSUME NEW t \in Threads, PassCheck(t) PROVE Mutex!GrantNormal(t)
    <3>. USE <2>3 DEF PassCheck, Goto
    <3>1. A = {} /\ A' = A
      BY AskingEmpty DEF CountInv, Asking
    <3>2. H = Free /\ H' = t
      OBVIOUS
    <3>. QED
      BY <3>1, <3>2 DEF Mutex!GrantNormal
  <2>4. ASSUME NEW t \in PriorityThreads, CallPriorityLock(t) PROVE Mutex!Ask(t)
    <3>. USE <2>4 DEF CallPriorityLock, Goto
    <3>1. t \notin A /\ A' = A \cup {t}
      OBVIOUS
    <3>2. H # t /\ H' = H
      OBVIOUS
    <3>. QED
      BY <3>1, <3>2 DEF Mutex!Ask
  <2>5. ASSUME NEW t \in Threads, PriorityLockMutex(t)
        PROVE  t \in PriorityThreads /\ Mutex!GrantPriority(t)
    <3>. USE <2>5 DEF PriorityLockMutex, Goto
    <3>1. t \in PriorityThreads
      BY DEF CallerInv, Asking
    <3>2. t \in A /\ A' = A \ {t}
      OBVIOUS
    <3>3. H = Free /\ H' = t
      OBVIOUS
    <3>. QED
      BY <3>1, <3>2, <3>3 DEF Mutex!GrantPriority
  <2>6. ASSUME NEW t \in Threads, UnlockMutex(t) PROVE Mutex!Release(t)
    <3>. USE <2>6 DEF UnlockMutex, Goto
    <3>1. H = t /\ H' = Free
      OBVIOUS
    <3>2. A' = A
      OBVIOUS
    <3>. QED
      BY <3>1, <3>2 DEF Mutex!Release
  <2>7. CASE UNCHANGED vars
    BY <2>7 DEF vars
  <2>. QED
    BY <2>1, <2>2, <2>3, <2>4, <2>5, <2>6, <2>7 DEF Next, Progress, Mutex!Next
<1>. QED
  BY <1>1, <1>2, InvHolds, PTL DEF Spec, ServesPriorityFirst, Mutex!Spec
=============================================================================
