--------------------------- MODULE UIEventsProofs ---------------------------
(***************************************************************************)
(* Proofs about UIEvents, for any widgets, workers and number of events.   *)
(***************************************************************************)
EXTENDS UIEvents, SequenceLemmas, FiniteSetTheorems, TLAPS

EventRecords == [widget : Targets, waiter : Workers \cup {Dummy},
                 live : BOOLEAN, detached : BOOLEAN]

\* The scheduled events, and those of the queue among them.
TypeInv == /\ event \in Seq(EventRecords)
           /\ events \in Seq(1..Len(event))
           /\ ran \subseteq 1..Len(event)

\* The queue is in the order of scheduling ...
Increasing == \A i, j \in DOMAIN events : i < j => events[i] < events[j]

\* ... and behind all that has been run, nulled events included.
Behind == \A i \in DOMAIN events : \A id \in ran : id < events[i]

BeingDetached(w) == ui = [at |-> "detaching", widget |-> w]

\* Why an event is nulled.
NulledOf == \A id \in DOMAIN event :
              ~ event[id].live => event[id].detached \/ BeingDetached(event[id].widget)

\* The inductive invariant of the order.
OrderInv == TypeInv /\ Increasing /\ Behind /\ NulledOf

-----------------------------------------------------------------------------
(* What the steps of the threads have in common. *)

\* A step schedules an event,
SchedulesOne == /\ \E w \in Targets, t \in Workers \cup {Dummy} : Schedule(w, t)
                /\ UNCHANGED <<ui, ran>>

\* or leaves the queue alone and neither begins nor ends a detachment,
QueueAlone == /\ UNCHANGED <<events, event, pending, ran>>
              /\ \A w : ~ BeingDetached(w) \/ UNCHANGED ui
              /\ \A w : ~ BeingDetached(w)' \/ UNCHANGED ui

\* or processEvent() runs an event or drops what is left,
RunsOne == ProcessEvent /\ RunFirstLive
DropsNulled == ProcessEvent /\ DropNulled

\* or a widget is detached.
LEMMA StepKinds ==
  ASSUME [Next]_vars
  PROVE  \/ SchedulesOne
         \/ QueueAlone
         \/ RunsOne \/ DropsNulled
         \/ \E w \in Widgets : BeginDetach(w) \/ EndDetach(w)
<1>1. ASSUME NEW w \in Targets, UISchedules(w) PROVE SchedulesOne
  BY <1>1 DEF UISchedules, SchedulesOne
<1>2. ASSUME NEW w \in Widgets, Attach(w) PROVE QueueAlone
  BY <1>2 DEF Attach, QueueAlone
<1>3. ASSUME NEW t \in Joined, BeginJoin(t) \/ EndJoin(t) PROVE QueueAlone
  BY <1>3 DEF BeginJoin, EndJoin, QueueAlone, Idle, BeingDetached
<1>4. ASSUME NEW t \in Workers, NEW w \in Widgets, WidgetSchedule(t, w) PROVE SchedulesOne
  BY <1>4 DEF WidgetSchedule, SchedulesOne, Targets
<1>5. ASSUME NEW t \in Workers, RendererSchedule(t) PROVE SchedulesOne
  BY <1>5 DEF RendererSchedule, SchedulesOne, Targets
<1>6. ASSUME NEW t \in Workers, YieldToUIThread(t) PROVE SchedulesOne
  BY <1>6 DEF YieldToUIThread, SchedulesOne, Targets
<1>7. ASSUME NEW t \in Workers, End(t) PROVE QueueAlone
  BY <1>7 DEF End, QueueAlone
<1>9. ASSUME ProcessEvent PROVE RunsOne \/ DropsNulled
  BY <1>9 DEF ProcessEvent, RunsOne, DropsNulled
<1>8. ASSUME UNCHANGED vars PROVE QueueAlone
  BY <1>8 DEF vars, QueueAlone
<1>. QED
  BY <1>1, <1>2, <1>3, <1>4, <1>5, <1>6, <1>7, <1>8, <1>9 DEF Next, UINext, WorkerNext

-----------------------------------------------------------------------------
(* The order of events *)

LEMMA OrderInit == Init => OrderInv
BY DEF Init, OrderInv, TypeInv, Increasing, Behind, NulledOf

LEMMA ScheduleKeepsOrder == ASSUME OrderInv, SchedulesOne PROVE OrderInv'
<1>1. PICK w \in Targets, t \in Workers \cup {Dummy} : Schedule(w, t)
  BY DEF SchedulesOne
<1>2. UNCHANGED <<ui, ran>>
  BY DEF SchedulesOne
<1>. DEFINE new == [widget |-> w, waiter |-> t, live |-> TRUE, detached |-> FALSE]
<1>3. new \in EventRecords
  BY DEF EventRecords
<1>4. /\ event \in Seq(EventRecords)
      /\ event' = Append(event, new)
      /\ events' = Append(events, Len(event) + 1)
  BY <1>1 DEF Schedule, OrderInv, TypeInv
<1>5. TypeInv'
  <2>1. event' \in Seq(EventRecords) /\ Len(event') = Len(event) + 1
    BY <1>3, <1>4
  <2>2. events \in Seq(1..Len(event'))
    BY <2>1, <1>4 DEF OrderInv, TypeInv
  <2>. QED
    BY <1>2, <1>4, <2>1, <2>2 DEF OrderInv, TypeInv
<1>6. Increasing' /\ Behind'
  BY <1>2, <1>4 DEF OrderInv, TypeInv, Increasing, Behind
<1>7. NulledOf'
  <2>1. \A id \in DOMAIN event : event'[id] = event[id]
    BY <1>4
  <2>2. DOMAIN event' = DOMAIN event \cup {Len(event) + 1} /\ event'[Len(event) + 1] = new
    BY <1>4
  <2>. QED
    BY <1>2, <2>1, <2>2 DEF OrderInv, NulledOf, BeingDetached
<1>. QED
  BY <1>5, <1>6, <1>7 DEF OrderInv

LEMMA DropKeepsOrder == ASSUME OrderInv, DropsNulled PROVE OrderInv'
<1>1. events' = << >> /\ event' = event /\ ui' = ui /\ ran' = ran
  BY DEF DropsNulled, ProcessEvent, DropNulled
<1>2. TypeInv' /\ Increasing' /\ Behind'
  BY <1>1 DEF OrderInv, TypeInv, Increasing, Behind
<1>3. NulledOf'
  BY <1>1 DEF OrderInv, NulledOf, BeingDetached
<1>. QED
  BY <1>2, <1>3 DEF OrderInv

LEMMA ProcessKeepsOrder == ASSUME OrderInv, RunsOne PROVE OrderInv'
<1>1. PICK i \in FirstLive : /\ events' = SubSeq(events, i + 1, Len(events))
                             /\ ran' = ran \cup {events[i]}
  BY DEF RunsOne, RunFirstLive
<1>2. event' = event /\ ui' = ui
  BY DEF RunsOne, ProcessEvent
<1>3. i \in 1..Len(events) /\ events \in Seq(1..Len(event))
  BY DEF FirstLive, OrderInv, TypeInv
<1>4. /\ events' \in Seq(1..Len(event))
      /\ DOMAIN events' = 1..(Len(events) - i)
      /\ \A k \in DOMAIN events' : i + k \in DOMAIN events /\ events'[k] = events[i + k]
  BY <1>1, <1>3, SuffixFacts
<1>5. TypeInv'
  <2>1. events[i] \in 1..Len(event)
    BY <1>3
  <2>2. ran' \subseteq 1..Len(event)
    BY <1>1, <2>1 DEF OrderInv, TypeInv
  <2>. QED
    BY <1>2, <1>4, <2>2 DEF OrderInv, TypeInv
<1>6. Increasing'
  <2>. SUFFICES ASSUME NEW j \in DOMAIN events', NEW k \in DOMAIN events', j < k
                PROVE  events'[j] < events'[k]
    BY DEF Increasing
  <2>1. j \in Int /\ k \in Int /\ i \in Int
    BY <1>3, <1>4
  <2>2. i + j < i + k
    BY <2>1
  <2>. QED
    BY <1>4, <2>2 DEF OrderInv, Increasing
<1>7. Behind'
  BY <1>1, <1>3, <1>4 DEF OrderInv, Increasing, Behind
<1>8. NulledOf'
  BY <1>2 DEF OrderInv, NulledOf, BeingDetached
<1>. QED
  BY <1>5, <1>6, <1>7, <1>8 DEF OrderInv

\* What the two steps of a detachment do to the record of an event.
LEMMA DetachKeepsRecords ==
  ASSUME OrderInv, NEW w \in Widgets, BeginDetach(w) \/ EndDetach(w)
  PROVE  /\ event' \in Seq(EventRecords)
         /\ Len(event') = Len(event)
         /\ \A id \in DOMAIN event : event'[id].widget = event[id].widget
         /\ events' = events /\ ran' = ran
<1>1. event \in Seq(EventRecords) /\ DOMAIN event = 1..Len(event)
  BY DEF OrderInv, TypeInv
<1>2. \A id \in DOMAIN event : event[id] \in EventRecords
  BY <1>1
<1>3. CASE BeginDetach(w)
  <2>1. event' = [id \in DOMAIN event |->
                    IF id \in Nulled(w) THEN [event[id] EXCEPT !.live = FALSE] ELSE event[id]]
    BY <1>3 DEF BeginDetach, CancelEvents
  <2>2. \A id \in DOMAIN event : /\ event'[id] \in EventRecords
                                 /\ event'[id].widget = event[id].widget
    BY <1>2, <2>1 DEF EventRecords
  <2>3. event' \in Seq(EventRecords) /\ Len(event') = Len(event)
    BY <1>1, <2>1, <2>2
  <2>. QED
    BY <1>3, <2>2, <2>3 DEF BeginDetach, CancelEvents
<1>4. CASE EndDetach(w)
  <2>1. event' = [id \in DOMAIN event |->
                    IF event[id].widget = w THEN [event[id] EXCEPT !.detached = TRUE] ELSE event[id]]
    BY <1>4 DEF EndDetach
  <2>2. \A id \in DOMAIN event : /\ event'[id] \in EventRecords
                                 /\ event'[id].widget = event[id].widget
    BY <1>2, <2>1 DEF EventRecords
  <2>3. event' \in Seq(EventRecords) /\ Len(event') = Len(event)
    BY <1>1, <2>1, <2>2
  <2>. QED
    BY <1>4, <2>2, <2>3 DEF EndDetach
<1>. QED
  BY <1>3, <1>4

LEMMA DetachKeepsOrder ==
  ASSUME OrderInv, NEW w \in Widgets, BeginDetach(w) \/ EndDetach(w)
  PROVE  OrderInv'
<1>1. TypeInv' /\ Increasing' /\ Behind'
  BY DetachKeepsRecords DEF OrderInv, TypeInv, Increasing, Behind
<1>2. CASE BeginDetach(w)
  <2>1. \A id \in Nulled(w) : event[id].widget = w
    BY DEF Nulled
  <2>2. \A id \in DOMAIN event' : \/ event'[id] = event[id]
                                  \/ id \in Nulled(w) /\ event'[id].widget = w
    BY <1>2, <2>1, DetachKeepsRecords DEF BeginDetach, CancelEvents, OrderInv, TypeInv
  <2>3. ui = Idle /\ BeingDetached(w)'
    BY <1>2 DEF BeginDetach, BeingDetached
  <2>4. \A v : ~ BeingDetached(v)
    BY <2>3 DEF Idle, BeingDetached
  <2>5. DOMAIN event' = DOMAIN event
    BY <1>2 DEF BeginDetach, CancelEvents
  <2>. QED
    BY <1>1, <2>2, <2>3, <2>4, <2>5 DEF OrderInv, NulledOf
<1>3. CASE EndDetach(w)
  <2>1. \A id \in DOMAIN event' : IF event[id].widget = w THEN event'[id].detached
                                                          ELSE event'[id] = event[id]
    BY <1>3, DetachKeepsRecords DEF EndDetach, OrderInv, TypeInv, EventRecords
  <2>2. \A v : BeingDetached(v) => v = w
    BY <1>3 DEF EndDetach, BeingDetached
  <2>3. DOMAIN event' = DOMAIN event
    BY <1>3 DEF EndDetach
  <2>. QED
    BY <1>1, <2>1, <2>2, <2>3 DEF OrderInv, NulledOf
<1>. QED
  BY <1>2, <1>3

LEMMA OrderStep == ASSUME OrderInv, [Next]_vars PROVE OrderInv'
<1>1. CASE QueueAlone
  <2>1. TypeInv' /\ Increasing' /\ Behind'
    BY <1>1 DEF QueueAlone, OrderInv, TypeInv, Increasing, Behind
  <2>2. NulledOf'
    BY <1>1 DEF QueueAlone, OrderInv, NulledOf, BeingDetached
  <2>. QED
    BY <2>1, <2>2 DEF OrderInv
<1>. QED
  BY <1>1, StepKinds, ScheduleKeepsOrder, ProcessKeepsOrder, DropKeepsOrder, DetachKeepsOrder

\* Whatever workers schedule and widgets are detached, events are run in the
\* order they were scheduled in, and only those of detached widgets are nulled.
THEOREM OrderKept == Spec => []RunInOrder
<1>1. OrderInv => RunInOrder
  BY DEF OrderInv, Behind, NulledOf, RunInOrder, BeingDetached
<1>. QED
  BY OrderInit, OrderStep, <1>1, PTL DEF Spec
-----------------------------------------------------------------------------
(* The counters of pending events *)

\* What pending[w] ought to count.
EventsOf(w) == {id \in Queued : event[id].widget = w}

\* A widget that never had an event has none pending: detaching it changes
\* nothing.
CountInv == /\ Len(event) <= MaxEvents
            /\ pending \in [Targets -> Int]
            /\ PendingCounted
            /\ \A w \in Targets :
                 (\A id \in DOMAIN event : event[id].widget # w) => pending[w] = 0

LEMMA EventsOfFinite ==
  ASSUME OrderInv, NEW w
  PROVE  /\ EventsOf(w) \subseteq 1..Len(event)
         /\ IsFiniteSet(EventsOf(w))
         /\ Cardinality(EventsOf(w)) \in 0..Len(event)
<1>1. EventsOf(w) \subseteq 1..Len(event)
  BY DEF OrderInv, TypeInv, EventsOf, Queued
<1>2. Len(event) \in Nat
  BY DEF OrderInv, TypeInv
<1>3. IsFiniteSet(1..Len(event)) /\ Cardinality(1..Len(event)) <= Len(event)
  BY <1>2, FS_Interval
<1>4. IsFiniteSet(EventsOf(w)) /\ Cardinality(EventsOf(w)) <= Cardinality(1..Len(event))
  BY <1>1, <1>3, FS_Subset
<1>5. Cardinality(EventsOf(w)) \in Nat /\ Cardinality(1..Len(event)) \in Nat
  BY <1>3, <1>4, FS_CardinalityType
<1>. QED
  BY <1>1, <1>2, <1>3, <1>4, <1>5

\* The unsigned counter counts as an integer does.
LEMMA CountsUp == \A n \in 0..(Modulus - 1) : n % Modulus = n
BY WidgetsAssumption

LEMMA CountsDown == \A n \in 1..(Modulus - 1) : (n + Modulus - 1) % Modulus = n - 1
BY WidgetsAssumption

\* Where neither an event of w comes nor goes, its counter stays right.
LEMMA CountUntouched ==
  ASSUME PendingCounted, NEW w \in Targets, EventsOf(w)' = EventsOf(w), pending'[w] = pending[w],
         DetachedWithEvents(w) => DetachedWithEvents(w)'
  PROVE  ~ DetachedWithEvents(w)' => pending'[w] = Cardinality(EventsOf(w)')
BY DEF PendingCounted, EventsOf

LEMMA ScheduleCounts == ASSUME OrderInv, CountInv, SchedulesOne PROVE CountInv'
<1>1. PICK w \in Targets, t \in Workers \cup {Dummy} : Schedule(w, t)
  BY DEF SchedulesOne
<1>. DEFINE id == Len(event) + 1
            new == [widget |-> w, waiter |-> t, live |-> TRUE, detached |-> FALSE]
<1>2. /\ id \in Nat /\ id <= MaxEvents
      /\ event \in Seq(EventRecords) /\ event' = Append(event, new)
      /\ events \in Seq(1..Len(event)) /\ events' = Append(events, id)
      /\ pending' = [pending EXCEPT ![w] = (@ + 1) % Modulus]
      /\ pending \in [Targets -> Int]
  BY <1>1 DEF Schedule, OrderInv, TypeInv, CountInv
<1>3. /\ DOMAIN event' = DOMAIN event \cup {id} /\ id \notin DOMAIN event
      /\ \A k \in DOMAIN event : event'[k] = event[k]
      /\ event'[id] = new /\ Len(event') = id
  BY <1>2
<1>4. Queued' = Queued \cup {id} /\ Queued \subseteq DOMAIN event
  <2>1. /\ DOMAIN events' = DOMAIN events \cup {Len(events) + 1}
        /\ \A i \in DOMAIN events : events'[i] = events[i] /\ events[i] \in DOMAIN event
        /\ events'[Len(events) + 1] = id
    BY <1>2
  <2>. QED
    BY <2>1 DEF Queued
<1>5. EventsOf(w)' = EventsOf(w) \cup {id} /\ id \notin EventsOf(w)
  BY <1>3, <1>4 DEF EventsOf
<1>6. \A v \in Targets \ {w} : EventsOf(v)' = EventsOf(v) /\ pending'[v] = pending[v]
  BY <1>2, <1>3, <1>4 DEF EventsOf
<1>7. \A v \in Targets : DetachedWithEvents(v) => DetachedWithEvents(v)'
  BY <1>3 DEF SchedulesOne, DetachedWithEvents
<1>8. pending' \in [Targets -> Int]
  BY <1>2, WidgetsAssumption
<1>9. ASSUME ~ DetachedWithEvents(w)' PROVE pending'[w] = Cardinality(EventsOf(w)')
  <2>1. pending[w] = Cardinality(EventsOf(w))
    BY <1>7, <1>9 DEF CountInv, PendingCounted, EventsOf
  <2>2. Cardinality(EventsOf(w)') = Cardinality(EventsOf(w)) + 1
    BY <1>5, EventsOfFinite, FS_AddElement
  <2>3. Cardinality(EventsOf(w)) + 1 \in 0..(Modulus - 1)
    BY <1>2, EventsOfFinite, EventsAssumption, WidgetsAssumption
  <2>. QED
    BY <1>2, <2>1, <2>2, <2>3, CountsUp
<1>10. PendingCounted'
  BY <1>6, <1>7, <1>9, CountUntouched DEF CountInv, PendingCounted, EventsOf
<1>11. ASSUME NEW v \in Targets, \A k \in DOMAIN event' : event'[k].widget # v
       PROVE  pending'[v] = 0
  BY <1>3, <1>6, <1>11 DEF CountInv
<1>. QED
  BY <1>2, <1>3, <1>8, <1>10, <1>11 DEF CountInv

\* Nulled events are of widgets that were detached, so that none is counted.
LEMMA DropCounts == ASSUME OrderInv, CountInv, DropsNulled PROVE CountInv'
<1>1. /\ events' = << >> /\ event' = event /\ ui' = ui /\ ui = Idle /\ pending' = pending
      /\ \A i \in DOMAIN events : ~ Live(events[i])
  BY DEF DropsNulled, ProcessEvent, DropNulled
<1>2. events \in Seq(1..Len(event)) /\ event \in Seq(EventRecords)
  BY DEF OrderInv, TypeInv
<1>3. \A w : EventsOf(w)' = {}
  BY <1>1 DEF EventsOf, Queued
<1>4. ASSUME NEW w, ~ DetachedWithEvents(w) PROVE EventsOf(w) = {}
  BY <1>1, <1>2, <1>4 DEF EventsOf, Queued, Live, DetachedWithEvents, OrderInv, NulledOf, BeingDetached
<1>5. \A w : DetachedWithEvents(w)' = DetachedWithEvents(w)
  BY <1>1 DEF DetachedWithEvents
<1>6. PendingCounted'
  <2>. SUFFICES ASSUME NEW w \in Targets, ~ DetachedWithEvents(w)'
                PROVE  pending'[w] = Cardinality(EventsOf(w)')
    BY DEF PendingCounted, EventsOf
  <2>1. EventsOf(w) = EventsOf(w)'
    BY <1>3, <1>4, <1>5
  <2>. QED
    BY <1>1, <1>5, <2>1 DEF CountInv, PendingCounted, EventsOf
<1>. QED
  BY <1>1, <1>6 DEF CountInv

\* The event that runs is one of those counted, and those that are skipped belong
\* to widgets that were detached.
LEMMA ProcessCounts == ASSUME OrderInv, CountInv, RunsOne PROVE CountInv'
<1>1. PICK i \in FirstLive : /\ events' = SubSeq(events, i + 1, Len(events))
                             /\ pending' = CountOff(event[events[i]].widget)
  BY DEF RunsOne, RunFirstLive
<1>2. event' = event /\ ui' = ui /\ ui = Idle
  BY DEF RunsOne, ProcessEvent
<1>3. i \in 1..Len(events) /\ events \in Seq(1..Len(event)) /\ event \in Seq(EventRecords)
  BY DEF FirstLive, OrderInv, TypeInv
<1>. DEFINE id == events[i]
            w == event[id].widget
<1>4. id \in DOMAIN event /\ w \in Targets
  <2>1. id \in DOMAIN event
    BY <1>3
  <2>2. event[id] \in EventRecords
    BY <1>3, <2>1
  <2>. QED
    BY <2>1, <2>2 DEF EventRecords
<1>5. /\ DOMAIN events' = 1..(Len(events) - i)
      /\ \A k \in DOMAIN events' : i + k \in DOMAIN events /\ events'[k] = events[i + k]
  BY <1>1, <1>3, SuffixFacts
<1>6. \A k \in DOMAIN events : k > i => k - i \in DOMAIN events' /\ events'[k - i] = events[k]
  BY <1>3, <1>5
<1>7. Queued' \subseteq Queued /\ id \in Queued /\ id \notin Queued'
  <2>1. \A k \in DOMAIN events' : i < i + k
    BY <1>3, <1>5
  <2>2. ASSUME NEW k \in DOMAIN events' PROVE events[i] < events[i + k]
    <3>1. i \in DOMAIN events /\ i + k \in DOMAIN events /\ i < i + k
      BY <1>3, <1>5, <2>1
    <3>. QED
      BY <3>1 DEF OrderInv, Increasing
  <2>3. \A k \in DOMAIN events' : events'[k] # id
    BY <1>3, <1>5, <2>2
  <2>4. Queued' = {events'[k] : k \in DOMAIN events'}
    BY DEF Queued
  <2>. QED
    BY <1>3, <1>5, <2>3, <2>4 DEF Queued
<1>8. \A k \in Queued : k \in Queued' \/ k = id \/ ~ Live(k)
  <2>. SUFFICES ASSUME NEW j \in DOMAIN events
                PROVE  events[j] \in Queued' \/ j = i \/ ~ Live(events[j])
    BY DEF Queued
  <2>1. CASE j > i
    BY <1>6, <2>1 DEF Queued
  <2>2. CASE j < i
    BY <1>3, <2>2 DEF FirstLive
  <2>. QED
    BY <1>3, <2>1, <2>2
<1>9. \A v : DetachedWithEvents(v)' = DetachedWithEvents(v)
  BY <1>2 DEF DetachedWithEvents
<1>10. ASSUME NEW v \in Targets, ~ DetachedWithEvents(v)
       PROVE  \A k \in EventsOf(v) : Live(k)
  BY <1>2, <1>3, <1>10 DEF EventsOf, Queued, Live, DetachedWithEvents, OrderInv, NulledOf, BeingDetached
<1>11. ASSUME NEW v \in Targets, ~ DetachedWithEvents(v)
       PROVE  EventsOf(v)' = EventsOf(v) \ {id}
  BY <1>2, <1>7, <1>8, <1>10, <1>11 DEF EventsOf
<1>12. /\ pending' \in [Targets -> Int]
       /\ pending'[w] = (pending[w] + Modulus - 1) % Modulus
       /\ \A v \in Targets \ {w} : pending'[v] = pending[v]
  BY <1>1, <1>4, WidgetsAssumption DEF CountOff, CountInv
<1>13. ASSUME NEW v \in Targets, ~ DetachedWithEvents(v)
       PROVE  pending'[v] = Cardinality(EventsOf(v)')
  <2>1. pending[v] = Cardinality(EventsOf(v))
    BY <1>13 DEF CountInv, PendingCounted, EventsOf
  <2>2. CASE v # w
    <3>1. EventsOf(v)' = EventsOf(v)
      BY <1>11, <1>13, <2>2 DEF EventsOf
    <3>. QED
      BY <1>12, <2>1, <2>2, <3>1
  <2>3. CASE v = w
    <3>1. id \in EventsOf(v)
      BY <1>7, <2>3 DEF EventsOf
    <3>2. Cardinality(EventsOf(v)') = Cardinality(EventsOf(v)) - 1
      BY <1>11, <1>13, <3>1, EventsOfFinite, FS_RemoveElement
    <3>3. Cardinality(EventsOf(v)) # 0
      BY <3>1, EventsOfFinite, FS_EmptySet
    <3>4. Cardinality(EventsOf(v)) \in 1..(Modulus - 1)
      BY <3>3, <1>3, EventsOfFinite, EventsAssumption, WidgetsAssumption DEF CountInv
    <3>. QED
      BY <1>12, <2>1, <2>3, <3>2, <3>4, CountsDown
  <2>. QED
    BY <2>2, <2>3
<1>14. ASSUME NEW v \in Targets, \A k \in DOMAIN event' : event'[k].widget # v
       PROVE  pending'[v] = 0
  BY <1>2, <1>4, <1>12, <1>14 DEF CountInv
<1>. QED
  BY <1>2, <1>9, <1>12, <1>13, <1>14 DEF CountInv, PendingCounted, EventsOf

LEMMA BeginDetachCounts ==
  ASSUME OrderInv, CountInv, NEW w \in Widgets, BeginDetach(w)
  PROVE  CountInv'
<1>1. /\ Len(event') = Len(event) /\ DOMAIN event' = DOMAIN event
      /\ \A id \in DOMAIN event : event'[id].widget = event[id].widget
      /\ \A id \in DOMAIN event : event[id].detached => event'[id].detached
      /\ events' = events
  BY DetachKeepsRecords DEF BeginDetach, CancelEvents, OrderInv, TypeInv, EventRecords
<1>2. ui = Idle /\ BeingDetached(w)' /\ w \in Targets
  BY DEF BeginDetach, BeingDetached, Targets
<1>3. pending' = [pending EXCEPT ![w] = @ - Cardinality(Examined(w))] /\ pending \in [Targets -> Int]
  BY DEF BeginDetach, CancelEvents, CountInv
<1>4. Cardinality(Examined(w)) \in Nat
  <2>1. Examined(w) \subseteq 1..Len(events) /\ Len(events) \in Nat
    BY DEF Examined, OrderInv, TypeInv
  <2>2. IsFiniteSet(1..Len(events))
    BY <2>1, FS_Interval
  <2>3. IsFiniteSet(Examined(w))
    BY <2>1, <2>2, FS_Subset
  <2>. QED
    BY <2>3, FS_CardinalityType
<1>5. pending' \in [Targets -> Int] /\ \A v \in Targets \ {w} : pending'[v] = pending[v]
  BY <1>2, <1>3, <1>4
<1>6. \A v \in Targets : EventsOf(v)' = EventsOf(v)
  <2>1. Queued' = Queued /\ Queued \subseteq DOMAIN event
    BY <1>1 DEF Queued, OrderInv, TypeInv
  <2>. QED
    BY <1>1, <2>1 DEF EventsOf
<1>7. \A v \in Targets : DetachedWithEvents(v) => DetachedWithEvents(v)'
  BY <1>1, <1>2 DEF DetachedWithEvents, Idle
<1>8. DetachedWithEvents(w)'
  BY <1>2 DEF DetachedWithEvents, BeingDetached
<1>9. PendingCounted'
  BY <1>5, <1>6, <1>7, <1>8, CountUntouched DEF CountInv, PendingCounted, EventsOf
<1>10. ASSUME NEW v \in Targets, \A id \in DOMAIN event' : event'[id].widget # v
       PROVE  pending'[v] = 0
  <2>1. pending[v] = 0
    BY <1>1, <1>10 DEF CountInv
  <2>2. CASE v = w
    <3>1. Examined(w) = {}
      BY <2>1, <2>2 DEF Examined, OrderInv, TypeInv
    <3>. QED
      BY <1>2, <1>3, <2>1, <2>2, <3>1, FS_EmptySet
  <2>. QED
    BY <1>5, <2>1, <2>2
<1>. QED
  BY <1>1, <1>5, <1>9, <1>10 DEF CountInv

LEMMA EndDetachCounts ==
  ASSUME OrderInv, CountInv, NEW w \in Widgets, EndDetach(w)
  PROVE  CountInv'
<1>1. /\ Len(event') = Len(event) /\ DOMAIN event' = DOMAIN event
      /\ \A id \in DOMAIN event : event'[id].widget = event[id].widget
      /\ events' = events /\ pending' = pending
  BY DetachKeepsRecords DEF EndDetach
<1>2. \A id \in DOMAIN event : IF event[id].widget = w THEN event'[id].detached
                                                       ELSE event'[id] = event[id]
  BY <1>1, DetachKeepsRecords DEF EndDetach, OrderInv, TypeInv, EventRecords
<1>3. Queued' = Queued /\ Queued \subseteq DOMAIN event
  BY <1>1 DEF Queued, OrderInv, TypeInv
<1>4. \A v \in Targets : EventsOf(v)' = EventsOf(v)
  BY <1>1, <1>3 DEF EventsOf
<1>5. \A v \in Targets \ {w} : DetachedWithEvents(v) => DetachedWithEvents(v)'
  BY <1>1, <1>2 DEF EndDetach, DetachedWithEvents
<1>6. ASSUME ~ DetachedWithEvents(w)' PROVE pending[w] = Cardinality(EventsOf(w))
  <2>1. \A id \in DOMAIN event : event[id].widget # w
    BY <1>1, <1>2, <1>6 DEF DetachedWithEvents
  <2>2. EventsOf(w) = {}
    BY <1>3, <2>1 DEF EventsOf
  <2>3. pending[w] = 0
    BY <2>1 DEF CountInv, Targets
  <2>. QED
    BY <2>2, <2>3, FS_EmptySet
<1>7. PendingCounted'
  BY <1>1, <1>4, <1>5, <1>6, CountUntouched DEF CountInv, PendingCounted, EventsOf
<1>. QED
  BY <1>1, <1>7 DEF CountInv

LEMMA CountStep == ASSUME OrderInv, CountInv, [Next]_vars PROVE CountInv'
<1>1. CASE QueueAlone
  <2>1. UNCHANGED <<events, event, pending>>
    BY <1>1 DEF QueueAlone
  <2>2. \A v : DetachedWithEvents(v) => DetachedWithEvents(v)'
    BY <1>1, <2>1 DEF QueueAlone, DetachedWithEvents, BeingDetached
  <2>3. \A v : EventsOf(v)' = EventsOf(v)
    BY <2>1 DEF EventsOf, Queued
  <2>4. PendingCounted'
    BY <2>1, <2>2, <2>3, CountUntouched DEF CountInv, PendingCounted, EventsOf
  <2>. QED
    BY <2>1, <2>4 DEF CountInv
<1>. QED
  BY <1>1, StepKinds, ScheduleCounts, ProcessCounts, DropCounts, BeginDetachCounts, EndDetachCounts

LEMMA CountInit == Init => CountInv
<1>. SUFFICES ASSUME Init PROVE CountInv
  OBVIOUS
<1>1. \A w : EventsOf(w) = {}
  BY DEF Init, EventsOf, Queued
<1>2. PendingCounted
  BY <1>1, FS_EmptySet DEF Init, PendingCounted, EventsOf
<1>. QED
  BY <1>2, EventsAssumption DEF Init, CountInv

\* The counter of every widget that was not detached while events for it were
\* about, and always that of the renderer's own events, is the number of its
\* events in the queue: processEvent() and cancelEvents() never wrap it.
THEOREM PendingKept == Spec => []PendingCounted
<1>1. Init => OrderInv /\ CountInv
  BY OrderInit, CountInit
<1>2. OrderInv /\ CountInv /\ [Next]_vars => (OrderInv /\ CountInv)'
  BY OrderStep, CountStep
<1>3. CountInv => PendingCounted
  BY DEF CountInv
<1>. QED
  BY <1>1, <1>2, <1>3, PTL DEF Spec
=============================================================================
