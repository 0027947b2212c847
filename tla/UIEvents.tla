------------------------------ MODULE UIEvents ------------------------------
(***************************************************************************)
(* Events scheduled in the UI thread: ui/event_queue.h, Widget::schedule,  *)
(* Renderer::schedule, yieldToUIThread and detachWidget. Worker threads    *)
(* (readers of terminals, the repaint and autoscroll timers, the version   *)
(* checker) schedule events for widgets, or for the renderer's eventDummy_;*)
(* the UI thread runs them, attaches and detaches widgets, and, when it    *)
(* closes a session, joins that session's reader.                          *)
(* An event is named by its place in the order of scheduling.              *)
(***************************************************************************)
EXTENDS Integers, Sequences, FiniteSets

CONSTANTS Widgets,    \* the widgets of the renderer's tree
          Dummy,      \* eventDummy_, to which the renderer's own events belong
          Workers,    \* the threads other than the UI thread
          Joined,     \* the workers that the UI thread joins to end them
          Modulus,    \* pendingEvents_ is unsigned: 2^32, here smaller
          MaxEvents,  \* bound: the events scheduled
          MaxDetach   \* bound: the detachments begun

ASSUME WidgetsAssumption == /\ Dummy \notin Widgets
                            /\ Joined \subseteq Workers
                            /\ Modulus \in Nat \ {0}

\* No more events wait at any time than pendingEvents_ can count.
ASSUME EventsAssumption == MaxEvents \in Nat /\ MaxEvents < Modulus

VARIABLES
  events,     \* events_: the numbers of the scheduled events, first to run first
  event,      \* of each number, its widget, whether it is nulled, and for yields
              \* the thread that waits for it
  pending,    \* pendingEvents_ of each widget
  attached,   \* the widgets with a renderer_
  ui,         \* what the UI thread is in the middle of
  worker,     \* where each worker is
  ran,        \* history: the events whose handler has been called
  detachings  \* bound

vars == <<events, event, pending, attached, ui, worker, ran, detachings>>

Targets == Widgets \cup {Dummy}

Idle == [at |-> "idle"]

Init == /\ events = << >>
        /\ event = << >>
        /\ pending = [w \in Targets |-> 0]
        /\ attached = Widgets
        /\ ui = Idle
        /\ worker = [t \in Workers |-> "running"]
        /\ ran = {}
        /\ detachings = 0

-----------------------------------------------------------------------------
(* EventQueue; each of its functions holds eventsGuard_ *)

\* Mutant: the event is put where it will be run next.
Schedule_Front(w, waiter) ==
  LET id == Len(event) + 1 IN
  /\ id <= MaxEvents
  /\ event' = Append(event, [widget |-> w, waiter |-> waiter, live |-> TRUE,
                             detached |-> FALSE])
  /\ events' = <<id>> \o events
  /\ pending' = [pending EXCEPT ![w] = (@ + 1) % Modulus]

\* schedule(). Nothing but a yield has a waiter.
Schedule(w, waiter) ==
  LET id == Len(event) + 1 IN
  /\ id <= MaxEvents
  /\ event' = Append(event, [widget |-> w, waiter |-> waiter, live |-> TRUE,
                             detached |-> FALSE])
  /\ events' = Append(events, id)
  /\ pending' = [pending EXCEPT ![w] = (@ + 1) % Modulus]

Live(id) == event[id].live

\* The places in the queue at which cancelEvents(w) looks: one for each event
\* it believes to be pending, from the front.
Examined(w) == {i \in DOMAIN events : i <= pending[w]}

Nulled(w) == {events[i] : i \in {j \in Examined(w) : event[events[j]].widget = w}}

\* cancelEvents(): pendingEvents_ is decremented at every event of the queue,
\* not only at those of w, and the loop ends when it is zero or the queue ends.
CancelEvents(w) ==
  /\ event' = [id \in DOMAIN event |->
                 IF id \in Nulled(w) THEN [event[id] EXCEPT !.live = FALSE]
                                     ELSE event[id]]
  /\ pending' = [pending EXCEPT ![w] = @ - Cardinality(Examined(w))]
  /\ UNCHANGED events

\* Mutant: a nulled event ends the search.
FirstLive_Stops == {i \in DOMAIN events : i = 1 /\ Live(events[i])}

\* The place of the event that processEvent() runs: nulled ones are skipped.
FirstLive == {i \in DOMAIN events : /\ Live(events[i])
                                    /\ \A j \in 1..(i - 1) : ~ Live(events[j])}

-----------------------------------------------------------------------------
(* The UI thread *)

\* Mutant: the waiter is not notified.
Woken_Not(t) == worker

Woken(t) == IF t \in Workers THEN [worker EXCEPT ![t] = "running"] ELSE worker

\* Mutant: pendingEvents_ is left as it is.
CountOff_Not(w) == pending

CountOff(w) == [pending EXCEPT ![w] = (@ + Modulus - 1) % Modulus]

\* An event is run; the handler of a yield wakes its waiter. Other handlers do
\* what the UI thread may do at any time.
RunFirstLive ==
  \E i \in FirstLive :
    LET e == event[events[i]] IN
    /\ events' = SubSeq(events, i + 1, Len(events))
    /\ pending' = CountOff(e.widget)
    /\ ran' = ran \cup {events[i]}
    /\ worker' = Woken(e.waiter)

\* There are only nulled ones, which are taken from the queue.
DropNulled ==
  /\ events # << >>
  /\ \A i \in DOMAIN events : ~ Live(events[i])
  /\ events' = << >>
  /\ UNCHANGED <<pending, ran, worker>>

\* processEvent(), and the handler.
ProcessEvent ==
  /\ ui = Idle
  /\ RunFirstLive \/ DropNulled
  /\ UNCHANGED <<event, attached, ui, detachings>>

\* The UI thread schedules an event itself.
UISchedules(w) == /\ ui = Idle
                  /\ w \in attached \cup {Dummy}
                  /\ Schedule(w, Dummy)
                  /\ UNCHANGED <<attached, ui, worker, ran, detachings>>

\* detachWidget(): widgetDetached() cancels the widget's events first ...
BeginDetach(w) == /\ ui = Idle
                  /\ w \in attached
                  /\ detachings < MaxDetach
                  /\ detachings' = detachings + 1
                  /\ ui' = [at |-> "detaching", widget |-> w]
                  /\ CancelEvents(w)
                  /\ UNCHANGED <<attached, worker, ran>>

\* ... and renderer_ is reset under rendererGuard_ afterwards. From then on
\* the events of w that are still queued are those of a detached widget.
EndDetach(w) ==
  /\ ui = [at |-> "detaching", widget |-> w]
  /\ ui' = Idle
  /\ attached' = attached \ {w}
  /\ event' = [id \in DOMAIN event |->
                 IF event[id].widget = w THEN [event[id] EXCEPT !.detached = TRUE]
                                         ELSE event[id]]
  /\ UNCHANGED <<events, pending, worker, ran, detachings>>

\* The widget is attached again (a page of the pager, a dialog).
Attach(w) == /\ ui = Idle
             /\ w \in Widgets \ attached
             /\ attached' = attached \cup {w}
             /\ UNCHANGED <<events, event, pending, ui, worker, ran, detachings>>

\* terminatePty(): the UI thread waits for the reader to end.
BeginJoin(t) == /\ ui = Idle
                /\ t \in Joined
                /\ worker[t] # "ended"
                /\ ui' = [at |-> "joining", thread |-> t]
                /\ UNCHANGED <<events, event, pending, attached, worker, ran,
                               detachings>>

EndJoin(t) == /\ ui = [at |-> "joining", thread |-> t]
              /\ worker[t] = "ended"
              /\ ui' = Idle
              /\ UNCHANGED <<events, event, pending, attached, worker, ran,
                             detachings>>

-----------------------------------------------------------------------------
(* The workers *)

\* Widget::schedule(), all of it under rendererGuard_: without a renderer the
\* event is dropped.
WidgetSchedule(t, w) == /\ worker[t] = "running"
                        /\ w \in attached
                        /\ Schedule(w, Dummy)
                        /\ UNCHANGED <<attached, ui, worker, ran, detachings>>

\* Renderer::schedule(event)
RendererSchedule(t) == /\ worker[t] = "running"
                       /\ Schedule(Dummy, Dummy)
                       /\ UNCHANGED <<attached, ui, worker, ran, detachings>>

\* yieldToUIThread(): yieldGuard_ is held from before the event is scheduled
\* until the wait, so the handler cannot come between.
YieldToUIThread(t) == /\ worker[t] = "running"
                      /\ Schedule(Dummy, t)
                      /\ worker' = [worker EXCEPT ![t] = "yielding"]
                      /\ UNCHANGED <<attached, ui, ran, detachings>>

\* A reader whose pty has been terminated leaves its loop.
End(t) == /\ ui = [at |-> "joining", thread |-> t]
          /\ worker[t] = "running"
          /\ worker' = [worker EXCEPT ![t] = "ended"]
          /\ UNCHANGED <<events, event, pending, attached, ui, ran, detachings>>

-----------------------------------------------------------------------------
UINext == \/ ProcessEvent
          \/ \E w \in Targets : UISchedules(w)
          \/ \E w \in Widgets : BeginDetach(w) \/ EndDetach(w) \/ Attach(w)
          \/ \E t \in Joined : BeginJoin(t) \/ EndJoin(t)

WorkerNext(t) == \/ \E w \in Widgets : WidgetSchedule(t, w)
                 \/ RendererSchedule(t)
                 \/ YieldToUIThread(t)
                 \/ End(t)

Next == UINext \/ \E t \in Workers : WorkerNext(t)

Spec == Init /\ [][Next]_vars

\* The main loop goes on processing events, detachWidget() comes to its end,
\* and so do a terminated reader and the join that waits for it.
Fairness == /\ WF_vars(ProcessEvent)
            /\ \A w \in Widgets : WF_vars(EndDetach(w))
            /\ \A t \in Workers : WF_vars(End(t)) /\ WF_vars(EndJoin(t))

FairSpec == Spec /\ Fairness

-----------------------------------------------------------------------------
(* Properties *)

Queued == {events[i] : i \in DOMAIN events}

\* Events run in the order they were scheduled in, each at most once: when the
\* UI thread has run one, none that came before it is still to be run. Hence a
\* reader that returns from yieldToUIThread() knows that all it has scheduled
\* before has been dealt with. And an event is nulled only if its own widget was
\* being detached: those of the other widgets, and the renderer's own, stay.
RunInOrder ==
  /\ \A i \in DOMAIN events : Live(events[i]) => \A id \in ran : id < events[i]
  /\ \A id \in DOMAIN event : ~ event[id].live =>
       \/ event[id].detached
       \/ ui = [at |-> "detaching", widget |-> event[id].widget]

\* pendingEvents_ is right as long as the widget was not detached with events
\* pending; always so for the dummy, whose events are never cancelled.
DetachedWithEvents(w) == \/ ui = [at |-> "detaching", widget |-> w]
                         \/ \E id \in DOMAIN event : /\ event[id].widget = w
                                                     /\ event[id].detached

PendingCounted ==
  \A w \in Targets : ~ DetachedWithEvents(w) =>
    pending[w] = Cardinality({id \in Queued : event[id].widget = w})

\* The one way for the UI thread to stop: it joins a reader that is waiting
\* for it.
Stuck == \E t \in Joined : /\ ui = [at |-> "joining", thread |-> t]
                          /\ worker[t] = "yielding"

Awaited(id) == id \in Queued /\ Live(id)

\* Unless the UI thread stops no event waits in the queue for ever (it is run, or
\* its widget is detached), ...
EventsRun == \A id \in 1..MaxEvents : Awaited(id) ~> (~ Awaited(id) \/ Stuck)

\* ... and a worker comes back from yieldToUIThread().
YieldsReturn == \A t \in Workers :
                  (worker[t] = "yielding") ~> (worker[t] # "yielding" \/ Stuck)
=============================================================================
