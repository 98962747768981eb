---------------------------- MODULE EventStream ----------------------------
(***************************************************************************)
(* What a session promises the Python program, with no threads, registry   *)
(* or channel: the first callback carries the session's own device, every  *)
(* later one the next subscribed event of that session, in the order in    *)
(* which the event handler accepted them, none of them twice and none left *)
(* out, and at most Capacity accepted events are waiting.                  *)
(***************************************************************************)
EXTENDS Naturals, Sequences

CONSTANTS
  Session,      \* the sessions
  Kind,         \* the kinds of events
  Me,           \* the kind of the first callback
  subscribers,  \* the kinds each session subscribed to
  Capacity      \* how many accepted events may wait

VARIABLES
  sent,         \* the events accepted for each session
  delivered     \* the callbacks made for each session

\* The number of accepted events that were handed to Python.
Received(s) == IF delivered[s] = <<>> THEN 0 ELSE Len(delivered[s]) - 1

Init ==
  /\ sent = [s \in Session |-> <<>>]
  /\ delivered = [s \in Session |-> <<>>]

Introduce(s) ==
  /\ delivered[s] = <<>>
  /\ delivered' = [delivered EXCEPT ![s] = <<[src |-> s, kind |-> Me]>>]
  /\ UNCHANGED sent

Accept(s, k) ==
  /\ k \in subscribers[s]
  /\ Len(sent[s]) - Received(s) < Capacity
  /\ sent' = [sent EXCEPT ![s] = Append(@, [src |-> s, kind |-> k])]
  /\ UNCHANGED delivered

Deliver(s) ==
  /\ delivered[s] # <<>>
  /\ Received(s) < Len(sent[s])
  /\ delivered' = [delivered EXCEPT ![s] = Append(@, sent[s][Received(s) + 1])]
  /\ UNCHANGED sent

\* Accepted and delivered at once, when nothing else is waiting.
PassOn(s, k) ==
  /\ k \in subscribers[s]
  /\ delivered[s] # <<>>
  /\ Received(s) = Len(sent[s])
  /\ sent' = [sent EXCEPT ![s] = Append(@, [src |-> s, kind |-> k])]
  /\ delivered' = [delivered EXCEPT ![s] = Append(@, [src |-> s, kind |-> k])]

Next ==
  \E s \in Session :
    \/ Introduce(s)
    \/ Deliver(s)
    \/ \E k \in Kind : Accept(s, k) \/ PassOn(s, k)

Spec == Init /\ [][Next]_<<sent, delivered>>
=============================================================================
