---------------------------- MODULE StreamProofs ----------------------------
(***************************************************************************)
(* Sessions whose application keeps them apart implement EventStream: what *)
(* Python sees of each is its device and then its subscribed events, each  *)
(* once and in order.  The application keeps them apart either by uuids of *)
(* their own (ClientFactory.new_client asks for one) or by reusing a uuid  *)
(* only after the previous connect and every Stop have returned.           *)
(*                                                                         *)
(* ThreadInv is about the threads: of the sessions with one uuid at most   *)
(* one is running, it finds only its own entries in the registries, and    *)
(* its loop runs once its device was handed over.  It makes every step of  *)
(* Session one of the steps of StreamStep, which speak of nothing but what *)
(* was sent, what waits and what was delivered.                            *)
(*                                                                         *)
(* QueueInv is about those three: what was delivered, followed by what     *)
(* waits, is what was sent.  It makes every StreamStep a step of           *)
(* EventStream.                                                            *)
(*                                                                         *)
(* StopInv, at the end, follows a Stop through the registries to show      *)
(* which loops can receive the nil message of a closed channel.            *)
(***************************************************************************)
EXTENDS SessionProofs, SequenceTheorems

USE SessionAssumption

-----------------------------------------------------------------------------
\* The application keeps its sessions apart in one of the two ways.
SeparateSessions == DistinctUuids \/ Serial

\* A session from its first step in Neonize to its return.
Running(s) == pc[s] \notin {"start", "returned"}

\* The places after the three writes to the registries.
Entered == {"registered"} \cup Login \cup Fetch \cup Loop

\* Of the sessions with one uuid at most one is running.
Exclusive ==
  \A s, t \in Session :
    Running(s) /\ Running(t) /\ uuidOf[s] = uuidOf[t] => s = t

\* Once it has written its entries, a running session finds itself or nothing
\* under its uuid.
OwnRegistries ==
  \A s \in Session :
    /\ Running(s) /\ pc[s] # "signalled"
         => eventChannel[uuidOf[s]] \in {None, s}
    /\ pc[s] \in Entered => clients[uuidOf[s]] \in {None, s}

OwnLocals ==
  \A s \in Session : channel[s] \in {None, s} /\ device[s] \in {None, s}

\* The loop runs only after the first callback.
Introduced ==
  \A s \in Session :
    delivered[s] # <<>> <=> pc[s] \in Loop \cup {"returned"}

JobsSubscribed ==
  \A g \in Goroutine :
    Sending(g) => handler[g].kind \in subscribers[handler[g].src]

ThreadInv ==
  Exclusive /\ OwnRegistries /\ OwnLocals /\ Introduced /\ JobsSubscribed

\* The history z of what was sent is what was delivered after the device,
\* n events of d, and what waits in q.
Splits(z, n, d, q) ==
  /\ Len(z) = n + Len(q)
  /\ \A i \in 1..n : d[i + 1] = z[i]
  /\ \A i \in 1..Len(q) : q[i] = z[n + i]

SentOwn(s) ==
  \A i \in 1..Len(sent[s]) :
    sent[s][i].src = s /\ sent[s][i].kind \in subscribers[s]

DeviceCameFirst(s) ==
  delivered[s] # <<>> => delivered[s][1] = [src |-> s, kind |-> Me]

OneQueue(s) ==
  /\ SentOwn(s)
  /\ DeviceCameFirst(s)
  /\ Len(queue[s]) <= Capacity
  /\ Splits(sent[s], Received(s), delivered[s], queue[s])

QueueInv == \A s \in Session : OneQueue(s)

-----------------------------------------------------------------------------
(***************************************************************************)
(* What a step of Session can do to the events.                            *)
(***************************************************************************)
IntroduceStep(s) ==
  /\ delivered[s] = <<>>
  /\ delivered' = [delivered EXCEPT ![s] =
                     Append(@, [src |-> s, kind |-> Me])]
  /\ UNCHANGED <<sent, queue>>

AcceptStep(s, k) ==
  /\ Len(queue[s]) < Capacity
  /\ queue' = [queue EXCEPT ![s] = Append(@, [src |-> s, kind |-> k])]
  /\ sent' = [sent EXCEPT ![s] = Append(@, [src |-> s, kind |-> k])]
  /\ UNCHANGED delivered

PassOnStep(s, k) ==
  /\ delivered[s] # <<>>
  /\ queue[s] = <<>>
  /\ sent' = [sent EXCEPT ![s] = Append(@, [src |-> s, kind |-> k])]
  /\ delivered' = [delivered EXCEPT ![s] = Append(@, [src |-> s, kind |-> k])]
  /\ UNCHANGED queue

DeliverStep(s) ==
  /\ delivered[s] # <<>>
  /\ queue[s] # <<>>
  /\ delivered' = [delivered EXCEPT ![s] = Append(@, Head(queue[s]))]
  /\ queue' = [queue EXCEPT ![s] = Tail(@)]
  /\ UNCHANGED sent

StreamStep ==
  \/ UNCHANGED <<sent, queue, delivered>>
  \/ \E s \in Session : IntroduceStep(s) \/ DeliverStep(s)
  \/ \E s \in Session : \E k \in subscribers[s] :
       AcceptStep(s, k) \/ PassOnStep(s, k)

-----------------------------------------------------------------------------
(***************************************************************************)
(* The second layer: the queue invariant and the promise.                  *)
(***************************************************************************)

\* A session's own history splits into what was delivered and what waits.
LEMMA ReceivedType ==
  ASSUME TypeOK, NEW s \in Session
  PROVE  /\ Received(s) \in Nat
         /\ delivered[s] = <<>> => Received(s) = 0
         /\ delivered[s] # <<>> => Len(delivered[s]) = Received(s) + 1
  BY DEF TypeOK, Received, Promise!Received

LEMMA SplitsAccept ==
  ASSUME NEW E, NEW z \in Seq(E), NEW q \in Seq(E), NEW n \in Nat, NEW d,
         Splits(z, n, d, q), NEW e \in E
  PROVE  Splits(Append(z, e), n, d, Append(q, e))
<1>1. Len(z) = n + Len(q) /\ Len(q) \in Nat
  BY DEF Splits
<1>2. \A i \in 1..n : d[i + 1] = Append(z, e)[i]
  BY <1>1 DEF Splits
<1>3. ASSUME NEW i \in 1..Len(Append(q, e))
      PROVE  Append(q, e)[i] = Append(z, e)[n + i]
  <2>1. CASE i = Len(q) + 1
    BY <1>1, <2>1
  <2>2. CASE i \in 1..Len(q)
    <3>1. Append(q, e)[i] = q[i] /\ q[i] = z[n + i]
      BY <2>2 DEF Splits
    <3>2. n + i \in 1..Len(z)
      BY <1>1, <2>2
    <3>3. Append(z, e)[n + i] = z[n + i]
      BY <3>2, AppendProperties
    <3> QED
      BY <3>1, <3>3
  <2>3. i = Len(q) + 1 \/ i \in 1..Len(q)
    BY <1>1
  <2> QED
    BY <2>1, <2>2, <2>3
<1>4. Len(Append(z, e)) = n + Len(Append(q, e))
  <2>1. Len(Append(z, e)) = Len(z) + 1 /\ Len(Append(q, e)) = Len(q) + 1
    BY AppendProperties
  <2> QED
    BY <1>1, <2>1
<1> QED
  BY <1>2, <1>3, <1>4 DEF Splits

LEMMA SplitsDeliver ==
  ASSUME NEW E, NEW z \in Seq(E), NEW q \in Seq(E), NEW d \in Seq(E),
         NEW n \in Nat, Len(d) = n + 1,
         Splits(z, n, d, q), q # <<>>
  PROVE  /\ Splits(z, n + 1, Append(d, Head(q)), Tail(q))
         /\ Head(q) = z[n + 1]
         /\ n < Len(z)
<1>1. /\ Len(z) = n + Len(q) /\ Len(q) \in Nat \ {0}
      /\ Head(q) \in E /\ Head(q) = q[1]
      /\ Tail(q) \in Seq(E) /\ Len(Tail(q)) = Len(q) - 1
      /\ \A i \in 1..Len(Tail(q)) : Tail(q)[i] = q[i + 1]
  BY DEF Splits
<1>2. Head(q) = z[n + 1]
  BY <1>1 DEF Splits
<1>3. \A i \in 1..(n + 1) : Append(d, Head(q))[i + 1] = z[i]
  <2>1. ASSUME NEW i \in 1..n
        PROVE  Append(d, Head(q))[i + 1] = z[i]
    BY <1>1 DEF Splits
  <2>2. Append(d, Head(q))[(n + 1) + 1] = z[n + 1]
    BY <1>1, <1>2
  <2> QED
    BY <2>1, <2>2
<1>4. ASSUME NEW i \in 1..Len(Tail(q))
      PROVE  Tail(q)[i] = z[(n + 1) + i]
  <2>1. i + 1 \in 1..Len(q) /\ n + (i + 1) = (n + 1) + i
    BY <1>1
  <2>2. q[i + 1] = z[n + (i + 1)]
    BY <2>1 DEF Splits
  <2> QED
    BY <1>1, <2>1, <2>2
<1> QED
  BY <1>1, <1>2, <1>3, <1>4 DEF Splits

LEMMA SplitsPassOn ==
  ASSUME NEW E, NEW z \in Seq(E), NEW d \in Seq(E), NEW n \in Nat,
         Len(d) = n + 1, Splits(z, n, d, <<>>), NEW e \in E
  PROVE  /\ Splits(Append(z, e), n + 1, Append(d, e), <<>>)
         /\ Len(z) = n
<1>1. Len(z) = n
  BY DEF Splits
<1>2. ASSUME NEW i \in 1..(n + 1)
      PROVE  Append(d, e)[i + 1] = Append(z, e)[i]
  <2>1. CASE i \in 1..n
    <3>1. d[i + 1] = z[i]
      BY <2>1 DEF Splits
    <3>2. Append(d, e)[i + 1] = d[i + 1] /\ Append(z, e)[i] = z[i]
      BY <1>1, <2>1
    <3> QED
      BY <3>1, <3>2
  <2>2. CASE i = n + 1
    BY <1>1, <2>2
  <2>3. i \in 1..n \/ i = n + 1
    OBVIOUS
  <2> QED
    BY <2>1, <2>2, <2>3
<1> QED
  BY <1>1, <1>2 DEF Splits
-----------------------------------------------------------------------------
\* A step that touches the events of one session only.
LEMMA QueueInvLocal ==
  ASSUME QueueInv, NEW s \in Session, OneQueue(s)',
         \A t \in Session \ {s} : /\ sent'[t] = sent[t]
                                  /\ queue'[t] = queue[t]
                                  /\ delivered'[t] = delivered[t]
  PROVE  QueueInv'
<1>1. ASSUME NEW t \in Session, t # s
      PROVE  OneQueue(t)'
  <2>1. sent'[t] = sent[t] /\ queue'[t] = queue[t] /\ delivered'[t] = delivered[t]
    BY <1>1
  <2>2. OneQueue(t)
    BY DEF QueueInv
  <2>3. Received(t)' = Received(t)
    BY <2>1 DEF Received, Promise!Received
  <2>4. SentOwn(t)' /\ DeviceCameFirst(t)' /\ (Len(queue[t]) <= Capacity)'
    BY <2>1, <2>2 DEF OneQueue, SentOwn, DeviceCameFirst
  <2>5. Splits(sent[t], Received(t), delivered[t], queue[t])'
    BY <2>1, <2>2, <2>3 DEF OneQueue
  <2> QED
    BY <2>4, <2>5 DEF OneQueue
<1> QED
  BY <1>1 DEF QueueInv

LEMMA QueueInvIntroduce ==
  ASSUME TypeOK, QueueInv, NEW s \in Session, IntroduceStep(s)
  PROVE  QueueInv'
<1>1. /\ delivered'[s] = <<[src |-> s, kind |-> Me]>>
      /\ \A t \in Session \ {s} : delivered'[t] = delivered[t]
      /\ UNCHANGED <<sent, queue>>
  BY DEF IntroduceStep, TypeOK
<1>2. Received(s) = 0 /\ Received(s)' = 0
  BY <1>1, ReceivedType DEF IntroduceStep, Received, Promise!Received
<1>3. Splits(sent[s], Received(s), delivered[s], queue[s])'
  BY <1>1, <1>2 DEF QueueInv, OneQueue, Splits
<1>4. OneQueue(s)'
  BY <1>1, <1>3 DEF QueueInv, OneQueue, SentOwn, DeviceCameFirst
<1> QED
  BY <1>1, <1>4, QueueInvLocal

\* What both kinds of sending do to the history of a session.
LEMMA SentOwnAppend ==
  ASSUME TypeOK, NEW s \in Session, NEW k \in subscribers[s], SentOwn(s),
         sent'[s] = Append(sent[s], [src |-> s, kind |-> k])
  PROVE  SentOwn(s)'
<1> DEFINE e == [src |-> s, kind |-> k]
<1>1. e \in Event /\ e.src = s /\ e.kind = k /\ sent[s] \in Seq(Event)
  BY DEF Event, TypeOK
<1> HIDE DEF e
<1>2. /\ Len(sent'[s]) = Len(sent[s]) + 1
      /\ \A i \in 1..Len(sent[s]) : sent'[s][i] = sent[s][i]
      /\ sent'[s][Len(sent[s]) + 1] = e
  BY <1>1, AppendProperties DEF e
<1>3. ASSUME NEW i \in 1..Len(sent'[s])
      PROVE  sent'[s][i].src = s /\ sent'[s][i].kind \in subscribers[s]
  <2>1. CASE i = Len(sent[s]) + 1
    BY <1>1, <1>2, <2>1
  <2>2. CASE i \in 1..Len(sent[s])
    BY <1>2, <2>2 DEF SentOwn
  <2>3. i = Len(sent[s]) + 1 \/ i \in 1..Len(sent[s])
    BY <1>1, <1>2
  <2> QED
    BY <2>1, <2>2, <2>3
<1> QED
  BY <1>3 DEF SentOwn

LEMMA QueueInvAccept ==
  ASSUME TypeOK, QueueInv, NEW s \in Session, NEW k \in subscribers[s],
         AcceptStep(s, k)
  PROVE  QueueInv'
<1> DEFINE e == [src |-> s, kind |-> k]
<1>1. e \in Event
  BY DEF Event
<1>2. /\ sent[s] \in Seq(Event) /\ queue[s] \in Seq(Event)
      /\ sent'[s] = Append(sent[s], e) /\ queue'[s] = Append(queue[s], e)
      /\ \A t \in Session \ {s} : sent'[t] = sent[t] /\ queue'[t] = queue[t]
      /\ delivered' = delivered
  BY DEF AcceptStep, TypeOK
<1> HIDE DEF e
<1>3. Received(s) \in Nat /\ Received(s)' = Received(s)
  BY <1>2, ReceivedType DEF Received, Promise!Received
<1>4. Splits(sent[s], Received(s), delivered[s], queue[s])'
  BY <1>1, <1>2, <1>3, SplitsAccept DEF QueueInv, OneQueue
<1>5. Len(queue'[s]) <= Capacity
  BY <1>1, <1>2, AppendProperties DEF AcceptStep
<1>6. SentOwn(s)' /\ DeviceCameFirst(s)'
  BY <1>2, SentOwnAppend DEF QueueInv, OneQueue, DeviceCameFirst, e
<1>7. OneQueue(s)'
  BY <1>4, <1>5, <1>6 DEF OneQueue
<1> QED
  BY <1>2, <1>7, QueueInvLocal

LEMMA QueueInvPassOn ==
  ASSUME TypeOK, QueueInv, NEW s \in Session, NEW k \in subscribers[s],
         PassOnStep(s, k)
  PROVE  QueueInv'
<1> DEFINE e == [src |-> s, kind |-> k]
<1>1. e \in Event
  BY DEF Event
<1>2. /\ sent[s] \in Seq(Event) /\ delivered[s] \in Seq(Event)
      /\ sent'[s] = Append(sent[s], e)
      /\ delivered'[s] = Append(delivered[s], e)
      /\ \A t \in Session \ {s} : /\ sent'[t] = sent[t]
                                  /\ delivered'[t] = delivered[t]
      /\ queue' = queue /\ queue[s] = <<>> /\ delivered[s] # <<>>
  BY DEF PassOnStep, TypeOK
<1> HIDE DEF e
<1>3. /\ Received(s) \in Nat /\ Len(delivered[s]) = Received(s) + 1
      /\ Received(s)' = Received(s) + 1
  <2>1. Received(s) \in Nat /\ Len(delivered[s]) = Received(s) + 1
    BY <1>2, ReceivedType
  <2>2. delivered'[s] # <<>> /\ Len(delivered'[s]) = Len(delivered[s]) + 1
    BY <1>1, <1>2, AppendProperties
  <2> QED
    BY <2>1, <2>2 DEF Received, Promise!Received
<1>4. Splits(sent[s], Received(s), delivered[s], queue[s])'
  BY <1>1, <1>2, <1>3, SplitsPassOn DEF QueueInv, OneQueue
<1>5. DeviceCameFirst(s)'
  <2>1. delivered'[s][1] = delivered[s][1]
    BY <1>1, <1>2, <1>3, AppendProperties
  <2> QED
    BY <1>2, <2>1 DEF QueueInv, OneQueue, DeviceCameFirst
<1>6. SentOwn(s)'
  BY <1>2, SentOwnAppend DEF QueueInv, OneQueue, e
<1>7. OneQueue(s)'
  BY <1>2, <1>4, <1>5, <1>6 DEF QueueInv, OneQueue
<1> QED
  BY <1>2, <1>7, QueueInvLocal

LEMMA QueueInvDeliver ==
  ASSUME TypeOK, QueueInv, NEW s \in Session, DeliverStep(s)
  PROVE  QueueInv'
<1>1. /\ delivered[s] \in Seq(Event) /\ queue[s] \in Seq(Event)
      /\ sent[s] \in Seq(Event)
      /\ delivered'[s] = Append(delivered[s], Head(queue[s]))
      /\ queue'[s] = Tail(queue[s])
      /\ \A t \in Session \ {s} : /\ queue'[t] = queue[t]
                                  /\ delivered'[t] = delivered[t]
      /\ sent' = sent /\ queue[s] # <<>> /\ delivered[s] # <<>>
  BY DEF DeliverStep, TypeOK
<1>2. /\ Head(queue[s]) \in Event
      /\ Len(queue'[s]) = Len(queue[s]) - 1
  BY <1>1, HeadTailProperties
<1>3. /\ Received(s) \in Nat /\ Len(delivered[s]) = Received(s) + 1
      /\ Received(s)' = Received(s) + 1
  <2>1. Received(s) \in Nat /\ Len(delivered[s]) = Received(s) + 1
    BY <1>1, ReceivedType
  <2>2. delivered'[s] # <<>> /\ Len(delivered'[s]) = Len(delivered[s]) + 1
    BY <1>1, <1>2, AppendProperties
  <2> QED
    BY <2>1, <2>2 DEF Received, Promise!Received
<1>4. Splits(sent[s], Received(s), delivered[s], queue[s])'
  <2>1. Splits(sent[s], Received(s), delivered[s], queue[s])
    BY DEF QueueInv, OneQueue
  <2>2. Splits(sent[s], Received(s) + 1, Append(delivered[s], Head(queue[s])),
               Tail(queue[s]))
    BY <1>1, <1>3, <2>1, SplitsDeliver
  <2> QED
    BY <1>1, <1>3, <2>2
<1>5. DeviceCameFirst(s)'
  <2>1. delivered'[s][1] = delivered[s][1]
    BY <1>1, <1>2, <1>3, AppendProperties
  <2> QED
    BY <1>1, <2>1 DEF QueueInv, OneQueue, DeviceCameFirst
<1>6. SentOwn(s)' /\ Len(queue'[s]) <= Capacity
  BY <1>1, <1>2 DEF QueueInv, OneQueue, SentOwn
<1>7. OneQueue(s)'
  BY <1>4, <1>5, <1>6 DEF OneQueue
<1> QED
  BY <1>1, <1>7, QueueInvLocal

LEMMA QueueInvStep == TypeOK /\ QueueInv /\ StreamStep => QueueInv'
<1>1. ASSUME QueueInv, UNCHANGED <<sent, queue, delivered>>
      PROVE  QueueInv'
  BY <1>1 DEF QueueInv, OneQueue, SentOwn, DeviceCameFirst, Received,
     Promise!Received
<1> QED
  BY <1>1, QueueInvIntroduce, QueueInvAccept, QueueInvPassOn, QueueInvDeliver
     DEF StreamStep

\* Under the queue invariant every StreamStep is one EventStream allows.
LEMMA StreamStepKeepsPromise ==
  ASSUME TypeOK, QueueInv, StreamStep
  PROVE  [Promise!Next]_<<sent, delivered>>
<1>1. ASSUME NEW s \in Session, IntroduceStep(s)
      PROVE  Promise!Introduce(s)
  <2>1. Append(delivered[s], [src |-> s, kind |-> Me])
          = <<[src |-> s, kind |-> Me]>>
    BY <1>1 DEF IntroduceStep
  <2> QED
    BY <1>1, <2>1 DEF IntroduceStep, Promise!Introduce
<1>2. ASSUME NEW s \in Session, DeliverStep(s)
      PROVE  Promise!Deliver(s)
  <2>1. /\ sent[s] \in Seq(Event) /\ queue[s] \in Seq(Event)
        /\ delivered[s] \in Seq(Event)
        /\ queue[s] # <<>> /\ delivered[s] # <<>>
    BY <1>2 DEF TypeOK, DeliverStep
  <2>2. /\ Received(s) \in Nat /\ Len(delivered[s]) = Received(s) + 1
        /\ Splits(sent[s], Received(s), delivered[s], queue[s])
    BY <2>1, ReceivedType DEF QueueInv, OneQueue
  <2>3. /\ Head(queue[s]) = sent[s][Received(s) + 1]
        /\ Received(s) < Len(sent[s])
    BY <2>1, <2>2, SplitsDeliver
  <2> QED
    BY <1>2, <2>1, <2>3 DEF DeliverStep, Promise!Deliver, Received
<1>3. ASSUME NEW s \in Session, NEW k \in subscribers[s]
      PROVE  k \in Kind
  OBVIOUS
<1>4. ASSUME NEW s \in Session, NEW k \in subscribers[s], AcceptStep(s, k)
      PROVE  Promise!Accept(s, k)
  <2>1. Len(sent[s]) - Received(s) = Len(queue[s])
    BY ReceivedType DEF QueueInv, OneQueue, Splits, TypeOK
  <2> QED
    BY <1>4, <2>1 DEF AcceptStep, Promise!Accept, Received
<1>5. ASSUME NEW s \in Session, NEW k \in subscribers[s], PassOnStep(s, k)
      PROVE  Promise!PassOn(s, k)
  <2>1. Received(s) = Len(sent[s])
    BY <1>5, ReceivedType DEF PassOnStep, QueueInv, OneQueue, Splits
  <2> QED
    BY <1>5, <2>1 DEF PassOnStep, Promise!PassOn, Received
<1> QED
  BY <1>1, <1>2, <1>3, <1>4, <1>5 DEF StreamStep, Promise!Next

-----------------------------------------------------------------------------
(***************************************************************************)
(* The first layer: every step of Session is a StreamStep.                 *)
(***************************************************************************)

\* A step that moves only sessions that have written all their entries, or
\* lets them return.
KeepsPlaces ==
  \A s \in Session : pc'[s] \in {pc[s], "returned"} \/ pc[s] \in Entered

\* Such a step can take entries away, and no more.
LEMMA RegistriesKept ==
  ASSUME Exclusive, OwnRegistries, KeepsPlaces, TypeOK,
         \A u \in Uuid : /\ clients'[u] \in {clients[u], None}
                         /\ eventChannel'[u] \in {eventChannel[u], None}
  PROVE  Exclusive' /\ OwnRegistries'
<1>1. \A s \in Session : Running(s)' => Running(s)
  BY DEF KeepsPlaces, Running, Entered, Login, Fetch, Loop
<1>2. Exclusive'
  BY <1>1 DEF Exclusive
<1>3. ASSUME NEW s \in Session, Running(s)', pc'[s] # "signalled"
      PROVE  eventChannel'[uuidOf[s]] \in {None, s}
  <2>1. Running(s) /\ pc[s] # "signalled"
    BY <1>1, <1>3 DEF KeepsPlaces, Running, Entered, Login, Fetch, Loop
  <2> QED
    BY <2>1 DEF OwnRegistries
<1>4. ASSUME NEW s \in Session, pc'[s] \in Entered
      PROVE  clients'[uuidOf[s]] \in {None, s}
  <2>1. pc[s] \in Entered
    BY <1>4 DEF KeepsPlaces, Entered, Login, Fetch, Loop
  <2> QED
    BY <2>1 DEF OwnRegistries
<1> QED
  BY <1>2, <1>3, <1>4 DEF OwnRegistries, Running

\* A session becomes running only if no other runs under its uuid.
LEMMA StartIsExclusive ==
  ASSUME SeparateSessions, TypeOK, ThreadInv, NEW s \in Session, Start(s)
  PROVE  Exclusive' /\ OwnRegistries'
<1>1. /\ pc[s] = "start"
      /\ pc' = [pc EXCEPT ![s] = "signalled"]
      /\ UNCHANGED <<clients, eventChannel>>
  BY DEF Start, Goto
<1>2. ASSUME NEW t \in Session, Running(t), uuidOf[t] = uuidOf[s]
      PROVE  FALSE
  <2>1. t # s
    BY <1>1, <1>2 DEF Running
  <2>2. Serial
    BY <1>2, <2>1 DEF SeparateSessions, DistinctUuids
  <2> QED
    BY <1>2, <2>1, <2>2 DEF Start, MayStart, Running
<1>3. \A t \in Session : t # s => pc'[t] = pc[t]
  BY <1>1 DEF TypeOK
<1>4. pc'[s] = "signalled"
  BY <1>1 DEF TypeOK
<1>5. Exclusive'
  BY <1>2, <1>3 DEF ThreadInv, Exclusive, Running
<1>6. OwnRegistries'
  BY <1>1, <1>3, <1>4 DEF ThreadInv, OwnRegistries, Running, Entered, Login,
     Fetch, Loop
<1> QED
  BY <1>5, <1>6

\* A session writes its entries without touching those of another that runs.
LEMMA WritesOwnEntries ==
  ASSUME TypeOK, ThreadInv, NEW s \in Session, MakeChannel(s) \/ Register(s)
  PROVE  Exclusive' /\ OwnRegistries'
<1>1. /\ Running(s) /\ Running(s)'
      /\ \A t \in Session : t # s => pc'[t] = pc[t]
  BY DEF MakeChannel, Register, Goto, TypeOK, Running
<1>2. Exclusive'
  BY <1>1 DEF ThreadInv, Exclusive, Running
<1>3. \A t \in Session : t # s /\ Running(t) => uuidOf[t] # uuidOf[s]
  BY <1>1 DEF ThreadInv, Exclusive
<1>4. CASE MakeChannel(s)
  <2>1. /\ pc'[s] = "queued"
        /\ eventChannel' = [eventChannel EXCEPT ![uuidOf[s]] = s]
        /\ UNCHANGED clients
    BY <1>4 DEF MakeChannel, Goto, TypeOK
  <2> QED
    BY <1>1, <1>2, <1>3, <2>1 DEF ThreadInv, OwnRegistries, Running, Entered,
       Login, Fetch, Loop, TypeOK
<1>5. CASE Register(s)
  <2>1. /\ pc[s] = "queued" /\ pc'[s] = "registered"
        /\ clients' = [clients EXCEPT ![uuidOf[s]] = s]
        /\ UNCHANGED eventChannel
    BY <1>5 DEF Register, Goto, TypeOK
  <2> QED
    BY <1>1, <1>2, <1>3, <2>1 DEF ThreadInv, OwnRegistries, Running, Entered,
       Login, Fetch, Loop, TypeOK
<1> QED
  BY <1>4, <1>5

\* A step that changes none of what ThreadInv is about, except that it may take
\* a session from one place to another on the same side of the first callback.
LEMMA ThreadInvKept ==
  ASSUME ThreadInv, TypeOK, KeepsPlaces,
         UNCHANGED <<clients, eventChannel, channel, device, delivered,
                     handler>>,
         \A s \in Session : pc'[s] \in Loop \cup {"returned"}
                              <=> pc[s] \in Loop \cup {"returned"}
  PROVE  ThreadInv'
<1>1. Exclusive' /\ OwnRegistries'
  BY RegistriesKept DEF ThreadInv
<1>2. OwnLocals'
  BY DEF ThreadInv, OwnLocals
<1>3. Introduced'
  BY DEF ThreadInv, Introduced
<1>4. JobsSubscribed'
  BY DEF ThreadInv, JobsSubscribed, Sending
<1> QED
  BY <1>1, <1>2, <1>3, <1>4 DEF ThreadInv

LEMMA NeonizeThreadStreams ==
  ASSUME SeparateSessions, TypeOK, ThreadInv, NEW s \in Session, NeonizeThread(s)
  PROVE  ThreadInv' /\ StreamStep
<1> USE DEF Goto, registryVars, channelVars, threadVars, meowVars, stopVars
<1>1. CASE DeviceFails(s)
  BY <1>1, ThreadInvKept DEF DeviceFails, Crash, StreamStep, KeepsPlaces
<1>2. CASE Start(s) \/ MakeChannel(s) \/ Register(s)
  <2>1. Exclusive' /\ OwnRegistries'
    BY <1>2, StartIsExclusive, WritesOwnEntries
  <2>2. Introduced'
    <3>1. /\ delivered' = delivered
          /\ pc[s] \in Setup
          /\ \E p \in Setup : pc' = [pc EXCEPT ![s] = p]
      BY <1>2 DEF Start, MakeChannel, Register, Setup
    <3> QED
      BY <3>1 DEF ThreadInv, Introduced, TypeOK, Loop, Setup
  <2>3. OwnLocals' /\ JobsSubscribed' /\ StreamStep
    BY <1>2 DEF Start, MakeChannel, Register, ThreadInv, OwnLocals,
       JobsSubscribed, Sending, StreamStep
  <2> QED
    BY <2>1, <2>2, <2>3 DEF ThreadInv
<1>3. CASE ConnectStored(s) \/ ConnectQr(s) \/ ConnectPairCode(s)
           \/ ConnectFails(s) \/ QrChannelCloses(s)
  <2>1. /\ UNCHANGED <<clients, eventChannel, channel, device, delivered,
                       handler, sent, queue>>
        /\ pc[s] \in {"registered", "qr"}
        /\ pc' = pc \/ \E p \in {"qr", "login", "fetch"} :
                         pc' = [pc EXCEPT ![s] = p]
    BY <1>3 DEF ConnectStored, ConnectQr, ConnectPairCode, ConnectFails,
       QrChannelCloses, Crash
  <2>2. \A t \in Session : pc'[t] \in Loop \cup {"returned"}
                             <=> pc[t] \in Loop \cup {"returned"}
    BY <2>1 DEF TypeOK, Loop
  <2>3. KeepsPlaces
    BY <2>1 DEF TypeOK, KeepsPlaces, Entered, Login
  <2> QED
    BY <2>1, <2>2, <2>3, ThreadInvKept DEF StreamStep
<1>4. CASE ReadChannel(s) \/ ReadStore(s)
  <2>1. OwnLocals'
    <3>1. CASE ReadChannel(s)
      <4>1. channel' = [channel EXCEPT ![s] = eventChannel[uuidOf[s]]]
            /\ UNCHANGED device
        BY <3>1 DEF ReadChannel
      <4> QED
        BY <3>1, <4>1 DEF ReadChannel, ThreadInv, OwnRegistries, Running,
           OwnLocals, TypeOK
    <3>2. CASE ReadStore(s)
      <4>1. /\ device' = device \/ device' = [device EXCEPT ![s] = clients[uuidOf[s]]]
            /\ UNCHANGED channel
        BY <3>2 DEF ReadStore, Crash
      <4>2. /\ clients[uuidOf[s]] \in {None, s}
            /\ device \in [Session -> Session \cup {None}]
        BY <3>2 DEF ReadStore, ThreadInv, OwnRegistries, Entered, Fetch, TypeOK
      <4> QED
        BY <4>1, <4>2 DEF ThreadInv, OwnLocals
    <3> QED
      BY <1>4, <3>1, <3>2
  <2>2. Introduced'
    <3>1. /\ delivered' = delivered
          /\ pc[s] \in Fetch
          /\ pc' = pc \/ \E p \in Fetch : pc' = [pc EXCEPT ![s] = p]
      BY <1>4 DEF ReadChannel, ReadStore, Crash, Fetch
    <3>2. Fetch \cap (Loop \cup {"returned"}) = {}
      BY DEF Fetch, Loop
    <3>3. \A t \in Session : pc'[t] \in Loop \cup {"returned"}
                               <=> pc[t] \in Loop \cup {"returned"}
      BY <3>1, <3>2 DEF TypeOK
    <3> QED
      BY <3>1, <3>3 DEF ThreadInv, Introduced
  <2>3. Exclusive' /\ OwnRegistries'
    <3>1. /\ UNCHANGED <<clients, eventChannel>>
          /\ pc[s] \in Fetch
          /\ pc' = pc \/ \E p \in Fetch : pc' = [pc EXCEPT ![s] = p]
      BY <1>4 DEF ReadChannel, ReadStore, Crash, Fetch
    <3>2. KeepsPlaces
      BY <3>1 DEF TypeOK, KeepsPlaces, Entered
    <3> QED
      BY <3>1, <3>2, RegistriesKept DEF ThreadInv
  <2>4. JobsSubscribed' /\ StreamStep
    BY <1>4 DEF ReadChannel, ReadStore, Crash, ThreadInv, JobsSubscribed,
       Sending, StreamStep
  <2> QED
    BY <2>1, <2>2, <2>3, <2>4 DEF ThreadInv
<1>a. ASSUME NEW ev \in Event, HandToPython(s, ev), pc[s] \in Fetch \cup Loop,
             UNCHANGED <<clients, eventChannel, channel, device, handler>>
      PROVE  ThreadInv'
  <2>1. /\ delivered'[s] # <<>> /\ pc'[s] \in Loop
        /\ \A t \in Session \ {s} : /\ delivered'[t] = delivered[t]
                                    /\ pc'[t] = pc[t]
    <3>1. /\ delivered[s] \in Seq(Event)
          /\ delivered'[s] = Append(delivered[s], ev)
          /\ pc'[s] = "callback"
          /\ \A t \in Session \ {s} : /\ delivered'[t] = delivered[t]
                                      /\ pc'[t] = pc[t]
      BY <1>a DEF HandToPython, TypeOK
    <3> QED
      BY <3>1, AppendProperties DEF Loop
  <2>2. Introduced'
    BY <2>1 DEF ThreadInv, Introduced
  <2>3. Exclusive' /\ OwnRegistries'
    <3>1. KeepsPlaces
      BY <1>a, <2>1 DEF KeepsPlaces, Entered
    <3> QED
      BY <1>a, <3>1, RegistriesKept DEF ThreadInv
  <2>4. OwnLocals' /\ JobsSubscribed'
    BY <1>a DEF ThreadInv, OwnLocals, JobsSubscribed, Sending
  <2> QED
    BY <2>2, <2>3, <2>4 DEF ThreadInv
<1>5. CASE DeviceKnown(s)
  <2>1. device[s] = s /\ delivered[s] = <<>>
    BY <1>5 DEF DeviceKnown, ThreadInv, OwnLocals, Introduced, TypeOK, Loop
  <2>2. [src |-> s, kind |-> Me] \in Event
    BY DEF Event
  <2>3. ThreadInv'
    BY <1>5, <1>a, <2>1, <2>2 DEF DeviceKnown, Fetch
  <2>4. IntroduceStep(s)
    BY <1>5, <2>1 DEF DeviceKnown, HandToPython, IntroduceStep
  <2> QED
    BY <2>3, <2>4 DEF StreamStep
<1>6. CASE CallbackReturns(s) \/ SelectDone(s) \/ SelectNil(s) \/ Park(s)
  <2>1. /\ UNCHANGED <<clients, eventChannel, channel, device, delivered,
                       handler, sent, queue>>
        /\ pc[s] \in Loop
        /\ pc' = pc \/ \E p \in Loop \cup {"returned"} :
                         pc' = [pc EXCEPT ![s] = p]
    BY <1>6 DEF CallbackReturns, SelectDone, SelectNil, Park, Crash, Loop
  <2>2. \A t \in Session : pc'[t] \in Loop \cup {"returned"}
                             <=> pc[t] \in Loop \cup {"returned"}
    BY <2>1 DEF TypeOK
  <2>3. KeepsPlaces
    BY <2>1 DEF TypeOK, KeepsPlaces, Entered
  <2> QED
    BY <2>1, <2>2, <2>3, ThreadInvKept DEF StreamStep
<1>7. CASE SelectEvent(s)
  <2>1. channel[s] = s /\ queue[s] # <<>> /\ delivered[s] # <<>>
    BY <1>7 DEF SelectEvent, EventReady, ThreadInv, OwnLocals, Introduced, Loop
  <2>2. CASE Marshals(Head(queue[s]))
    <3>1. Head(queue[s]) \in Event
      BY <2>1, HeadTailProperties DEF TypeOK
    <3>2. /\ queue' = [queue EXCEPT ![s] = Tail(@)]
          /\ HandToPython(s, Head(queue[s]))
          /\ UNCHANGED <<clients, eventChannel, channel, device, handler, sent>>
      BY <1>7, <2>1, <2>2 DEF SelectEvent
    <3>3. DeliverStep(s)
      BY <2>1, <3>2 DEF DeliverStep, HandToPython
    <3> QED
      BY <1>7, <1>a, <3>1, <3>2, <3>3 DEF SelectEvent, Loop, StreamStep
  <2>3. CASE ~Marshals(Head(queue[s]))
    BY <1>7, <2>1, <2>3, ThreadInvKept DEF SelectEvent, Crash, StreamStep,
       KeepsPlaces
  <2> QED
    BY <2>2, <2>3
<1> QED
  BY <1>1, <1>2, <1>3, <1>4, <1>5, <1>6, <1>7 DEF NeonizeThread

\* A goroutine that is done with its event leaves nothing unsubscribed behind.
LEMMA JobsSubscribedKept ==
  ASSUME TypeOK, JobsSubscribed, NEW g \in Goroutine, NEW job,
         handler' = [handler EXCEPT ![g] = job],
         job # None /\ job.at = "send" => job.kind \in subscribers[job.src]
  PROVE  JobsSubscribed'
  BY DEF TypeOK, JobsSubscribed, Sending

LEMMA HandlerStepStreams ==
  ASSUME SeparateSessions, TypeOK, ThreadInv, ParkedLoopHasNothing,
         NEW g \in Goroutine, HandlerStep(g)
  PROVE  ThreadInv' /\ StreamStep
<1> USE DEF Goto, registryVars, channelVars, threadVars, meowVars, stopVars
<1>1. CASE LoginHandOff(g)
  <2> DEFINE s == handler[g].src
  <2>1. /\ s \in Session /\ pc[s] = "login"
        /\ pc' = [pc EXCEPT ![s] = "fetch"]
        /\ handler' = [handler EXCEPT ![g] = SendJob(s, handler[g].kind)]
        /\ UNCHANGED <<clients, eventChannel, channel, device, delivered, sent,
                       queue>>
    BY <1>1 DEF LoginHandOff, TypeOK, Job
  <2>2. JobsSubscribed'
    BY <2>1, JobsSubscribedKept DEF SendJob, ThreadInv
  <2>3. Introduced'
    BY <2>1 DEF ThreadInv, Introduced, TypeOK, Loop
  <2>4. Exclusive' /\ OwnRegistries'
    <3>1. KeepsPlaces
      BY <2>1 DEF TypeOK, KeepsPlaces, Entered, Login
    <3> QED
      BY <2>1, <3>1, RegistriesKept DEF ThreadInv
  <2>5. OwnLocals' /\ StreamStep
    BY <2>1 DEF ThreadInv, OwnLocals, StreamStep
  <2> QED
    BY <2>2, <2>3, <2>4, <2>5 DEF ThreadInv
<1>a. ASSUME Sending(g)
      PROVE  /\ handler[g].src \in Session
             /\ handler[g].kind \in subscribers[handler[g].src]
             /\ JobEvent(g) \in Event
  BY <1>a DEF Sending, ThreadInv, JobsSubscribed, TypeOK, Job, JobEvent, Event
<1>b. ASSUME handler' = [handler EXCEPT ![g] = None]
      PROVE  JobsSubscribed'
  BY <1>b, JobsSubscribedKept DEF ThreadInv
<1>2. CASE SendBuffered(g)
  <2>1. ThreadInv'
    <3>1. Exclusive' /\ OwnRegistries'
      BY <1>2, RegistriesKept DEF SendBuffered, ThreadInv, KeepsPlaces
    <3>2. OwnLocals' /\ Introduced'
      BY <1>2 DEF SendBuffered, ThreadInv, OwnLocals, Introduced
    <3> QED
      BY <1>2, <1>b, <3>1, <3>2 DEF SendBuffered, ThreadInv
  <2>2. AcceptStep(handler[g].src, handler[g].kind)
    BY <1>2 DEF SendBuffered, AcceptStep, JobEvent
  <2> QED
    BY <1>2, <1>a, <2>1, <2>2 DEF SendBuffered, StreamStep
<1>3. CASE SendOnClosed(g)
  <2>1. Exclusive' /\ OwnRegistries'
    BY <1>3, RegistriesKept DEF SendOnClosed, ThreadInv, KeepsPlaces
  <2>2. OwnLocals' /\ Introduced'
    BY <1>3 DEF SendOnClosed, ThreadInv, OwnLocals, Introduced
  <2> QED
    BY <1>3, <1>b, <2>1, <2>2 DEF SendOnClosed, ThreadInv, StreamStep
<1>4. ASSUME NEW t \in Session, SendToParked(g, t)
      PROVE  ThreadInv' /\ StreamStep
  <2> DEFINE s == handler[g].src
  <2>1. CASE Marshals(JobEvent(g))
    <3>1. /\ Sending(g) /\ pc[t] = "parked" /\ channel[t] = s
          /\ delivered' = [delivered EXCEPT ![t] = Append(@, JobEvent(g))]
          /\ pc' = [pc EXCEPT ![t] = "callback"]
          /\ sent' = [sent EXCEPT ![s] = Append(@, JobEvent(g))]
          /\ handler' = [handler EXCEPT ![g] = None]
          /\ UNCHANGED <<clients, eventChannel, channel, device, queue>>
      BY <1>4, <2>1 DEF SendToParked, ParkedOn, HandToPython
    <3>2. t = s
      BY <1>a, <3>1 DEF ThreadInv, OwnLocals
    <3>3. queue[s] = <<>> /\ delivered[s] # <<>>
      BY <1>a, <3>1, <3>2 DEF ParkedLoopHasNothing, EventReady, ThreadInv,
         Introduced, Loop
    <3>4. PassOnStep(s, handler[g].kind)
      BY <3>1, <3>2, <3>3 DEF PassOnStep, JobEvent
    <3>5. Introduced'
      <4>1. /\ delivered'[s] = Append(delivered[s], JobEvent(g))
            /\ delivered[s] \in Seq(Event)
            /\ pc'[s] = "callback"
            /\ \A r \in Session \ {s} : /\ delivered'[r] = delivered[r]
                                        /\ pc'[r] = pc[r]
        BY <3>1, <3>2 DEF TypeOK
      <4>2. delivered'[s] # <<>>
        BY <1>a, <3>1, <4>1, AppendProperties
      <4> QED
        BY <4>1, <4>2 DEF ThreadInv, Introduced, Loop
    <3>6. Exclusive' /\ OwnRegistries'
      <4>1. KeepsPlaces
        BY <3>1 DEF TypeOK, KeepsPlaces, Entered, Loop
      <4> QED
        BY <3>1, <4>1, RegistriesKept DEF ThreadInv
    <3>7. OwnLocals' /\ JobsSubscribed'
      BY <1>b, <3>1 DEF ThreadInv, OwnLocals
    <3> QED
      BY <1>a, <3>1, <3>4, <3>5, <3>6, <3>7 DEF ThreadInv, StreamStep
  <2>2. CASE ~Marshals(JobEvent(g))
    BY <1>4, <2>2, ThreadInvKept DEF SendToParked, Crash, StreamStep,
       KeepsPlaces
  <2> QED
    BY <2>1, <2>2
<1> QED
  BY <1>1, <1>2, <1>3, <1>4 DEF HandlerStep

LEMMA WhatsmeowStreams ==
  ASSUME SeparateSessions, TypeOK, ThreadInv, NEW s \in Session,
         NEW g \in Goroutine, Whatsmeow(s, g)
  PROVE  ThreadInv' /\ StreamStep
<1>1. /\ UNCHANGED <<clients, eventChannel, channel, device, delivered, pc,
                     sent, queue>>
      /\ \E k \in Kind : EventHandler(g, s, k)
  BY DEF Whatsmeow, PairDevice, LogIn, Drop, Receive, MeowUnchanged,
     registryVars, channelVars, threadVars, PairStatus, Connected, Disconnected
<1>2. JobsSubscribed'
  <2>1. PICK k \in Kind : EventHandler(g, s, k)
    BY <1>1
  <2> QED
    BY <2>1, JobsSubscribedKept DEF EventHandler, SendJob, ThreadInv
<1>3. Exclusive' /\ OwnRegistries'
  BY <1>1, RegistriesKept DEF ThreadInv, KeepsPlaces
<1>4. OwnLocals' /\ Introduced' /\ StreamStep
  BY <1>1 DEF ThreadInv, OwnLocals, Introduced, StreamStep
<1> QED
  BY <1>2, <1>3, <1>4 DEF ThreadInv

LEMMA StopThreadStreams ==
  ASSUME SeparateSessions, TypeOK, ThreadInv, NEW c \in Caller, StopThread(c)
  PROVE  ThreadInv' /\ StreamStep
<1>1. /\ UNCHANGED <<channel, device, delivered, handler, sent, queue>>
      /\ \A u \in Uuid : /\ clients'[u] \in {clients[u], None}
                         /\ eventChannel'[u] \in {eventChannel[u], None}
      /\ \A s \in Session : pc'[s] = pc[s]
                              \/ (pc[s] = "parked" /\ pc'[s] = "returned")
  <2> USE DEF TypeOK, Crash, registryVars, channelVars, threadVars, meowVars,
              stopVars
  <2>1. CASE CallStopAll(c) \/ \E u \in Uuid : CallStop(c, u)
    BY <2>1 DEF CallStopAll, CallStop
  <2>2. CASE LookupClient(c) \/ LookupSignal(c) \/ LookupChannel(c)
    BY <2>2 DEF LookupClient, LookupSignal, LookupChannel
  <2>3. CASE DisconnectClient(c) \/ ForgetClient(c) \/ ForgetSignal(c)
             \/ ForgetChannel(c)
    BY <2>3 DEF DisconnectClient, ForgetClient, ForgetSignal, ForgetChannel
  <2>4. CASE CancelContext(c)
    BY <2>4 DEF CancelContext
  <2>5. CASE CloseChannel(c)
    BY <2>5 DEF CloseChannel
  <2> QED
    BY <2>1, <2>2, <2>3, <2>4, <2>5 DEF StopThread
<1>2. Exclusive' /\ OwnRegistries'
  BY <1>1, RegistriesKept DEF ThreadInv, KeepsPlaces
<1>3. Introduced'
  BY <1>1 DEF ThreadInv, Introduced, Loop
<1>4. OwnLocals' /\ JobsSubscribed' /\ StreamStep
  BY <1>1 DEF ThreadInv, OwnLocals, JobsSubscribed, Sending, StreamStep
<1> QED
  BY <1>2, <1>3, <1>4 DEF ThreadInv

LEMMA NextStreams ==
  ASSUME SeparateSessions, TypeOK, ThreadInv, ParkedLoopHasNothing, [Next]_vars
  PROVE  ThreadInv' /\ StreamStep
<1>1. ASSUME UNCHANGED <<clients, eventChannel, channel, device, delivered,
                         handler, pc, sent, queue>>
      PROVE  ThreadInv' /\ StreamStep
  BY <1>1, ThreadInvKept DEF StreamStep, KeepsPlaces
<1>2. ASSUME NEW u \in Uuid, Disconnect(u)
      PROVE  ThreadInv' /\ StreamStep
  BY <1>1, <1>2 DEF Disconnect, Crash, registryVars, channelVars, threadVars,
     meowVars
<1>3. CASE UNCHANGED vars
  BY <1>1, <1>3 DEF vars, registryVars, channelVars, threadVars, meowVars
<1> QED
  BY <1>2, <1>3, NeonizeThreadStreams, HandlerStepStreams, WhatsmeowStreams,
     StopThreadStreams DEF Next

-----------------------------------------------------------------------------
(***************************************************************************)
(* The two invariants, the refinement, and what follows from them.         *)
(***************************************************************************)
StreamInv == ThreadInv /\ QueueInv

LEMMA InitStreams == Init => StreamInv /\ Promise!Init
<1> SUFFICES ASSUME Init
             PROVE  StreamInv /\ Promise!Init
  OBVIOUS
<1>1. \A s \in Session :
        /\ sent[s] = <<>> /\ queue[s] = <<>> /\ delivered[s] = <<>>
        /\ pc[s] = "start" /\ Received(s) = 0
  BY DEF Init, Received, Promise!Received
<1>2. ThreadInv
  BY <1>1 DEF Init, ThreadInv, Exclusive, Running, OwnRegistries, Entered,
     Login, Fetch, OwnLocals, Introduced, JobsSubscribed, Sending, Loop
<1>3. ASSUME NEW s \in Session
      PROVE  OneQueue(s)
  <2>1. Len(sent[s]) = 0 /\ Len(queue[s]) = 0 /\ Received(s) = 0
    BY <1>1
  <2>2. SentOwn(s) /\ DeviceCameFirst(s)
    BY <1>1, <2>1 DEF SentOwn, DeviceCameFirst
  <2>3. Splits(sent[s], Received(s), delivered[s], queue[s])
    BY <2>1 DEF Splits
  <2> QED
    BY <2>1, <2>2, <2>3 DEF OneQueue
<1>4. Promise!Init
  BY DEF Init, Promise!Init
<1> QED
  BY <1>2, <1>3, <1>4 DEF StreamInv, QueueInv

LEMMA StreamInvariant ==
  ASSUME SeparateSessions
  PROVE  Spec => []StreamInv
<1>1. Init => StreamInv
  BY InitStreams
<1>2. TypeOK /\ ParkedLoopHasNothing /\ StreamInv /\ [Next]_vars => StreamInv'
  BY NextStreams, QueueInvStep DEF StreamInv
<1> QED
  BY <1>1, <1>2, TypeCorrect, NoLostWakeup, PTL DEF Spec

\* Sessions kept apart implement EventStream: what the event handler, the
\* channel and CallbackFunction do together looks to Python like one queue for
\* each session, whatever other sessions and calls of Stop do meanwhile, and
\* also when a session reuses the uuid of one that has returned.
THEOREM Implements ==
  ASSUME SeparateSessions
  PROVE  Spec => KeepsPromise
<1>1. Init => Promise!Init
  BY InitStreams
<1>2. TypeOK /\ ParkedLoopHasNothing /\ StreamInv /\ [Next]_vars
        => [Promise!Next]_<<sent, delivered>>
  BY NextStreams, StreamStepKeepsPromise DEF StreamInv
<1> QED
  BY <1>1, <1>2, TypeCorrect, NoLostWakeup, StreamInvariant, PTL
     DEF Spec, KeepsPromise, Promise!Spec

\* What eventHandler sent for a session is what CallbackFunction gave to
\* Python, followed by what waits in the channel.
THEOREM NothingLost ==
  ASSUME SeparateSessions
  PROVE  Spec => []InOrderNoLoss
<1>1. StreamInv => InOrderNoLoss
  BY DEF StreamInv, QueueInv, OneQueue, Splits, InOrderNoLoss
<1> QED
  BY <1>1, StreamInvariant, PTL

\* The callbacks of a session, in terms of what was sent.
LEMMA CallbackOrigin ==
  ASSUME TypeOK, QueueInv, NEW s \in Session, NEW i \in 1..Len(delivered[s])
  PROVE  /\ delivered[s][i].src = s
         /\ i = 1 => delivered[s][i].kind = Me
         /\ i # 1 => delivered[s][i].kind \in subscribers[s]
<1>1. delivered[s] \in Seq(Event) /\ delivered[s] # <<>>
  BY DEF TypeOK
<1>2. CASE i = 1
  <2>1. delivered[s][i] = [src |-> s, kind |-> Me]
    BY <1>1, <1>2 DEF QueueInv, OneQueue, DeviceCameFirst
  <2> QED
    BY <1>2, <2>1
<1>3. CASE i # 1
  <2>1. /\ Received(s) \in Nat /\ Len(delivered[s]) = Received(s) + 1
        /\ Len(queue[s]) \in Nat /\ Len(sent[s]) = Received(s) + Len(queue[s])
    BY <1>1, ReceivedType DEF TypeOK, QueueInv, OneQueue, Splits
  <2>2. i - 1 \in 1..Received(s) /\ i - 1 \in 1..Len(sent[s])
        /\ i = (i - 1) + 1
    BY <1>3, <2>1
  <2>3. delivered[s][i] = sent[s][i - 1]
    BY <2>2 DEF QueueInv, OneQueue, Splits
  <2> QED
    BY <1>3, <2>2, <2>3 DEF QueueInv, OneQueue, SentOwn
<1> QED
  BY <1>2, <1>3

\* CallbackFunction and FetchMe, which look their channel and client up in the
\* maps, still give a session nothing but its own events and its own device.
THEOREM NoMixing ==
  ASSUME SeparateSessions
  PROVE  Spec => []OwnEvents
<1>1. TypeOK /\ StreamInv => OwnEvents
  <2> SUFFICES ASSUME TypeOK, QueueInv, NEW s \in Session,
                      NEW i \in 1..Len(delivered[s])
               PROVE  delivered[s][i].src = s
    BY DEF StreamInv, OwnEvents
  <2> QED
    BY CallbackOrigin
<1> QED
  BY <1>1, TypeCorrect, StreamInvariant, PTL

\* Code 0, the device, is the first callback and comes only once, although
\* events are queued before FetchMe returns.
THEOREM IntroducedOnce ==
  ASSUME SeparateSessions
  PROVE  Spec => []DeviceFirst
<1>1. TypeOK /\ StreamInv => DeviceFirst
  <2> SUFFICES ASSUME TypeOK, QueueInv, NEW s \in Session,
                      NEW i \in 1..Len(delivered[s])
               PROVE  (delivered[s][i].kind = Me) <=> (i = 1)
    BY DEF StreamInv, DeviceFirst
  <2>1. Me \notin subscribers[s]
    OBVIOUS
  <2> QED
    BY <2>1, CallbackOrigin
<1> QED
  BY <1>1, TypeCorrect, StreamInvariant, PTL

\* eventHandler drops what Python did not subscribe to, and no other way leads
\* from whatsmeow to a callback.
THEOREM SubscribedOnly ==
  ASSUME SeparateSessions
  PROVE  Spec => []OnlySubscribed
<1>1. TypeOK /\ StreamInv => OnlySubscribed
  <2> SUFFICES ASSUME TypeOK, QueueInv, NEW s \in Session,
                      NEW i \in 2..Len(delivered[s])
               PROVE  delivered[s][i].kind \in subscribers[s]
    BY DEF StreamInv, OnlySubscribed
  <2>1. Len(delivered[s]) \in Nat
    BY DEF TypeOK
  <2> QED
    BY <2>1, CallbackOrigin
<1> QED
  BY <1>1, TypeCorrect, StreamInvariant, PTL

-----------------------------------------------------------------------------
(***************************************************************************)
(* Which loop a closed channel can take down.  Serial is needed: a Stop    *)
(* that looked for a signal before connect had written one would close the *)
(* channel of a session it never cancelled.                                *)
(***************************************************************************)

\* A running session can be found by the next Stop, or one has cancelled it.
SignalUp ==
  \A s \in Session : Running(s) => StopSignal[uuidOf[s]] = s \/ cancelled[s]

\* A Stop past its cancel has cancelled the running session of its uuid; at its
\* cancel it holds that session.
CancelsFirst(c) ==
  \A s \in Session :
    Running(s) /\ uuidOf[s] = stopper[c].uuid =>
      /\ stopper[c].at = "cancel" => stopper[c].held = s \/ cancelled[s]
      /\ stopper[c].at \in {"forget_signal", "lookup_channel", "close"}
           => cancelled[s]

ClosedCancelled ==
  \A s \in Session : Running(s) /\ closed[s] => cancelled[s]

StopInv ==
  /\ SignalUp
  /\ \A c \in Caller : CancelsFirst(c)
  /\ ClosedCancelled

\* A step that starts no session, and lets a Stop reach its cancel or its
\* channel only as CancelsFirst says.
LEMMA StopInvKept ==
  ASSUME StopInv, UNCHANGED <<StopSignal, closed, cancelled>>,
         \A s \in Session : Running(s)' => Running(s),
         \A c \in Caller :
           \/ stopper'[c] = stopper[c]
           \/ stopper'[c].at \notin {"cancel", "forget_signal",
                                    "lookup_channel", "close"}
           \/ CancelsFirst(c)'
  PROVE  StopInv'
<1>1. SignalUp' /\ ClosedCancelled'
  BY DEF StopInv, SignalUp, ClosedCancelled
<1>2. ASSUME NEW c \in Caller
      PROVE  CancelsFirst(c)'
  <2>1. CASE stopper'[c] = stopper[c]
    BY <2>1 DEF StopInv, CancelsFirst
  <2>2. CASE stopper'[c].at \notin {"cancel", "forget_signal",
                                   "lookup_channel", "close"}
    BY <2>2 DEF CancelsFirst
  <2> QED
    BY <2>1, <2>2
<1> QED
  BY <1>1, <1>2 DEF StopInv

\* With Serial no Stop is under way when a session starts.
LEMMA StopInvStart ==
  ASSUME Serial, TypeOK, ChannelInv, StopInv, ThreadInv,
         NEW s \in Session, Start(s)
  PROVE  StopInv'
<1>1. /\ pc[s] = "start"
      /\ StopSignal' = [StopSignal EXCEPT ![uuidOf[s]] = s]
      /\ \A c \in Caller : stopper'[c] = Idle
      /\ UNCHANGED <<closed, cancelled>>
      /\ \A t \in Session : t # s => pc'[t] = pc[t]
  BY DEF Start, MayStart, Goto, stopVars, channelVars, TypeOK
<1>2. \A t \in Session : t # s /\ uuidOf[t] = uuidOf[s] => ~Running(t)
  BY DEF Start, MayStart, Running
<1>3. SignalUp'
  <2> SUFFICES ASSUME NEW t \in Session, Running(t)'
               PROVE  StopSignal'[uuidOf[t]] = t \/ cancelled[t]
    BY <1>1 DEF SignalUp
  <2>1. CASE t = s
    BY <1>1, <2>1 DEF TypeOK
  <2>2. CASE t # s
    <3>1. Running(t)
      BY <1>1, <2>2 DEF Running
    <3>2. uuidOf[t] # uuidOf[s]
      BY <1>2, <2>2, <3>1
    <3> QED
      BY <1>1, <3>1, <3>2 DEF StopInv, SignalUp, TypeOK
  <2> QED
    BY <2>1, <2>2
<1>4. \A c \in Caller : CancelsFirst(c)'
  BY <1>1 DEF CancelsFirst, Idle
<1>5. ClosedCancelled'
  <2>1. ~closed[s]
    BY <1>1 DEF ChannelInv, ClosedAfterRegistered, Channelled
  <2> QED
    BY <1>1, <2>1 DEF StopInv, ClosedCancelled, Running
<1> QED
  BY <1>3, <1>4, <1>5 DEF StopInv

\* The threads inside Neonize, past the first step.
LEMMA StopInvNeonizeThread ==
  ASSUME TypeOK, StopInv, NEW s \in Session, NeonizeThread(s), ~Start(s)
  PROVE  StopInv'
<1>1. /\ UNCHANGED <<StopSignal, closed, cancelled, stopper>>
      /\ \A t \in Session : pc'[t] = pc[t] \/ Running(t)
  <2> USE DEF TypeOK, Goto, Crash, Running, registryVars, channelVars, threadVars,
              meowVars, stopVars
  <2>1. CASE MakeChannel(s) \/ Register(s) \/ DeviceFails(s)
    BY <2>1 DEF MakeChannel, Register, DeviceFails
  <2>2. CASE ConnectStored(s) \/ ConnectQr(s) \/ ConnectPairCode(s)
             \/ ConnectFails(s) \/ QrChannelCloses(s)
    BY <2>2 DEF ConnectStored, ConnectQr, ConnectPairCode, ConnectFails,
       QrChannelCloses
  <2>3. CASE ReadChannel(s) \/ ReadStore(s)
    BY <2>3 DEF ReadChannel, ReadStore
  <2>4. CASE DeviceKnown(s) \/ SelectEvent(s)
    BY <2>4 DEF DeviceKnown, SelectEvent, HandToPython
  <2>5. CASE CallbackReturns(s) \/ SelectDone(s) \/ SelectNil(s) \/ Park(s)
    BY <2>5 DEF CallbackReturns, SelectDone, SelectNil, Park
  <2> QED
    BY <2>1, <2>2, <2>3, <2>4, <2>5 DEF NeonizeThread
<1>2. \A t \in Session : Running(t)' => Running(t)
  BY <1>1 DEF Running
<1> QED
  BY <1>1, <1>2, StopInvKept

LEMMA StopInvHandlerStep ==
  ASSUME TypeOK, StopInv, NEW g \in Goroutine, HandlerStep(g)
  PROVE  StopInv'
<1>1. /\ UNCHANGED <<StopSignal, closed, cancelled, stopper>>
      /\ \A t \in Session : pc'[t] = pc[t] \/ Running(t)
  <2> USE DEF TypeOK, Goto, Crash, Running, registryVars, channelVars, threadVars,
              meowVars, stopVars
  <2>1. CASE LoginHandOff(g)
    BY <2>1 DEF LoginHandOff, Job, TypeOK
  <2>2. CASE SendBuffered(g) \/ SendOnClosed(g)
    BY <2>2 DEF SendBuffered, SendOnClosed
  <2>3. ASSUME NEW t \in Session, SendToParked(g, t)
        PROVE  /\ UNCHANGED <<StopSignal, closed, cancelled, stopper>>
               /\ \A r \in Session : pc'[r] = pc[r] \/ Running(r)
    BY <2>3 DEF SendToParked, ParkedOn, HandToPython
  <2> QED
    BY <2>1, <2>2, <2>3 DEF HandlerStep
<1>2. \A t \in Session : Running(t)' => Running(t)
  BY <1>1 DEF Running
<1> QED
  BY <1>1, <1>2, StopInvKept

\* A Stop that moves on keeps its uuid.
LEMMA StopMoves ==
  ASSUME TypeOK, NEW c \in Caller, NEW p, NEW s, StopAt(c, p, s)
  PROVE  /\ stopper'[c].at = p
         /\ stopper'[c].uuid = stopper[c].uuid
         /\ stopper'[c].held = s
         /\ \A d \in Caller : d # c => stopper'[d] = stopper[d]
  BY DEF StopAt, TypeOK

\* One that begins, or goes on with the next key, has nothing in hand.
LEMMA StopTurns ==
  ASSUME TypeOK, NEW c \in Caller,
         StopNext(c) \/ \E todo \in SUBSET Uuid : StopUuid(c, todo)
  PROVE  /\ stopper'[c].at \in {"idle", "lookup_client"}
         /\ \A d \in Caller : d # c => stopper'[d] = stopper[d]
<1>1. ASSUME NEW todo, StopUuid(c, todo)
      PROVE  /\ stopper'[c].at = "lookup_client"
             /\ \A d \in Caller : d # c => stopper'[d] = stopper[d]
  BY <1>1 DEF StopUuid, TypeOK
<1>2. CASE stopper' = [stopper EXCEPT ![c] = Idle]
  BY <1>2 DEF TypeOK, Idle
<1> QED
  BY <1>1, <1>2 DEF StopNext

LEMMA StopInvCancel ==
  ASSUME TypeOK, StopInv, NEW c \in Caller, CancelContext(c)
  PROVE  StopInv'
<1> DEFINE h == stopper[c].held
<1>1. /\ h \in Session
      /\ stopper[c].at = "cancel"
  BY StopperType DEF CancelContext
<1>2. /\ cancelled' = [cancelled EXCEPT ![h] = TRUE]
      /\ UNCHANGED <<StopSignal, closed>>
      /\ StopAt(c, "forget_signal", None)
  BY DEF CancelContext, channelVars, registryVars
<1>3. \A s \in Session : Running(s)' => Running(s)
  BY <1>1 DEF CancelContext, Running, TypeOK
<1>4. \A s \in Session : cancelled[s] => cancelled'[s]
  BY <1>1, <1>2 DEF TypeOK
<1>5. cancelled'[h]
  BY <1>1, <1>2 DEF TypeOK
<1>6. \A s \in Session :
        Running(s) /\ uuidOf[s] = stopper[c].uuid => cancelled'[s]
  BY <1>1, <1>4, <1>5 DEF StopInv, CancelsFirst
<1>7. SignalUp' /\ ClosedCancelled'
  BY <1>2, <1>3, <1>4 DEF StopInv, SignalUp, ClosedCancelled
<1>8. ASSUME NEW d \in Caller
      PROVE  CancelsFirst(d)'
  <2>1. CASE d = c
    BY <1>2, <1>3, <1>6, <2>1, StopMoves DEF CancelsFirst
  <2>2. CASE d # c
    <3>1. stopper'[d] = stopper[d]
      BY <1>2, <2>2, StopMoves
    <3> QED
      BY <1>3, <1>4, <3>1 DEF StopInv, CancelsFirst
  <2> QED
    BY <2>1, <2>2
<1> QED
  BY <1>7, <1>8 DEF StopInv

\* The entry a Stop deletes is that of a session it has cancelled.
LEMMA StopInvForget ==
  ASSUME TypeOK, StopInv, NEW c \in Caller, ForgetSignal(c)
  PROVE  StopInv'
<1> DEFINE u == stopper[c].uuid
<1>1. u \in Uuid /\ stopper[c].at = "forget_signal"
  BY StopperType DEF ForgetSignal
<1>2. /\ StopSignal' = [StopSignal EXCEPT ![u] = None]
      /\ UNCHANGED <<cancelled, closed, pc>>
      /\ StopAt(c, "lookup_channel", None)
  BY DEF ForgetSignal, channelVars, threadVars
<1>3. \A s \in Session : Running(s) /\ uuidOf[s] = u => cancelled[s]
  BY <1>1 DEF StopInv, CancelsFirst
<1>4. SignalUp'
  <2> SUFFICES ASSUME NEW s \in Session, Running(s)
               PROVE  StopSignal'[uuidOf[s]] = s \/ cancelled[s]
    BY <1>2 DEF SignalUp, Running
  <2>1. CASE uuidOf[s] = u
    BY <1>3, <2>1
  <2>2. CASE uuidOf[s] # u
    BY <1>2, <2>2 DEF StopInv, SignalUp, TypeOK
  <2> QED
    BY <2>1, <2>2
<1>5. ASSUME NEW d \in Caller
      PROVE  CancelsFirst(d)'
  <2>1. CASE d = c
    BY <1>2, <1>3, <2>1, StopMoves DEF CancelsFirst, Running
  <2>2. CASE d # c
    <3>1. stopper'[d] = stopper[d]
      BY <1>2, <2>2, StopMoves
    <3> QED
      BY <1>2, <3>1 DEF StopInv, CancelsFirst, Running
  <2> QED
    BY <2>1, <2>2
<1>6. ClosedCancelled'
  BY <1>2 DEF StopInv, ClosedCancelled, Running
<1> QED
  BY <1>4, <1>5, <1>6 DEF StopInv

LEMMA StopInvClose ==
  ASSUME TypeOK, ChannelInv, StopInv, NEW c \in Caller, CloseChannel(c)
  PROVE  StopInv'
<1> DEFINE h == stopper[c].held
<1>1. /\ stopper[c].at = "close"
      /\ h \in Session
      /\ uuidOf[h] = stopper[c].uuid
  BY StopperType DEF CloseChannel, ChannelInv, ClosesUnderOwnKey
<1>2. CASE \E why \in Reason : Crash(why)
  BY <1>2, StopInvKept DEF Crash, Running, registryVars, channelVars,
     threadVars, stopVars
<1>3. CASE /\ closed' = [closed EXCEPT ![h] = TRUE]
           /\ StopAt(c, "forget_channel", None)
           /\ UNCHANGED <<StopSignal, cancelled, pc>>
  <2>1. Running(h) => cancelled[h]
    BY <1>1 DEF StopInv, CancelsFirst
  <2>2. ClosedCancelled'
    BY <1>1, <1>3, <2>1 DEF StopInv, ClosedCancelled, Running, TypeOK
  <2>3. SignalUp'
    BY <1>3 DEF StopInv, SignalUp, Running
  <2>4. ASSUME NEW d \in Caller
        PROVE  CancelsFirst(d)'
    <3>1. CASE d = c
      BY <1>3, <3>1, StopMoves DEF CancelsFirst
    <3>2. CASE d # c
      BY <1>3, <3>2, StopMoves DEF StopInv, CancelsFirst, Running
    <3> QED
      BY <3>1, <3>2
  <2> QED
    BY <2>2, <2>3, <2>4 DEF StopInv
<1> QED
  BY <1>2, <1>3 DEF CloseChannel, Reason, threadVars, registryVars

LEMMA StopInvStopThread ==
  ASSUME TypeOK, ChannelInv, StopInv, NEW c \in Caller, StopThread(c)
  PROVE  StopInv'
<1> USE DEF registryVars, channelVars, threadVars
<1>1. CASE CallStopAll(c) \/ \E u \in Uuid : CallStop(c, u)
  <2>1. /\ \E todo \in SUBSET Uuid : StopUuid(c, todo)
        /\ UNCHANGED <<StopSignal, closed, cancelled, pc>>
    BY <1>1 DEF CallStopAll, CallStop
  <2> QED
    BY <2>1, StopTurns, StopInvKept DEF Running
<1>2. CASE LookupClient(c) \/ DisconnectClient(c) \/ ForgetClient(c)
  <2>1. PICK p \in {"disconnect", "forget_client", "lookup_signal"},
             s \in Session \cup {None} : StopAt(c, p, s)
    BY <1>2, StopperType DEF LookupClient, DisconnectClient, ForgetClient, TypeOK
  <2>2. UNCHANGED <<StopSignal, closed, cancelled, pc>>
    BY <1>2 DEF LookupClient, DisconnectClient, ForgetClient
  <2> QED
    BY <2>1, <2>2, StopMoves, StopInvKept DEF Running
<1>3. CASE LookupSignal(c)
  <2> DEFINE u == stopper[c].uuid
             p == IF StopSignal[u] = None THEN "lookup_channel" ELSE "cancel"
  <2>1. StopAt(c, p, StopSignal[u]) /\ u \in Uuid
    BY <1>3, StopperType DEF LookupSignal
  <2>2. UNCHANGED <<StopSignal, closed, cancelled, pc>>
    BY <1>3 DEF LookupSignal
  <2>3. \A s \in Session :
          Running(s) /\ uuidOf[s] = u => StopSignal[u] = s \/ cancelled[s]
    BY DEF StopInv, SignalUp
  <2>4. /\ stopper'[c].at = p
        /\ stopper'[c].uuid = u
        /\ stopper'[c].held = StopSignal[u]
        /\ \A d \in Caller : d # c => stopper'[d] = stopper[d]
    BY <2>1, StopMoves
  <2>5. \A s \in Session : s # None
    OBVIOUS
  <2>6. CancelsFirst(c)'
    BY <2>2, <2>3, <2>4, <2>5 DEF CancelsFirst, Running
  <2> QED
    BY <2>2, <2>4, <2>6, StopInvKept DEF Running
<1>4. CASE CancelContext(c) \/ ForgetSignal(c)
  BY <1>4, StopInvCancel, StopInvForget
<1>5. CASE LookupChannel(c)
  <2>1. UNCHANGED <<StopSignal, closed, cancelled, pc>>
    BY <1>5 DEF LookupChannel
  <2>2. CASE StopNext(c)
    BY <2>1, <2>2, StopTurns, StopInvKept DEF Running
  <2>3. CASE StopAt(c, "close", eventChannel[stopper[c].uuid])
    <3>1. CancelsFirst(c)'
      BY <1>5, <2>1, <2>3, StopMoves DEF LookupChannel, StopInv, CancelsFirst,
         Running
    <3> QED
      BY <2>1, <2>3, <3>1, StopMoves, StopInvKept DEF Running
  <2> QED
    BY <1>5, <2>2, <2>3 DEF LookupChannel
<1>6. CASE CloseChannel(c)
  BY <1>6, StopInvClose
<1>7. CASE ForgetChannel(c)
  BY <1>7, StopTurns, StopInvKept DEF ForgetChannel, Running
<1> QED
  BY <1>1, <1>2, <1>3, <1>4, <1>5, <1>6, <1>7 DEF StopThread

LEMMA StopInvariant ==
  ASSUME Serial
  PROVE  Spec => []StopInv
<1>1. Init => StopInv
  BY DEF Init, StopInv, SignalUp, CancelsFirst, ClosedCancelled, Running, Idle
<1>2. TypeOK /\ ChannelInv /\ StreamInv /\ StopInv /\ [Next]_vars => StopInv'
  <2> SUFFICES ASSUME TypeOK, ChannelInv, ThreadInv, StopInv, [Next]_vars
               PROVE  StopInv'
    BY DEF StreamInv
  <2>1. ASSUME UNCHANGED <<StopSignal, closed, cancelled, stopper, pc>>
        PROVE  StopInv'
    BY <2>1, StopInvKept DEF Running
  <2>2. ASSUME NEW s \in Session, NEW g \in Goroutine, Whatsmeow(s, g)
        PROVE  UNCHANGED <<StopSignal, closed, cancelled, stopper, pc>>
    BY <2>2 DEF Whatsmeow, PairDevice, LogIn, Drop, Receive, MeowUnchanged,
       registryVars, channelVars, threadVars, stopVars
  <2>3. ASSUME NEW u \in Uuid, Disconnect(u)
        PROVE  UNCHANGED <<StopSignal, closed, cancelled, stopper, pc>>
    BY <2>3 DEF Disconnect, Crash, registryVars, channelVars, threadVars,
       stopVars
  <2>4. CASE UNCHANGED vars
    BY <2>1, <2>4 DEF vars, registryVars, channelVars, threadVars, stopVars
  <2> QED
    BY <2>1, <2>2, <2>3, <2>4, StopInvStart, StopInvNeonizeThread,
       StopInvHandlerStep, StopInvStopThread DEF Next
<1>3. SeparateSessions
  BY DEF SeparateSessions
<1> QED
  BY <1>1, <1>2, <1>3, TypeCorrect, ChannelInvariant, StreamInvariant, PTL
     DEF Spec

\* Of the steps of a session only two can end the process on a nil message.
LEMMA NilMessageSteps ==
  ASSUME Next, crashed' = "nil_message"
  PROVE  \/ \E s \in Session : SelectNil(s)
         \/ \E c \in Caller : CloseChannel(c) /\ Crash("nil_message")
<1> USE DEF Alive, Crash
<1>1. crashed = "no"
  BY DEF Next, NeonizeThread, HandlerStep, Whatsmeow, StopThread,
     Start, MakeChannel, Register, DeviceFails, ConnectStored, ConnectQr,
     ConnectPairCode, ConnectFails, QrChannelCloses, ReadChannel, ReadStore,
     DeviceKnown, CallbackReturns, SelectDone, SelectEvent, SelectNil, Park,
     LoginHandOff, SendBuffered, SendOnClosed, SendToParked, PairDevice, LogIn,
     Drop, Receive, CallStopAll, CallStop, LookupClient, DisconnectClient,
     ForgetClient, LookupSignal, CancelContext, ForgetSignal, LookupChannel,
     CloseChannel, ForgetChannel, Disconnect
<1>2. ASSUME NEW s \in Session, NeonizeThread(s)
      PROVE  SelectNil(s)
  <2>1. CASE Start(s) \/ MakeChannel(s) \/ Register(s) \/ DeviceFails(s)
    BY <1>1, <2>1 DEF Start, MakeChannel, Register, DeviceFails
  <2>2. CASE ConnectStored(s) \/ ConnectQr(s) \/ ConnectPairCode(s)
             \/ ConnectFails(s) \/ QrChannelCloses(s)
    BY <1>1, <2>2 DEF ConnectStored, ConnectQr, ConnectPairCode, ConnectFails,
       QrChannelCloses
  <2>3. CASE ReadChannel(s) \/ ReadStore(s) \/ DeviceKnown(s)
    BY <1>1, <2>3 DEF ReadChannel, ReadStore, DeviceKnown
  <2>4. CASE CallbackReturns(s) \/ SelectDone(s) \/ SelectEvent(s) \/ Park(s)
    BY <1>1, <2>4 DEF CallbackReturns, SelectDone, SelectEvent, Park
  <2> QED
    BY <1>2, <2>1, <2>2, <2>3, <2>4 DEF NeonizeThread
<1>3. ASSUME NEW g \in Goroutine, HandlerStep(g)
      PROVE  FALSE
  BY <1>1, <1>3 DEF HandlerStep, LoginHandOff, SendBuffered, SendOnClosed,
     SendToParked
<1>4. ASSUME NEW s \in Session, NEW g \in Goroutine, Whatsmeow(s, g)
      PROVE  FALSE
  BY <1>1, <1>4 DEF Whatsmeow, PairDevice, LogIn, Drop, Receive, MeowUnchanged
<1>5. ASSUME NEW c \in Caller, StopThread(c)
      PROVE  CloseChannel(c) /\ Crash("nil_message")
  <2>1. CASE CallStopAll(c) \/ \E u \in Uuid : CallStop(c, u)
    BY <1>1, <2>1 DEF CallStopAll, CallStop
  <2>2. CASE LookupClient(c) \/ DisconnectClient(c) \/ LookupSignal(c)
    BY <1>1, <2>2 DEF LookupClient, DisconnectClient, LookupSignal
  <2>3. CASE \/ ForgetClient(c) \/ CancelContext(c) \/ ForgetSignal(c)
             \/ LookupChannel(c) \/ ForgetChannel(c)
    BY <1>1, <2>3 DEF ForgetClient, CancelContext, ForgetSignal, LookupChannel,
       ForgetChannel
  <2>4. CASE CloseChannel(c)
    BY <1>1, <2>4 DEF CloseChannel
  <2> QED
    BY <1>5, <2>1, <2>2, <2>3, <2>4 DEF StopThread
<1>6. ASSUME NEW u \in Uuid, Disconnect(u)
      PROVE  FALSE
  BY <1>1, <1>6 DEF Disconnect
<1> QED
  BY <1>2, <1>3, <1>4, <1>5, <1>6 DEF Next

\* Stop cancels before it closes: only a loop that was awake, in the middle of
\* a callback, and whose session a Stop has already cancelled, can receive the
\* nil message of a closed channel (main.go, Stop and CallbackFunction).
THEOREM NilOnlyAwake ==
  ASSUME Serial
  PROVE  Spec => NilMessageOnlyAwake
<1>1. TypeOK /\ ParkedLoopHasNothing /\ ChannelInv /\ StreamInv /\ StopInv
        /\ [Next]_vars
        => [crashed' = "nil_message" =>
              \E s \in Session : pc[s] = "select" /\ cancelled[s]]_vars
  <2> SUFFICES ASSUME TypeOK, ParkedLoopHasNothing, ChannelInv, ThreadInv,
                      StopInv, Next, crashed' = "nil_message"
               PROVE  \E s \in Session : pc[s] = "select" /\ cancelled[s]
    BY DEF StreamInv
  <2>1. ASSUME NEW s \in Session, SelectNil(s)
        PROVE  pc[s] = "select" /\ cancelled[s]
    <3>1. pc[s] = "select" /\ channel[s] = s /\ closed[s]
      BY <2>1 DEF SelectNil, NilReady, ThreadInv, OwnLocals
    <3> QED
      BY <3>1 DEF StopInv, ClosedCancelled, Running
  <2>2. ASSUME NEW c \in Caller, CloseChannel(c), Crash("nil_message")
        PROVE  FALSE
    <3> DEFINE h == stopper[c].held
    <3>1. /\ stopper[c].at = "close"
          /\ h \in Session
          /\ uuidOf[h] = stopper[c].uuid
      BY <2>2, StopperType DEF CloseChannel, ChannelInv, ClosesUnderOwnKey
    <3>2. PICK t \in Session : pc[t] = "parked" /\ channel[t] = h
      BY <2>2 DEF CloseChannel, Crash, ParkedOn, Alive
    <3>3. t = h
      BY <3>1, <3>2 DEF ThreadInv, OwnLocals
    <3>4. cancelled[h]
      BY <3>1, <3>2, <3>3 DEF StopInv, CancelsFirst, Running
    <3> QED
      BY <3>2, <3>3, <3>4 DEF ParkedLoopHasNothing
  <2> QED
    BY <2>1, <2>2, NilMessageSteps
<1>2. SeparateSessions
  BY DEF SeparateSessions
<1> QED
  BY <1>1, <1>2, TypeCorrect, NoLostWakeup, ChannelInvariant, StreamInvariant,
     StopInvariant, PTL DEF Spec, NilMessageOnlyAwake
=============================================================================
