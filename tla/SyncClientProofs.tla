--------------------------- MODULE SyncClientProofs ---------------------------
(***************************************************************************)
(* Proofs about SyncClient, as a part of Program, for any number of        *)
(* clients, kinds of events and handlers.                                  *)
(***************************************************************************)
EXTENDS Program, SequenceTheorems, TLAPS

\* What a client was subscribed to has a handler, and only that is queued.
Subscribed(c) ==
  /\ subscribed[c] \subseteq list_func
  /\ eventChan[c] \in Seq(subscribed[c])

ClientInv == SyncTypeOK /\ CallbackReady /\ \A c \in Client : Subscribed(c)

LEMMA ClientStarts == SyncAssumption /\ SyncInit => ClientInv
<1> SUFFICES ASSUME SyncAssumption, SyncInit PROVE ClientInv
  OBVIOUS
<1>1. SyncTypeOK
  <2>1. <<>> \in Seq(Kind) /\ 0 \in 0..MaxReceived
    BY EmptySeq DEF SyncAssumption
  <2> QED
    BY <2>1 DEF SyncAssumption, SyncInit, SyncTypeOK
<1>2. CallbackReady
  BY DEF SyncInit, CallbackReady
<1>3. ASSUME NEW c \in Client PROVE Subscribed(c)
  <2>1. subscribed[c] = {} /\ eventChan[c] = <<>>
    BY <1>3 DEF SyncInit
  <2> QED
    BY <2>1, EmptySeq DEF Subscribed
<1> QED
  BY <1>1, <1>2, <1>3 DEF ClientInv

\* A step of the thread of one client leaves the others alone.
LEMMA ClientMoves ==
  ASSUME ClientInv, NEW c \in Client, NEW from, NEW to, Moves(c, from, to),
         to \in {"none", "started", "copied", "raised", "select", "callback",
                 "handler", "killed"}
  PROVE  /\ session' \in [Client -> {"none", "started", "copied", "raised",
                            "select", "callback", "handler", "killed"}]
         /\ session[c] = from /\ session'[c] = to
         /\ \A d \in Client \ {c} : session'[d] = session[d]
BY DEF ClientInv, SyncTypeOK, Moves

LEMMA SignalTypes ==
  ASSUME ClientInv, NEW c \in Client, Bytecode(c)
  PROVE  pending' \in BOOLEAN /\ event' \in BOOLEAN
BY DEF ClientInv, SyncTypeOK, Bytecode

LEMMA SubscribeKeeps ==
  ASSUME ClientInv, NEW k \in Kind, Subscribe(k)
  PROVE  ClientInv'
BY DEF Subscribe, ClientInv, SyncTypeOK, CallbackReady, Subscribed

LEMMA MainKeeps ==
  ASSUME ClientInv, MainProceeds \/ Interrupt \/ HandleSignal
  PROVE  ClientInv'
<1>1. CASE Run
  BY <1>1 DEF Run, ClientInv, SyncTypeOK, CallbackReady, Subscribed
<1>2. CASE Wait
  BY <1>2 DEF Wait, ClientInv, SyncTypeOK, CallbackReady, Subscribed
<1>3. CASE Exit
  BY <1>3 DEF Exit, Ends, ClientInv, SyncTypeOK, CallbackReady, Subscribed
<1>4. ASSUME NEW c \in Client, ConnectMain(c) PROVE ClientInv'
  BY <1>4, ClientMoves
    DEF ConnectMain, ClientInv, SyncTypeOK, CallbackReady, Subscribed
<1>5. CASE Interrupt
  BY <1>5 DEF Interrupt, ClientInv, SyncTypeOK, CallbackReady, Subscribed
<1>6. CASE HandleSignal
  BY <1>6 DEF HandleSignal, ClientInv, SyncTypeOK, CallbackReady, Subscribed
<1> QED
  BY <1>1, <1>2, <1>3, <1>4, <1>5, <1>6 DEF MainProceeds

LEMMA CopyKeeps ==
  ASSUME ClientInv, NEW c \in Client, Copy(c)
  PROVE  ClientInv'
<1>1. \A d \in Client : subscribed[d] \subseteq subscribed'[d]
  BY DEF Copy, ClientInv, SyncTypeOK, Subscribed
<1>2. SyncTypeOK'
  BY ClientMoves, SignalTypes DEF Copy, ClientInv, SyncTypeOK
<1>3. CallbackReady'
  BY <1>1, ClientMoves DEF Copy, ClientInv, CallbackReady
<1>4. ASSUME NEW d \in Client PROVE Subscribed(d)'
  <2>1. subscribed'[d] \subseteq list_func'
    BY <1>4 DEF Copy, ClientInv, SyncTypeOK, Subscribed
  <2>2. eventChan'[d] \in Seq(subscribed'[d])
    BY <1>1, <1>4, SeqMonotonic DEF Copy, ClientInv, Subscribed
  <2> QED
    BY <2>1, <2>2 DEF Subscribed
<1> QED
  BY <1>2, <1>3, <1>4 DEF ClientInv

LEMMA NeonizeKeeps ==
  ASSUME ClientInv, NEW c \in Client, Neonize(c)
  PROVE  ClientInv'
BY ClientMoves, SignalTypes
  DEF Neonize, ClientInv, SyncTypeOK, CallbackReady, Subscribed

LEMMA PanicKeeps ==
  ASSUME ClientInv, NEW c \in Client, Panic(c)
  PROVE  ClientInv'
BY DEF Panic, Ends, ClientInv, SyncTypeOK, CallbackReady, Subscribed

LEMMA ReceiveKeeps ==
  ASSUME ClientInv, NEW c \in Client, NEW k \in Kind, Receive(c, k)
  PROVE  ClientInv'
<1>1. /\ \A d \in Client \ {c} : eventChan'[d] = eventChan[d]
      /\ eventChan'[c] = Append(eventChan[c], k)
  BY DEF Receive, ClientInv, SyncTypeOK
<1>2. eventChan'[c] \in Seq(subscribed[c])
  <2>1. eventChan[c] \in Seq(subscribed[c]) /\ k \in subscribed[c]
    BY DEF Receive, ClientInv, Subscribed
  <2>2. Append(eventChan[c], k) \in Seq(subscribed[c])
    BY <2>1, AppendProperties
  <2> QED
    BY <1>1, <2>2, Zenon
<1>3. \A d \in Client : Subscribed(d)'
  BY <1>1, <1>2 DEF Receive, ClientInv, Subscribed
<1>4. eventChan' \in [Client -> Seq(Kind)]
  BY AppendProperties DEF Receive, ClientInv, SyncTypeOK
<1>5. received' \in [Client -> 0..MaxReceived]
  <2>1. received[c] + 1 \in 0..MaxReceived
    <3>1. MaxReceived \in Nat /\ received[c] \in 0..MaxReceived
      BY SyncAssumption DEF SyncAssumption, ClientInv, SyncTypeOK
    <3>2. received[c] < MaxReceived
      BY DEF Receive
    <3> QED
      BY <3>1, <3>2
  <2> QED
    BY <2>1 DEF Receive, ClientInv, SyncTypeOK
<1> QED
  BY <1>3, <1>4, <1>5 DEF Receive, ClientInv, SyncTypeOK, CallbackReady

LEMMA IntroduceKeeps ==
  ASSUME ClientInv, NEW c \in Client, Introduce(c)
  PROVE  ClientInv'
<1>1. /\ \A d \in Client \ {c} : current'[d] = current[d]
      /\ current'[c] = Me
      /\ current' \in [Client -> Kind \union {Me}]
  BY DEF Introduce, ClientInv, SyncTypeOK
<1>2. SyncTypeOK'
  BY <1>1, ClientMoves DEF Introduce, ClientInv, SyncTypeOK
<1>3. CallbackReady'
  BY <1>1, ClientMoves DEF Introduce, ClientInv, CallbackReady
<1>4. \A d \in Client : Subscribed(d)'
  BY DEF Introduce, ClientInv, Subscribed
<1> QED
  BY <1>2, <1>3, <1>4 DEF ClientInv

LEMMA DeliverKeeps ==
  ASSUME ClientInv, NEW c \in Client, Deliver(c)
  PROVE  ClientInv'
<1>1. /\ Head(eventChan[c]) \in subscribed[c]
      /\ Tail(eventChan[c]) \in Seq(subscribed[c])
  BY HeadTailProperties DEF Deliver, ClientInv, Subscribed
<1>2. Head(eventChan[c]) \in Kind /\ Tail(eventChan[c]) \in Seq(Kind)
  BY HeadTailProperties DEF Deliver, ClientInv, SyncTypeOK
<1>3. /\ \A d \in Client \ {c} : /\ eventChan'[d] = eventChan[d]
                                 /\ current'[d] = current[d]
      /\ eventChan'[c] = Tail(eventChan[c])
      /\ current'[c] = Head(eventChan[c])
  BY DEF Deliver, ClientInv, SyncTypeOK
<1>4. SyncTypeOK'
  BY <1>2, ClientMoves DEF Deliver, ClientInv, SyncTypeOK
<1>5. CallbackReady'
  BY <1>1, <1>3, ClientMoves DEF Deliver, ClientInv, CallbackReady, Subscribed
<1>6. \A d \in Client : Subscribed(d)'
  BY <1>1, <1>3 DEF Deliver, ClientInv, Subscribed
<1> QED
  BY <1>4, <1>5, <1>6 DEF ClientInv

LEMMA ExecuteKeeps ==
  ASSUME ClientInv, NEW c \in Client, Execute(c)
  PROVE  ClientInv'
BY ClientMoves, SignalTypes
  DEF Execute, ClientInv, SyncTypeOK, CallbackReady, Subscribed

LEMMA HandledKeeps ==
  ASSUME ClientInv, NEW c \in Client, Handled(c)
  PROVE  ClientInv'
BY ClientMoves, SignalTypes
  DEF Handled, ClientInv, SyncTypeOK, CallbackReady, Subscribed

LEMMA ClientStep == ClientInv /\ SyncNext => ClientInv'
BY SubscribeKeeps, MainKeeps, CopyKeeps, NeonizeKeeps, PanicKeeps, ReceiveKeeps,
   IntroduceKeeps, DeliverKeeps, ExecuteKeeps, HandledKeeps
  DEF SyncNext, ThreadProceeds

LEMMA ClientRests == ClientInv /\ UNCHANGED syncVars => ClientInv'
BY DEF syncVars, ClientInv, SyncTypeOK, CallbackReady, Subscribed

LEMMA ClientInvariant == Spec => []ClientInv
<1>1. Init => ClientInv
  BY ClientStarts, SyncAssumption DEF Init
<1>2. ClientInv /\ [Next]_programVars => ClientInv'
  BY ClientStep, ClientRests DEF Next, programVars
<1> QED
  BY <1>1, <1>2, PTL DEF Spec

\* The variables of the clients of client.py and their threads have their
\* types, for any number of clients, kinds and handlers.
THEOREM ClientsTypeCorrect == Spec => []SyncTypeOK
<1>1. ClientInv => SyncTypeOK
  BY DEF ClientInv
<1> QED
  BY <1>1, ClientInvariant, PTL

\* Event.execute finds the device and a handler, for any number of clients
\* that share list_func and whenever the program registers further handlers.
THEOREM CallbacksReady == Spec => []CallbackReady
<1>1. ClientInv => CallbackReady
  BY DEF ClientInv
<1> QED
  BY <1>1, ClientInvariant, PTL
==============================================================================
