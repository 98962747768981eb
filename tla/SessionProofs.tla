--------------------------- MODULE SessionProofs ---------------------------
(***************************************************************************)
(* Theorems about Session, for every number of sessions, goroutines and    *)
(* calls of Stop, every capacity, every assignment of subscriptions and of *)
(* uuids: the types, the sleeping loop, the channels in the registry, and  *)
(* the login of PairPhone.                                                 *)
(***************************************************************************)
EXTENDS Session, TLAPS

USE SessionAssumption

LEMMA InitType == Init => TypeOK
  BY DEF Init, TypeOK, Phase, Setup, Idle, Reason

\* A crash changes nothing but the reason of the crash.
LEMMA CrashType ==
  ASSUME TypeOK, NEW why \in Reason, Crash(why)
  PROVE  TypeOK'
  BY DEF TypeOK, Crash, registryVars, channelVars, threadVars, meowVars,
         stopVars

\* Handing an event to Python keeps the type of the two variables it changes.
LEMMA HandToPythonType ==
  ASSUME TypeOK, NEW s \in Session, NEW ev \in Event, HandToPython(s, ev)
  PROVE  /\ delivered' \in [Session -> Seq(Event)]
         /\ pc' \in [Session -> Phase]
         /\ \A t \in Session : pc'[t] = "wait_id" => pc[t] = "wait_id"
<1>1. /\ delivered' = [delivered EXCEPT ![s] = Append(delivered[s], ev)]
      /\ pc' = [pc EXCEPT ![s] = "callback"]
  BY DEF HandToPython, Goto
<1>2. Append(delivered[s], ev) \in Seq(Event)
  BY DEF TypeOK
<1> QED
  BY <1>1, <1>2 DEF TypeOK, Phase, Loop

LEMMA NeonizeThreadType ==
  ASSUME TypeOK, NEW s \in Session, NeonizeThread(s)
  PROVE  TypeOK'
<1> USE DEF TypeOK, Goto, Phase, Setup, Login, Fetch, Loop, registryVars,
            channelVars, threadVars, meowVars, stopVars
<1>1. CASE Start(s)
  BY <1>1 DEF Start
<1>2. CASE MakeChannel(s)
  BY <1>2 DEF MakeChannel
<1>3. CASE Register(s)
  BY <1>3 DEF Register
<1>4. CASE DeviceFails(s)
  BY <1>4, CrashType DEF DeviceFails, Reason
<1>5. CASE ConnectStored(s)
  BY <1>5 DEF ConnectStored
<1>6. CASE ConnectQr(s)
  BY <1>6 DEF ConnectQr
<1>7. CASE ConnectPairCode(s)
  BY <1>7 DEF ConnectPairCode
<1>8. CASE ConnectFails(s)
  BY <1>8, CrashType DEF ConnectFails, Reason
<1>9. CASE QrChannelCloses(s)
  BY <1>9 DEF QrChannelCloses
<1>10. CASE ReadChannel(s)
  BY <1>10 DEF ReadChannel
<1>11. CASE ReadStore(s)
  <2>1. CASE clients[uuidOf[s]] # None
    <3>1. clients[uuidOf[s]] \in Session
      BY <2>1
    <3>2. /\ device' = [device EXCEPT ![s] = clients[uuidOf[s]]]
          /\ pc' = [pc EXCEPT ![s] = "wait_id"]
          /\ UNCHANGED <<registryVars, cancelled, channelVars, channel,
                         delivered, meowVars, stopVars, crashed>>
      BY <1>11, <2>1 DEF ReadStore
    <3> QED
      BY <3>1, <3>2
  <2>2. CASE clients[uuidOf[s]] = None
    BY <1>11, <2>2, CrashType DEF ReadStore, Reason
  <2> QED
    BY <2>1, <2>2
<1>12. CASE DeviceKnown(s)
  <2>1. [src |-> device[s], kind |-> Me] \in Event
    BY <1>12 DEF DeviceKnown, Event
  <2> QED
    BY <1>12, <2>1, HandToPythonType DEF DeviceKnown
<1>13. CASE CallbackReturns(s)
  BY <1>13 DEF CallbackReturns
<1>14. CASE SelectDone(s)
  BY <1>14 DEF SelectDone
<1>15. CASE SelectEvent(s)
  <2> DEFINE ev == Head(queue[channel[s]])
  <2>1. /\ channel[s] \in Session
        /\ ev \in Event
        /\ Tail(queue[channel[s]]) \in Seq(Event)
    BY <1>15 DEF SelectEvent, EventReady
  <2>2. CASE Marshals(ev)
    <3>1. /\ queue' = [queue EXCEPT ![channel[s]] = Tail(queue[channel[s]])]
          /\ HandToPython(s, ev)
          /\ UNCHANGED <<registryVars, cancelled, closed, sent, channel,
                         device, meowVars, stopVars, crashed>>
      BY <1>15, <2>2 DEF SelectEvent
    <3> QED
      BY <2>1, <3>1, HandToPythonType
  <2>3. CASE ~Marshals(ev)
    BY <1>15, <2>3, CrashType DEF SelectEvent, Reason
  <2> QED
    BY <2>2, <2>3
<1>16. CASE SelectNil(s)
  BY <1>16, CrashType DEF SelectNil, Reason
<1>17. CASE Park(s)
  BY <1>17 DEF Park
<1> QED
  BY <1>1, <1>2, <1>3, <1>4, <1>5, <1>6, <1>7, <1>8, <1>9, <1>10, <1>11,
     <1>12, <1>13, <1>14, <1>15, <1>16, <1>17 DEF NeonizeThread

LEMMA HandlerStepType ==
  ASSUME TypeOK, NEW g \in Goroutine, HandlerStep(g)
  PROVE  TypeOK'
<1> USE DEF TypeOK, Goto, Phase, Setup, Login, Fetch, Loop, registryVars,
            channelVars, threadVars, meowVars, stopVars, Sending, Job
<1>1. CASE LoginHandOff(g)
  BY <1>1 DEF LoginHandOff, SendJob
<1>a. ASSUME Sending(g)
      PROVE  handler[g].src \in Session /\ JobEvent(g) \in Event
  BY <1>a DEF JobEvent, Event
<1>2. CASE SendBuffered(g)
  <2> DEFINE s == handler[g].src
  <2>1. /\ s \in Session
        /\ Append(queue[s], JobEvent(g)) \in Seq(Event)
        /\ Append(sent[s], JobEvent(g)) \in Seq(Event)
    BY <1>2, <1>a DEF SendBuffered
  <2> QED
    BY <1>2, <2>1 DEF SendBuffered
<1>3. CASE SendOnClosed(g)
  BY <1>3 DEF SendOnClosed
<1>4. ASSUME NEW t \in Session, SendToParked(g, t)
      PROVE  TypeOK'
  <2> DEFINE s == handler[g].src
  <2>1. /\ s \in Session
        /\ JobEvent(g) \in Event
        /\ Append(sent[s], JobEvent(g)) \in Seq(Event)
    BY <1>4, <1>a DEF SendToParked
  <2>2. CASE Marshals(JobEvent(g))
    <3>1. /\ HandToPython(t, JobEvent(g))
          /\ sent' = [sent EXCEPT ![s] = Append(sent[s], JobEvent(g))]
          /\ handler' = [handler EXCEPT ![g] = None]
          /\ UNCHANGED <<registryVars, cancelled, queue, closed, channel,
                         device, link, storeID, dispatched, stopVars, crashed>>
      BY <1>4, <2>2 DEF SendToParked
    <3> QED
      BY <2>1, <3>1, HandToPythonType
  <2>3. CASE ~Marshals(JobEvent(g))
    BY <1>4, <2>3, CrashType DEF SendToParked, Reason
  <2> QED
    BY <2>2, <2>3
<1> QED
  BY <1>1, <1>2, <1>3, <1>4 DEF HandlerStep

LEMMA WhatsmeowType ==
  ASSUME TypeOK, NEW s \in Session, NEW g \in Goroutine, Whatsmeow(s, g)
  PROVE  TypeOK'
<1>1. ASSUME NEW k \in Kind, EventHandler(g, s, k)
      PROVE  /\ handler' \in [Goroutine -> Job \cup {None}]
             /\ dispatched' \in [Session -> 0..MaxEvents]
  BY <1>1 DEF TypeOK, EventHandler, SendJob, Job
<1> USE DEF TypeOK, MeowUnchanged, registryVars, channelVars, threadVars,
            stopVars
<1>2. CASE PairDevice(s, g)
  BY <1>1, <1>2 DEF PairDevice
<1>3. CASE LogIn(s, g)
  BY <1>1, <1>3 DEF LogIn
<1>4. CASE Drop(s, g)
  BY <1>1, <1>4 DEF Drop
<1>5. ASSUME NEW k \in Kind, Receive(s, g, k)
      PROVE  TypeOK'
  BY <1>1, <1>5 DEF Receive
<1> QED
  BY <1>2, <1>3, <1>4, <1>5 DEF Whatsmeow

\* A thread inside Stop has a key, and between the lookup of an entry and
\* the action on it holds a session.
LEMMA StopperType ==
  ASSUME TypeOK, NEW c \in Caller, stopper[c].at # "idle"
  PROVE  /\ stopper[c] \in StopCall
         /\ stopper[c].uuid \in Uuid
         /\ stopper[c].at \in {"disconnect", "cancel", "close"}
              => stopper[c].held \in Session
<1>1. stopper[c] \in StopCall
  BY DEF TypeOK, Idle
<1> QED
  BY <1>1 DEF StopCall

LEMMA StopThreadType ==
  ASSUME TypeOK, NEW c \in Caller, StopThread(c)
  PROVE  TypeOK'
<1>1. ASSUME NEW todo \in SUBSET Uuid, StopUuid(c, todo)
      PROVE  stopper' \in [Caller -> StopCall \cup {Idle}]
  BY <1>1 DEF TypeOK, StopUuid, StopCall
<1>2. ASSUME StopNext(c), stopper[c] \in StopCall
      PROVE  stopper' \in [Caller -> StopCall \cup {Idle}]
  <2> DEFINE todo == {u \in stopper[c].todo : clients[u] # None}
  <2>1. todo \in SUBSET Uuid
    BY <1>2 DEF StopCall
  <2>2. stopper' = [stopper EXCEPT ![c] = Idle] \/ StopUuid(c, todo)
    BY <1>2 DEF StopNext
  <2>3. CASE stopper' = [stopper EXCEPT ![c] = Idle]
    BY <2>3 DEF TypeOK
  <2> QED
    BY <1>1, <2>1, <2>2, <2>3
<1> USE DEF TypeOK, registryVars, channelVars, threadVars, meowVars, stopVars
<1>3. CASE CallStopAll(c)
  BY <1>1, <1>3 DEF CallStopAll
<1>4. ASSUME NEW u \in Uuid, CallStop(c, u)
      PROVE  TypeOK'
  BY <1>1, <1>4 DEF CallStop
<1>a. ASSUME NEW p, NEW s, StopAt(c, p, s), stopper[c] \in StopCall,
             \/ /\ p \in {"forget_client", "lookup_signal", "forget_signal",
                         "lookup_channel", "forget_channel"}
                /\ s = None
             \/ p \in {"disconnect", "cancel", "close"} /\ s \in Session
      PROVE  stopper' \in [Caller -> StopCall \cup {Idle}]
  BY <1>a DEF StopAt, StopCall
<1>5. CASE LookupClient(c)
  <2>1. clients[stopper[c].uuid] \in Session \cup {None}
    BY <1>5, StopperType DEF LookupClient
  <2> QED
    BY <1>5, StopperType, <1>a, <2>1 DEF LookupClient
<1>6. CASE DisconnectClient(c) \/ ForgetClient(c) \/ ForgetSignal(c)
  <2>1. stopper' \in [Caller -> StopCall \cup {Idle}]
    BY <1>6, StopperType, <1>a DEF DisconnectClient, ForgetClient, ForgetSignal
  <2>2. CASE DisconnectClient(c)
    BY <2>1, <2>2, StopperType DEF DisconnectClient
  <2>3. CASE ForgetClient(c)
    BY <2>1, <2>3, StopperType DEF ForgetClient
  <2>4. CASE ForgetSignal(c)
    BY <2>1, <2>4, StopperType DEF ForgetSignal
  <2> QED
    BY <1>6, <2>2, <2>3, <2>4
<1>7. CASE LookupSignal(c)
  <2>1. StopSignal[stopper[c].uuid] \in Session \cup {None}
    BY <1>7, StopperType DEF LookupSignal
  <2> QED
    BY <1>7, StopperType, <1>a, <2>1 DEF LookupSignal
<1>8. CASE CancelContext(c)
  <2>1. stopper' \in [Caller -> StopCall \cup {Idle}]
    BY <1>8, StopperType, <1>a DEF CancelContext
  <2>2. /\ pc' \in [Session -> Phase]
        /\ \A t \in Session : pc'[t] = "wait_id" => pc[t] = "wait_id"
    BY <1>8 DEF CancelContext, Phase
  <2> QED
    BY <1>8, StopperType, <2>1, <2>2 DEF CancelContext
<1>9. CASE LookupChannel(c)
  <2>1. eventChannel[stopper[c].uuid] \in Session \cup {None}
    BY <1>9, StopperType DEF LookupChannel
  <2>2. stopper' \in [Caller -> StopCall \cup {Idle}]
    BY <1>2, <1>9, StopperType, <1>a, <2>1 DEF LookupChannel
  <2> QED
    BY <1>9, <2>2 DEF LookupChannel
<1>10. CASE CloseChannel(c)
  <2>1. CASE ~closed[stopper[c].held] /\ ParkedOn(stopper[c].held) = {}
    <3>1. stopper' \in [Caller -> StopCall \cup {Idle}]
      BY <1>a, <1>10, StopperType, <2>1 DEF CloseChannel
    <3> QED
      BY <1>10, StopperType, <2>1, <3>1 DEF CloseChannel
  <2>2. CASE closed[stopper[c].held] \/ ParkedOn(stopper[c].held) # {}
    <3>1. PICK why \in Reason : Crash(why)
      BY <1>10, <2>2 DEF CloseChannel, Reason
    <3> QED
      BY <3>1, CrashType
  <2> QED
    BY <2>1, <2>2
<1>11. CASE ForgetChannel(c)
  <2>1. stopper' \in [Caller -> StopCall \cup {Idle}]
    BY <1>2, <1>11, StopperType DEF ForgetChannel
  <2> QED
    BY <1>11, <2>1 DEF ForgetChannel
<1> QED
  BY <1>3, <1>4, <1>5, <1>6, <1>7, <1>8, <1>9, <1>10, <1>11 DEF StopThread

LEMMA NextType == TypeOK /\ [Next]_vars => TypeOK'
<1> SUFFICES ASSUME TypeOK, [Next]_vars
             PROVE  TypeOK'
  OBVIOUS
<1>1. ASSUME NEW u \in Uuid, Disconnect(u)
      PROVE  TypeOK'
  <2>1. CASE clients[u] # None
    <3>1. link' \in [Session -> {"down", "dialed", "online"}]
      BY <1>1, <2>1 DEF Disconnect, TypeOK
    <3>2. UNCHANGED <<clients, StopSignal, eventChannel, cancelled, queue,
                      closed, sent, pc, channel, device, delivered, storeID,
                      handler, dispatched, stopper, stops, crashed>>
      BY <1>1, <2>1 DEF Disconnect, registryVars, channelVars, threadVars,
         stopVars
    <3> QED
      BY <3>1, <3>2 DEF TypeOK
  <2>2. CASE clients[u] = None
    BY <1>1, <2>2, CrashType DEF Disconnect, Reason
  <2> QED
    BY <2>1, <2>2
<1>2. CASE UNCHANGED vars
  BY <1>2 DEF TypeOK, vars, registryVars, channelVars, threadVars, meowVars,
     stopVars
<1> QED
  BY <1>1, <1>2, NeonizeThreadType, HandlerStepType, WhatsmeowType,
     StopThreadType DEF Next

\* Every variable keeps its type.
THEOREM TypeCorrect == Spec => []TypeOK
<1>1. Init => TypeOK
  BY InitType
<1>2. TypeOK /\ [Next]_vars => TypeOK'
  BY NextType
<1> QED
  BY <1>1, <1>2, PTL DEF Spec

-----------------------------------------------------------------------------
(***************************************************************************)
(* No lost wake-up.  The invariant is inductive by itself: a send that     *)
(* finds a parked loop does not use the buffer, a cancel unparks, and a    *)
(* close that finds a parked loop ends the process.                        *)
(***************************************************************************)

LEMMA ParkedNeonizeThread ==
  ASSUME TypeOK, ParkedLoopHasNothing, NEW s \in Session, NeonizeThread(s)
  PROVE  ParkedLoopHasNothing'
<1> USE DEF TypeOK, ParkedLoopHasNothing, EventReady, NilReady, Goto, Crash,
            registryVars, channelVars, threadVars, meowVars, stopVars
<1>1. CASE Start(s) \/ MakeChannel(s) \/ Register(s)
  BY <1>1 DEF Start, MakeChannel, Register
<1>2. CASE DeviceFails(s) \/ ConnectFails(s) \/ SelectNil(s)
  BY <1>2 DEF DeviceFails, ConnectFails, SelectNil
<1>3. CASE ConnectStored(s) \/ ConnectQr(s) \/ ConnectPairCode(s)
  BY <1>3 DEF ConnectStored, ConnectQr, ConnectPairCode
<1>4. CASE QrChannelCloses(s)
  BY <1>4 DEF QrChannelCloses
<1>5. CASE ReadChannel(s)
  BY <1>5 DEF ReadChannel
<1>6. CASE ReadStore(s)
  BY <1>6 DEF ReadStore
<1>7. CASE DeviceKnown(s)
  BY <1>7 DEF DeviceKnown, HandToPython
<1>8. CASE CallbackReturns(s) \/ SelectDone(s)
  BY <1>8 DEF CallbackReturns, SelectDone
<1>9. CASE SelectEvent(s)
  <2>1. CASE UNCHANGED <<pc, cancelled, channel, queue, closed>>
    BY <2>1
  <2>2. CASE /\ pc' = [pc EXCEPT ![s] = "callback"]
             /\ queue' = [queue EXCEPT ![channel[s]] = Tail(@)]
             /\ UNCHANGED <<cancelled, channel, closed>>
    <3> SUFFICES ASSUME NEW t \in Session, pc'[t] = "parked"
                 PROVE  ~cancelled'[t] /\ ~EventReady(t)' /\ ~NilReady(t)'
      BY DEF ParkedLoopHasNothing
    <3>1. pc[t] = "parked"
      BY <2>2
    <3>2. channel[t] = None \/ channel[t] # channel[s]
      BY <1>9, <3>1 DEF SelectEvent
    <3> QED
      BY <2>2, <3>1, <3>2
  <2> QED
    BY <1>9, <2>1, <2>2 DEF SelectEvent, HandToPython
<1>10. CASE Park(s)
  BY <1>10 DEF Park
<1> QED
  BY <1>1, <1>2, <1>3, <1>4, <1>5, <1>6, <1>7, <1>8, <1>9, <1>10
     DEF NeonizeThread

LEMMA ParkedHandlerStep ==
  ASSUME TypeOK, ParkedLoopHasNothing, NEW g \in Goroutine, HandlerStep(g)
  PROVE  ParkedLoopHasNothing'
<1> USE DEF TypeOK, ParkedLoopHasNothing, EventReady, NilReady, Goto, Crash,
            registryVars, channelVars, threadVars, meowVars, stopVars
<1>1. CASE LoginHandOff(g)
  BY <1>1 DEF LoginHandOff
<1>2. CASE SendBuffered(g)
  <2> DEFINE s == handler[g].src
  <2>1. s \in Session
    BY <1>2 DEF SendBuffered, Sending, Job
  <2> SUFFICES ASSUME NEW t \in Session, pc[t] = "parked"
               PROVE  ~cancelled[t] /\ ~EventReady(t)' /\ ~NilReady(t)'
    BY <1>2 DEF SendBuffered, ParkedLoopHasNothing
  <2>2. channel[t] # s
    BY <1>2 DEF SendBuffered, ParkedOn
  <2> QED
    BY <1>2, <2>1, <2>2 DEF SendBuffered
<1>3. CASE SendOnClosed(g)
  BY <1>3 DEF SendOnClosed
<1>4. ASSUME NEW t \in Session, SendToParked(g, t)
      PROVE  ParkedLoopHasNothing'
  <2>1. /\ UNCHANGED <<cancelled, channel, queue, closed>>
        /\ pc' = pc \/ pc' = [pc EXCEPT ![t] = "callback"]
    BY <1>4 DEF SendToParked, HandToPython
  <2> QED
    BY <2>1
<1> QED
  BY <1>1, <1>2, <1>3, <1>4 DEF HandlerStep

LEMMA ParkedStopThread ==
  ASSUME TypeOK, ParkedLoopHasNothing, NEW c \in Caller, StopThread(c)
  PROVE  ParkedLoopHasNothing'
<1> USE DEF TypeOK, ParkedLoopHasNothing, EventReady, NilReady, Crash,
            registryVars, channelVars, threadVars, meowVars, stopVars
<1>1. CASE CallStopAll(c) \/ \E u \in Uuid : CallStop(c, u)
  BY <1>1 DEF CallStopAll, CallStop
<1>2. CASE LookupClient(c) \/ LookupSignal(c) \/ LookupChannel(c)
  BY <1>2 DEF LookupClient, LookupSignal, LookupChannel
<1>3. CASE DisconnectClient(c) \/ ForgetClient(c) \/ ForgetSignal(c)
           \/ ForgetChannel(c)
  BY <1>3 DEF DisconnectClient, ForgetClient, ForgetSignal, ForgetChannel
<1>4. CASE CancelContext(c)
  <2>1. \A t \in Session :
          pc'[t] = "parked" => pc[t] = "parked" /\ cancelled'[t] = cancelled[t]
    BY <1>4 DEF CancelContext
  <2> QED
    BY <1>4, <2>1 DEF CancelContext
<1>5. CASE CloseChannel(c)
  <2>1. CASE UNCHANGED <<pc, cancelled, channel, queue, closed>>
    BY <2>1
  <2>2. CASE /\ ParkedOn(stopper[c].held) = {}
             /\ closed' = [closed EXCEPT ![stopper[c].held] = TRUE]
             /\ UNCHANGED <<pc, cancelled, channel, queue>>
    <3> SUFFICES ASSUME NEW t \in Session, pc[t] = "parked"
                 PROVE  ~cancelled[t] /\ ~EventReady(t)' /\ ~NilReady(t)'
      BY <2>2 DEF ParkedLoopHasNothing
    <3>1. channel[t] # stopper[c].held
      BY <2>2 DEF ParkedOn
    <3> QED
      BY <2>2, <3>1
  <2> QED
    BY <1>5, <2>1, <2>2 DEF CloseChannel
<1> QED
  BY <1>1, <1>2, <1>3, <1>4, <1>5 DEF StopThread

\* A loop asleep in its select has nothing to receive and no reason to stop.
THEOREM NoLostWakeup == Spec => []ParkedLoopHasNothing
<1>1. Init => ParkedLoopHasNothing
  BY DEF Init, ParkedLoopHasNothing
<1>2. TypeOK /\ ParkedLoopHasNothing /\ [Next]_vars => ParkedLoopHasNothing'
  <2> SUFFICES ASSUME TypeOK, ParkedLoopHasNothing, [Next]_vars
               PROVE  ParkedLoopHasNothing'
    OBVIOUS
  <2>1. CASE UNCHANGED <<pc, cancelled, channel, queue, closed>>
    BY <2>1 DEF ParkedLoopHasNothing, EventReady, NilReady
  <2>2. ASSUME NEW s \in Session, NEW g \in Goroutine, Whatsmeow(s, g)
        PROVE  UNCHANGED <<pc, cancelled, channel, queue, closed>>
    BY <2>2 DEF Whatsmeow, PairDevice, LogIn, Drop, Receive, MeowUnchanged,
       channelVars, threadVars
  <2>3. ASSUME NEW u \in Uuid, Disconnect(u)
        PROVE  UNCHANGED <<pc, cancelled, channel, queue, closed>>
    BY <2>3 DEF Disconnect, Crash, channelVars, threadVars
  <2> QED
    BY <2>1, <2>2, <2>3, ParkedNeonizeThread, ParkedHandlerStep,
       ParkedStopThread DEF Next, vars, channelVars, threadVars
<1> QED
  BY <1>1, <1>2, TypeCorrect, PTL DEF Spec

-----------------------------------------------------------------------------
(***************************************************************************)
(* Closed channels leave the registry.  A channel is registered only under *)
(* the uuid of its session, so the entry that the Stop which closed it is  *)
(* about to delete is the only one that can name it; and a channel cannot  *)
(* be closed before it has been registered.                                *)
(***************************************************************************)

\* The session has registered its channel.
Channelled(s) == pc[s] \notin {"start", "signalled"}

RegisteredUnderOwnKey ==
  \A u \in Uuid :
    eventChannel[u] # None =>
      uuidOf[eventChannel[u]] = u /\ Channelled(eventChannel[u])

ClosedAfterRegistered == \A s \in Session : closed[s] => Channelled(s)

ClosesUnderOwnKey ==
  \A c \in Caller :
    stopper[c].at = "close" =>
      /\ uuidOf[stopper[c].held] = stopper[c].uuid
      /\ Channelled(stopper[c].held)

ChannelInv ==
  /\ RegisteredUnderOwnKey
  /\ ClosedAfterRegistered
  /\ ClosesUnderOwnKey
  /\ ClosedChannelsLeave

\* A step that leaves the channels alone, sends no session back to the start,
\* lets a thread reach "close" only with what it finds in the registry, and does
\* not take one from the deletion it is about to do.
LEMMA ChannelInvKept ==
  ASSUME TypeOK, ChannelInv,
         UNCHANGED <<eventChannel, closed>>,
         \A s \in Session : Channelled(s) =>
                              pc'[s] \notin {"start", "signalled"},
         \A c \in Caller : stopper'[c].at = "close" =>
           \/ stopper'[c] = stopper[c]
           \/ /\ stopper'[c].uuid \in Uuid
              /\ stopper'[c].held # None
              /\ stopper'[c].held = eventChannel[stopper'[c].uuid],
         \A c \in Caller :
           stopper[c].at = "forget_channel" => stopper'[c] = stopper[c]
  PROVE  ChannelInv'
<1>1. RegisteredUnderOwnKey'
  BY DEF TypeOK, ChannelInv, RegisteredUnderOwnKey, Channelled
<1>2. ClosedAfterRegistered'
  BY DEF ChannelInv, ClosedAfterRegistered, Channelled
<1>3. ClosesUnderOwnKey'
  <2> SUFFICES ASSUME NEW c \in Caller, stopper'[c].at = "close"
               PROVE  /\ uuidOf[stopper'[c].held] = stopper'[c].uuid
                      /\ pc'[stopper'[c].held] \notin {"start", "signalled"}
    BY DEF ClosesUnderOwnKey, Channelled
  <2>1. CASE stopper'[c] = stopper[c]
    BY <2>1, StopperType DEF ChannelInv, ClosesUnderOwnKey, Channelled
  <2>2. CASE /\ stopper'[c].uuid \in Uuid
             /\ stopper'[c].held # None
             /\ stopper'[c].held = eventChannel[stopper'[c].uuid]
    BY <2>2 DEF TypeOK, ChannelInv, RegisteredUnderOwnKey, Channelled
  <2> QED
    BY <2>1, <2>2
<1>4. ClosedChannelsLeave'
  <2> SUFFICES ASSUME NEW u \in Uuid, eventChannel[u] # None,
                      closed[eventChannel[u]]
               PROVE  \E c \in Caller : /\ stopper'[c].at = "forget_channel"
                                        /\ stopper'[c].uuid = u
    BY DEF ClosedChannelsLeave
  <2>1. PICK c \in Caller : stopper[c].at = "forget_channel" /\ stopper[c].uuid = u
    BY DEF ChannelInv, ClosedChannelsLeave
  <2> QED
    BY <2>1
<1> QED
  BY <1>1, <1>2, <1>3, <1>4 DEF ChannelInv

LEMMA ChannelInvNeonizeThread ==
  ASSUME TypeOK, ChannelInv, NEW s \in Session, NeonizeThread(s)
  PROVE  ChannelInv'
<1> USE DEF Goto, registryVars, channelVars, threadVars, meowVars, stopVars
<1>1. CASE MakeChannel(s)
  <2>1. /\ pc[s] = "signalled"
        /\ pc' = [pc EXCEPT ![s] = "queued"]
        /\ eventChannel' = [eventChannel EXCEPT ![uuidOf[s]] = s]
        /\ UNCHANGED <<closed, stopper>>
    BY <1>1 DEF MakeChannel
  <2>2. RegisteredUnderOwnKey' /\ ClosedAfterRegistered'
    BY <2>1 DEF TypeOK, ChannelInv, Channelled, RegisteredUnderOwnKey,
       ClosedAfterRegistered
  <2>3. ClosesUnderOwnKey'
    BY <2>1, StopperType DEF TypeOK, ChannelInv, Channelled, ClosesUnderOwnKey
  <2>4. ClosedChannelsLeave'
    <3>1. ~closed[s]
      BY <2>1 DEF ChannelInv, ClosedAfterRegistered, Channelled
    <3> QED
      BY <2>1, <3>1 DEF TypeOK, ChannelInv, ClosedChannelsLeave
  <2> QED
    BY <2>2, <2>3, <2>4 DEF ChannelInv
<1>2. ASSUME ~MakeChannel(s)
      PROVE  /\ UNCHANGED <<eventChannel, closed, stopper>>
             /\ \A t \in Session : Channelled(t) =>
                                     pc'[t] \notin {"start", "signalled"}
  <2> USE DEF TypeOK, Channelled, Crash, HandToPython
  <2>1. CASE Start(s) \/ Register(s) \/ DeviceFails(s)
    BY <2>1 DEF Start, Register, DeviceFails
  <2>2. CASE ConnectStored(s) \/ ConnectQr(s) \/ ConnectPairCode(s)
             \/ ConnectFails(s) \/ QrChannelCloses(s)
    BY <2>2 DEF ConnectStored, ConnectQr, ConnectPairCode, ConnectFails,
       QrChannelCloses
  <2>3. CASE ReadChannel(s) \/ ReadStore(s) \/ DeviceKnown(s)
    <3>1. /\ UNCHANGED <<eventChannel, closed, stopper>>
          /\ pc' = pc \/ \E p \in {"fetch_me", "wait_id", "callback"} :
                           pc' = [pc EXCEPT ![s] = p]
      BY <2>3 DEF ReadChannel, ReadStore, DeviceKnown
    <3> QED
      BY <3>1
  <2>4. CASE CallbackReturns(s) \/ SelectDone(s) \/ SelectNil(s) \/ Park(s)
    BY <2>4 DEF CallbackReturns, SelectDone, SelectNil, Park
  <2>5. CASE SelectEvent(s)
    BY <2>5 DEF SelectEvent
  <2> QED
    BY <1>2, <2>1, <2>2, <2>3, <2>4, <2>5 DEF NeonizeThread
<1> QED
  BY <1>1, <1>2, ChannelInvKept

\* Whether it begins a Stop or ends one, a thread is then idle or about to look
\* up a client.
LEMMA StopBeginsAndEnds ==
  ASSUME TypeOK, NEW c \in Caller,
         StopNext(c) \/ \E todo \in SUBSET Uuid : StopUuid(c, todo)
  PROVE  \A d \in Caller :
           /\ stopper'[d].at = "close" => stopper'[d] = stopper[d]
           /\ d # c => stopper'[d] = stopper[d]
<1>1. ASSUME NEW todo, StopUuid(c, todo)
      PROVE  \A d \in Caller :
               /\ stopper'[d].at = "close" => stopper'[d] = stopper[d]
               /\ d # c => stopper'[d] = stopper[d]
  BY <1>1 DEF StopUuid, TypeOK
<1>2. CASE stopper' = [stopper EXCEPT ![c] = Idle]
  BY <1>2 DEF TypeOK, Idle
<1> QED
  BY <1>1, <1>2 DEF StopNext

\* A thread that goes to another step than "close" gets nothing to close.
LEMMA StopAtElsewhere ==
  ASSUME TypeOK, NEW c \in Caller, NEW p, NEW s, StopAt(c, p, s), p # "close"
  PROVE  \A d \in Caller :
           /\ stopper'[d].at = "close" => stopper'[d] = stopper[d]
           /\ d # c => stopper'[d] = stopper[d]
  BY DEF StopAt, TypeOK

LEMMA ChannelInvStopThread ==
  ASSUME TypeOK, ChannelInv, NEW c \in Caller, StopThread(c)
  PROVE  ChannelInv'
<1> USE DEF TypeOK, registryVars, channelVars, threadVars, meowVars, stopVars
<1>1. CASE CallStopAll(c) \/ \E u \in Uuid : CallStop(c, u)
  <2>1. /\ \E todo \in SUBSET Uuid : StopUuid(c, todo)
        /\ UNCHANGED <<eventChannel, closed, pc>>
        /\ stopper[c] = Idle
    BY <1>1 DEF CallStopAll, CallStop
  <2>2. stopper[c].at # "forget_channel"
    BY <2>1 DEF Idle
  <2> QED
    BY <2>1, <2>2, StopBeginsAndEnds, ChannelInvKept DEF Channelled
<1>2. CASE \/ LookupClient(c) \/ DisconnectClient(c) \/ ForgetClient(c)
           \/ LookupSignal(c) \/ ForgetSignal(c)
  <2>1. PICK p \in {"forget_client", "lookup_channel", "lookup_signal",
                    "disconnect", "cancel"},
             s \in Session \cup {None} : StopAt(c, p, s)
    BY <1>2, StopperType DEF LookupClient, DisconnectClient, ForgetClient,
       LookupSignal, ForgetSignal
  <2>2. UNCHANGED <<eventChannel, closed, pc>> /\ stopper[c].at # "forget_channel"
    BY <1>2 DEF LookupClient, DisconnectClient, ForgetClient, LookupSignal,
       ForgetSignal
  <2> QED
    BY <2>1, <2>2, StopAtElsewhere, ChannelInvKept DEF Channelled
<1>3. CASE CancelContext(c)
  <2>1. \A s \in Session : Channelled(s) =>
                              pc'[s] \notin {"start", "signalled"}
    BY <1>3 DEF CancelContext, Channelled
  <2>2. /\ UNCHANGED <<eventChannel, closed>>
        /\ stopper[c].at = "cancel"
        /\ StopAt(c, "forget_signal", None)
    BY <1>3 DEF CancelContext
  <2> QED
    BY <2>1, <2>2, StopAtElsewhere, ChannelInvKept
<1>4. CASE LookupChannel(c)
  <2> DEFINE s == eventChannel[stopper[c].uuid]
  <2>1. stopper[c].uuid \in Uuid
    BY <1>4, StopperType DEF LookupChannel
  <2>2. CASE s = None
    BY <1>4, <2>2, StopBeginsAndEnds, ChannelInvKept DEF LookupChannel,
       Channelled
  <2>3. CASE s # None
    BY <1>4, <2>1, <2>3, ChannelInvKept DEF LookupChannel, StopAt, Channelled
  <2> QED
    BY <2>2, <2>3
<1>5. CASE CloseChannel(c)
  <2> DEFINE s == stopper[c].held
  <2>1. s \in Session /\ stopper[c].uuid \in Uuid /\ stopper[c].at = "close"
    BY <1>5, StopperType DEF CloseChannel
  <2>2. uuidOf[s] = stopper[c].uuid /\ Channelled(s)
    BY <1>5 DEF CloseChannel, ChannelInv, ClosesUnderOwnKey
  <2>3. CASE \E why \in Reason : Crash(why)
    BY <2>3, ChannelInvKept DEF Crash, Channelled
  <2>4. CASE /\ closed' = [closed EXCEPT ![s] = TRUE]
             /\ StopAt(c, "forget_channel", None)
             /\ UNCHANGED <<eventChannel, pc>>
    <3>1. RegisteredUnderOwnKey'
      BY <2>4 DEF ChannelInv, RegisteredUnderOwnKey, Channelled
    <3>2. ClosedAfterRegistered'
      BY <2>1, <2>2, <2>4 DEF ChannelInv, ClosedAfterRegistered, Channelled
    <3>3. ClosesUnderOwnKey'
      BY <2>4, StopAtElsewhere DEF ChannelInv, ClosesUnderOwnKey, Channelled
    <3>4. ClosedChannelsLeave'
      <4> SUFFICES ASSUME NEW u \in Uuid, eventChannel[u] # None,
                          closed'[eventChannel[u]]
                   PROVE  \E d \in Caller : /\ stopper'[d].at = "forget_channel"
                                            /\ stopper'[d].uuid = u
        BY <2>4 DEF ClosedChannelsLeave
      <4>1. CASE eventChannel[u] = s
        <5>1. stopper[c].uuid = u
          BY <2>2, <4>1 DEF ChannelInv, RegisteredUnderOwnKey
        <5> QED
          BY <2>4, <5>1 DEF StopAt
      <4>2. CASE eventChannel[u] # s
        <5>1. closed[eventChannel[u]]
          BY <2>1, <2>4, <4>2
        <5>2. PICK d \in Caller : /\ stopper[d].at = "forget_channel"
                                  /\ stopper[d].uuid = u
          BY <5>1 DEF ChannelInv, ClosedChannelsLeave
        <5>3. d # c
          BY <2>1, <5>2
        <5>4. stopper'[d] = stopper[d]
          BY <2>4, <5>3, StopAtElsewhere
        <5> QED
          BY <5>2, <5>4
      <4> QED
        BY <4>1, <4>2
    <3> QED
      BY <3>1, <3>2, <3>3, <3>4 DEF ChannelInv
  <2> QED
    BY <1>5, <2>3, <2>4 DEF CloseChannel, Reason
<1>6. CASE ForgetChannel(c)
  <2>1. /\ eventChannel' = [eventChannel EXCEPT ![stopper[c].uuid] = None]
        /\ StopNext(c)
        /\ UNCHANGED <<closed, pc>>
    BY <1>6 DEF ForgetChannel
  <2>2. stopper[c].uuid \in Uuid
    BY <1>6, StopperType DEF ForgetChannel
  <2>3. RegisteredUnderOwnKey'
    BY <2>1, <2>2 DEF ChannelInv, RegisteredUnderOwnKey, Channelled
  <2>4. ClosedAfterRegistered'
    BY <2>1 DEF ChannelInv, ClosedAfterRegistered, Channelled
  <2>5. ClosesUnderOwnKey'
    BY <2>1, StopBeginsAndEnds DEF ChannelInv, ClosesUnderOwnKey, Channelled
  <2>6. ClosedChannelsLeave'
    <3> SUFFICES ASSUME NEW u \in Uuid, eventChannel'[u] # None,
                        closed'[eventChannel'[u]]
                 PROVE  \E d \in Caller : /\ stopper'[d].at = "forget_channel"
                                          /\ stopper'[d].uuid = u
      BY DEF ClosedChannelsLeave
    <3>1. u # stopper[c].uuid /\ eventChannel'[u] = eventChannel[u]
      BY <2>1, <2>2
    <3>2. PICK d \in Caller : /\ stopper[d].at = "forget_channel"
                              /\ stopper[d].uuid = u
      BY <2>1, <3>1 DEF ChannelInv, ClosedChannelsLeave
    <3>3. stopper'[d] = stopper[d]
      BY <2>1, <3>1, <3>2, StopBeginsAndEnds
    <3> QED
      BY <3>2, <3>3
  <2> QED
    BY <2>3, <2>4, <2>5, <2>6 DEF ChannelInv
<1> QED
  BY <1>1, <1>2, <1>3, <1>4, <1>5, <1>6 DEF StopThread

\* The steps of the event handlers, of whatsmeow and of Disconnect.
LEMMA ChannelInvOthers ==
  ASSUME TypeOK, ChannelInv,
         \/ \E g \in Goroutine : HandlerStep(g)
         \/ \E s \in Session, g \in Goroutine : Whatsmeow(s, g)
         \/ \E u \in Uuid : Disconnect(u)
         \/ UNCHANGED vars
  PROVE  ChannelInv'
<1> USE DEF TypeOK, Channelled, Goto, Crash, HandToPython, registryVars,
            channelVars, threadVars, meowVars, stopVars
<1>1. ASSUME NEW g \in Goroutine, HandlerStep(g)
      PROVE  ChannelInv'
  <2>1. CASE LoginHandOff(g)
    BY <2>1, ChannelInvKept DEF LoginHandOff
  <2>2. CASE SendBuffered(g) \/ SendOnClosed(g)
    BY <2>2, ChannelInvKept DEF SendBuffered, SendOnClosed
  <2>3. ASSUME NEW t \in Session, SendToParked(g, t)
        PROVE  ChannelInv'
    <3>1. /\ UNCHANGED <<eventChannel, closed, stopper>>
          /\ pc' = pc \/ pc' = [pc EXCEPT ![t] = "callback"]
      BY <2>3 DEF SendToParked
    <3> QED
      BY <3>1, ChannelInvKept
  <2> QED
    BY <1>1, <2>1, <2>2, <2>3 DEF HandlerStep
<1>2. ASSUME NEW s \in Session, NEW g \in Goroutine, Whatsmeow(s, g)
      PROVE  ChannelInv'
  BY <1>2, ChannelInvKept DEF Whatsmeow, PairDevice, LogIn, Drop, Receive,
     MeowUnchanged
<1>3. ASSUME NEW u \in Uuid, Disconnect(u)
      PROVE  ChannelInv'
  BY <1>3, ChannelInvKept DEF Disconnect
<1>4. CASE UNCHANGED vars
  BY <1>4, ChannelInvKept DEF vars
<1> QED
  BY <1>1, <1>2, <1>3, <1>4

LEMMA ChannelInvariant == Spec => []ChannelInv
<1>1. Init => ChannelInv
  BY DEF Init, ChannelInv, RegisteredUnderOwnKey, ClosedAfterRegistered,
     ClosesUnderOwnKey, ClosedChannelsLeave, Idle
<1>2. TypeOK /\ ChannelInv /\ [Next]_vars => ChannelInv'
  BY ChannelInvNeonizeThread, ChannelInvStopThread, ChannelInvOthers DEF Next
<1> QED
  BY <1>1, <1>2, TypeCorrect, PTL DEF Spec

\* The registry names a closed channel only while a Stop is about to delete it:
\* a Stop that begins when no other is running finds none, so that only Stops
\* that overlap close a channel twice (main.go, Stop).
THEOREM NoClosedChannelStays == Spec => []ClosedChannelsLeave
<1>1. ChannelInv => ClosedChannelsLeave
  BY DEF ChannelInv
<1> QED
  BY <1>1, ChannelInvariant, PTL

-----------------------------------------------------------------------------
(***************************************************************************)
(* The login of PairPhone.  A handler that waits to hand over the login    *)
(* belongs to a session whose store already has an ID, because whatsmeow   *)
(* logs in only with one, and the thread of Neonize has no other way from  *)
(* PairPhone to FetchMe.                                                   *)
(***************************************************************************)
LoginMeansPaired ==
  \A g \in Goroutine :
    handler[g] # None /\ handler[g].at = "login" => storeID[handler[g].src]

NoQrInPairMode == \A s \in PairMode : pc[s] # "qr"

PairInv == LoginMeansPaired /\ NoQrInPairMode /\ PairedBeforeDevice

LEMMA PairInvNeonizeThread ==
  ASSUME TypeOK, PairInv, NEW s \in Session, NeonizeThread(s)
  PROVE  PairInv'
<1> USE DEF TypeOK, Goto, Crash, HandToPython, PairInv, LoginMeansPaired,
            NoQrInPairMode, PairedBeforeDevice, Fetch, Loop, registryVars,
            channelVars, threadVars, meowVars, stopVars
<1>1. CASE Start(s) \/ MakeChannel(s) \/ Register(s) \/ DeviceFails(s)
  <2>1. /\ UNCHANGED <<handler, storeID>>
        /\ pc' = pc \/ \E p \in Setup : pc' = [pc EXCEPT ![s] = p]
    BY <1>1 DEF Start, MakeChannel, Register, DeviceFails, Setup
  <2> QED
    BY <2>1 DEF Setup
<1>2. CASE ConnectStored(s)
  BY <1>2 DEF ConnectStored
<1>3. CASE ConnectQr(s) \/ ConnectPairCode(s) \/ ConnectFails(s)
  <2>1. /\ UNCHANGED <<handler, storeID>>
        /\ \/ pc' = pc
           \/ s \notin PairMode /\ pc' = [pc EXCEPT ![s] = "qr"]
           \/ pc' = [pc EXCEPT ![s] = "login"]
    BY <1>3 DEF ConnectQr, ConnectPairCode, ConnectFails
  <2> QED
    BY <2>1
<1>4. CASE QrChannelCloses(s)
  BY <1>4 DEF QrChannelCloses
<1>5. CASE ReadChannel(s) \/ ReadStore(s) \/ DeviceKnown(s)
  <2>1. /\ UNCHANGED <<handler, storeID>>
        /\ pc' = pc \/ (pc[s] \in Fetch
                          /\ \E p \in Fetch \cup Loop : pc' = [pc EXCEPT ![s] = p])
    BY <1>5 DEF ReadChannel, ReadStore, DeviceKnown
  <2> QED
    BY <2>1
<1>6. CASE CallbackReturns(s) \/ SelectDone(s) \/ SelectNil(s) \/ Park(s)
  <2>1. /\ UNCHANGED <<handler, storeID>>
        /\ pc[s] \in Loop
        /\ pc' = pc \/ \E p \in Loop \cup {"returned"} :
                         pc' = [pc EXCEPT ![s] = p]
    BY <1>6 DEF CallbackReturns, SelectDone, SelectNil, Park
  <2> QED
    BY <2>1
<1>7. CASE SelectEvent(s)
  <2>1. /\ UNCHANGED <<handler, storeID>>
        /\ pc[s] \in Loop
        /\ pc' = pc \/ pc' = [pc EXCEPT ![s] = "callback"]
    BY <1>7 DEF SelectEvent
  <2> QED
    BY <2>1
<1> QED
  BY <1>1, <1>2, <1>3, <1>4, <1>5, <1>6, <1>7 DEF NeonizeThread

LEMMA PairInvHandlerStep ==
  ASSUME TypeOK, PairInv, NEW g \in Goroutine, HandlerStep(g)
  PROVE  PairInv'
<1> USE DEF Crash, registryVars, channelVars, threadVars, meowVars, stopVars
<1>1. CASE LoginHandOff(g)
  <2> DEFINE s == handler[g].src
  <2>1. /\ s \in Session /\ storeID[s]
        /\ pc' = [pc EXCEPT ![s] = "fetch"]
        /\ handler' = [handler EXCEPT ![g] = SendJob(s, handler[g].kind)]
        /\ UNCHANGED storeID
    BY <1>1 DEF LoginHandOff, Goto, PairInv, LoginMeansPaired, TypeOK, Job
  <2>2. SendJob(s, handler[g].kind) = None
          \/ SendJob(s, handler[g].kind).at # "login"
    BY DEF SendJob
  <2>3. LoginMeansPaired'
    BY <2>1, <2>2 DEF PairInv, LoginMeansPaired, TypeOK
  <2>4. NoQrInPairMode' /\ PairedBeforeDevice'
    BY <2>1 DEF PairInv, NoQrInPairMode, PairedBeforeDevice, TypeOK
  <2> QED
    BY <2>3, <2>4 DEF PairInv
<1>2. ASSUME UNCHANGED storeID,
             \A h \in Goroutine : handler'[h] \in {handler[h], None},
             \A t \in Session :
               pc'[t] = pc[t] \/ (pc[t] = "parked" /\ pc'[t] = "callback")
      PROVE  PairInv'
  BY <1>2 DEF PairInv, LoginMeansPaired, NoQrInPairMode, PairedBeforeDevice,
     Fetch, Loop
<1>3. CASE SendBuffered(g) \/ SendOnClosed(g)
  BY <1>2, <1>3 DEF SendBuffered, SendOnClosed, TypeOK
<1>4. ASSUME NEW t \in Session, SendToParked(g, t)
      PROVE  PairInv'
  BY <1>2, <1>4 DEF SendToParked, ParkedOn, HandToPython, Goto, TypeOK
<1> QED
  BY <1>1, <1>3, <1>4 DEF HandlerStep

LEMMA PairInvWhatsmeow ==
  ASSUME TypeOK, PairInv, NEW s \in Session, NEW g \in Goroutine,
         Whatsmeow(s, g)
  PROVE  PairInv'
<1> USE DEF TypeOK, PairInv, LoginMeansPaired, NoQrInPairMode,
            PairedBeforeDevice, EventHandler, SendJob, MeowUnchanged,
            threadVars, Connected, PairStatus, Disconnected
<1>1. CASE PairDevice(s, g)
  BY <1>1 DEF PairDevice
<1>2. CASE LogIn(s, g)
  BY <1>2 DEF LogIn
<1>3. CASE Drop(s, g)
  BY <1>3 DEF Drop
<1>4. ASSUME NEW k \in Kind, Receive(s, g, k)
      PROVE  PairInv'
  BY <1>4 DEF Receive
<1> QED
  BY <1>1, <1>2, <1>3, <1>4 DEF Whatsmeow

LEMMA PairInvStopThread ==
  ASSUME TypeOK, PairInv, NEW c \in Caller, StopThread(c)
  PROVE  PairInv'
<1>1. /\ UNCHANGED <<handler, storeID>>
      /\ \A s \in Session : pc'[s] \in {pc[s], "returned"}
  <2> USE DEF TypeOK, Crash, registryVars, channelVars, threadVars, meowVars,
              stopVars
  <2>1. CASE CallStopAll(c) \/ \E u \in Uuid : CallStop(c, u)
    BY <2>1 DEF CallStopAll, CallStop
  <2>2. CASE LookupClient(c) \/ LookupSignal(c) \/ LookupChannel(c)
    BY <2>2 DEF LookupClient, LookupSignal, LookupChannel
  <2>3. CASE \/ DisconnectClient(c) \/ ForgetClient(c) \/ ForgetSignal(c)
             \/ CloseChannel(c) \/ ForgetChannel(c)
    BY <2>3 DEF DisconnectClient, ForgetClient, ForgetSignal, CloseChannel,
       ForgetChannel
  <2>4. CASE CancelContext(c)
    BY <2>4 DEF CancelContext
  <2> QED
    BY <2>1, <2>2, <2>3, <2>4 DEF StopThread
<1> QED
  BY <1>1 DEF PairInv, LoginMeansPaired, NoQrInPairMode, PairedBeforeDevice,
     Fetch, Loop

\* A session of PairPhone that has come to FetchMe, or further, has a device
\* (main.go, the receive from loginStateChan before CallbackFunction).
THEOREM PairPhoneWaits == Spec => []PairedBeforeDevice
<1>1. Init => PairInv
  BY DEF Init, PairInv, LoginMeansPaired, NoQrInPairMode, PairedBeforeDevice,
     Fetch, Loop
<1>2. TypeOK /\ PairInv /\ [Next]_vars => PairInv'
  <2> SUFFICES ASSUME TypeOK, PairInv, [Next]_vars
               PROVE  PairInv'
    OBVIOUS
  <2>1. CASE UNCHANGED <<handler, storeID, pc>>
    BY <2>1 DEF PairInv, LoginMeansPaired, NoQrInPairMode, PairedBeforeDevice
  <2>2. ASSUME NEW u \in Uuid, Disconnect(u)
        PROVE  UNCHANGED <<handler, storeID, pc>>
    BY <2>2 DEF Disconnect, Crash, threadVars, meowVars
  <2> QED
    BY <2>1, <2>2, PairInvNeonizeThread, PairInvHandlerStep, PairInvWhatsmeow,
       PairInvStopThread DEF Next, vars, threadVars, meowVars
<1>3. PairInv => PairedBeforeDevice
  BY DEF PairInv
<1> QED
  BY <1>1, <1>2, <1>3, TypeCorrect, PTL DEF Spec
-----------------------------------------------------------------------------
(***************************************************************************)
(* A Stop touches the sessions of its uuid only: the maps have a session   *)
(* under its own uuid, whichever sessions share it and however connects    *)
(* and Stops interleave, so that whatever a Stop has looked up there is    *)
(* one that it was called for.                                             *)
(***************************************************************************)
FoundUnderOwnKey ==
  \A u \in Uuid :
    /\ clients[u] # None => uuidOf[clients[u]] = u
    /\ StopSignal[u] # None => uuidOf[StopSignal[u]] = u

HoldsOwn(c) ==
  stopper[c].at \in {"disconnect", "cancel"} =>
    uuidOf[stopper[c].held] = stopper[c].uuid

OwnInv == FoundUnderOwnKey /\ \A c \in Caller : HoldsOwn(c)

LEMMA OwnInvKept ==
  ASSUME OwnInv,
         \A u \in Uuid :
           /\ clients'[u] \in {clients[u], None} \/ uuidOf[clients'[u]] = u
           /\ StopSignal'[u] \in {StopSignal[u], None}
                \/ uuidOf[StopSignal'[u]] = u,
         \A c \in Caller : stopper'[c] = stopper[c] \/ HoldsOwn(c)'
  PROVE  OwnInv'
<1>1. FoundUnderOwnKey'
  BY DEF OwnInv, FoundUnderOwnKey
<1>2. \A c \in Caller : HoldsOwn(c)'
  BY DEF OwnInv, HoldsOwn
<1> QED
  BY <1>1, <1>2 DEF OwnInv

LEMMA OwnInvNeonizeThread ==
  ASSUME TypeOK, OwnInv, NEW s \in Session, NeonizeThread(s)
  PROVE  OwnInv'
<1> USE DEF registryVars, channelVars, threadVars, meowVars, stopVars
<1>1. CASE Start(s) \/ Register(s)
  BY <1>1, OwnInvKept DEF Start, Register, TypeOK
<1>2. CASE MakeChannel(s) \/ DeviceFails(s)
  BY <1>2, OwnInvKept DEF MakeChannel, DeviceFails, Crash
<1>3. CASE ConnectStored(s) \/ ConnectQr(s) \/ ConnectPairCode(s)
           \/ ConnectFails(s) \/ QrChannelCloses(s)
  BY <1>3, OwnInvKept DEF ConnectStored, ConnectQr, ConnectPairCode,
     ConnectFails, QrChannelCloses, Crash
<1>4. CASE ReadChannel(s) \/ ReadStore(s) \/ DeviceKnown(s)
  BY <1>4, OwnInvKept DEF ReadChannel, ReadStore, DeviceKnown, Crash
<1>5. CASE CallbackReturns(s) \/ SelectDone(s) \/ SelectEvent(s)
           \/ SelectNil(s) \/ Park(s)
  BY <1>5, OwnInvKept DEF CallbackReturns, SelectDone, SelectEvent, SelectNil,
     Park, Crash
<1> QED
  BY <1>1, <1>2, <1>3, <1>4, <1>5 DEF NeonizeThread

\* A thread that begins or ends a Stop, or goes to another step, holds nothing.
LEMMA HoldsNothing ==
  ASSUME TypeOK, NEW c \in Caller,
         \/ StopNext(c)
         \/ \E todo \in SUBSET Uuid : StopUuid(c, todo)
         \/ \E p \in {"forget_client", "lookup_signal", "forget_signal",
                     "lookup_channel", "close", "forget_channel"},
               s \in Session \cup {None} : StopAt(c, p, s)
  PROVE  \A d \in Caller : stopper'[d] = stopper[d] \/ HoldsOwn(d)'
<1>1. ASSUME NEW todo, StopUuid(c, todo)
      PROVE  \A d \in Caller : stopper'[d] = stopper[d] \/ HoldsOwn(d)'
  BY <1>1 DEF StopUuid, TypeOK, HoldsOwn
<1>2. CASE stopper' = [stopper EXCEPT ![c] = Idle]
  BY <1>2 DEF TypeOK, Idle, HoldsOwn
<1>3. ASSUME NEW p \in {"forget_client", "lookup_signal", "forget_signal",
                        "lookup_channel", "close", "forget_channel"},
             NEW s \in Session \cup {None}, StopAt(c, p, s)
      PROVE  \A d \in Caller : stopper'[d] = stopper[d] \/ HoldsOwn(d)'
  BY <1>3 DEF StopAt, TypeOK, HoldsOwn
<1> QED
  BY <1>1, <1>2, <1>3 DEF StopNext

LEMMA OwnInvStopThread ==
  ASSUME TypeOK, OwnInv, NEW c \in Caller, StopThread(c)
  PROVE  OwnInv'
<1> USE DEF registryVars, channelVars, threadVars, meowVars, stopVars
<1>1. CASE CallStopAll(c) \/ \E u \in Uuid : CallStop(c, u)
  <2>1. /\ \E todo \in SUBSET Uuid : StopUuid(c, todo)
        /\ UNCHANGED <<clients, StopSignal>>
    BY <1>1 DEF CallStopAll, CallStop
  <2> QED
    BY <2>1, HoldsNothing, OwnInvKept
<1>2. CASE LookupClient(c) \/ LookupSignal(c)
  <2>1. stopper[c].uuid \in Uuid
    BY <1>2, StopperType DEF LookupClient, LookupSignal
  <2>2. \A d \in Caller : stopper'[d] = stopper[d] \/ HoldsOwn(d)'
    BY <1>2, <2>1 DEF LookupClient, LookupSignal, StopAt, TypeOK, HoldsOwn,
       OwnInv, FoundUnderOwnKey
  <2> QED
    BY <1>2, <2>2, OwnInvKept DEF LookupClient, LookupSignal
<1>3. CASE DisconnectClient(c) \/ ForgetClient(c)
  <2>1. /\ \E p \in {"forget_client", "lookup_signal"} : StopAt(c, p, None)
        /\ UNCHANGED StopSignal
        /\ \A u \in Uuid : clients'[u] \in {clients[u], None}
    BY <1>3 DEF DisconnectClient, ForgetClient, TypeOK
  <2> QED
    BY <2>1, HoldsNothing, OwnInvKept
<1>4. CASE CancelContext(c) \/ ForgetSignal(c)
  <2>1. /\ \E p \in {"forget_signal", "lookup_channel"} : StopAt(c, p, None)
        /\ UNCHANGED clients
        /\ \A u \in Uuid : StopSignal'[u] \in {StopSignal[u], None}
    BY <1>4 DEF CancelContext, ForgetSignal, TypeOK
  <2> QED
    BY <2>1, HoldsNothing, OwnInvKept
<1>5. CASE LookupChannel(c)
  <2>1. stopper[c].uuid \in Uuid
    BY <1>5, StopperType DEF LookupChannel
  <2>2. /\ StopNext(c) \/ \E s \in Session \cup {None} : StopAt(c, "close", s)
        /\ UNCHANGED <<clients, StopSignal>>
    BY <1>5, <2>1 DEF LookupChannel, TypeOK
  <2> QED
    BY <2>2, HoldsNothing, OwnInvKept
<1>6. CASE CloseChannel(c) \/ ForgetChannel(c)
  <2>1. /\ \/ StopNext(c)
           \/ StopAt(c, "forget_channel", None)
           \/ UNCHANGED stopper
        /\ UNCHANGED <<clients, StopSignal>>
    BY <1>6 DEF CloseChannel, ForgetChannel, Crash
  <2> QED
    BY <2>1, HoldsNothing, OwnInvKept
<1> QED
  BY <1>1, <1>2, <1>3, <1>4, <1>5, <1>6 DEF StopThread

LEMMA OwnInvOthers ==
  ASSUME \/ \E g \in Goroutine : HandlerStep(g)
         \/ \E s \in Session, g \in Goroutine : Whatsmeow(s, g)
         \/ \E u \in Uuid : Disconnect(u)
         \/ UNCHANGED vars
  PROVE  UNCHANGED <<clients, StopSignal, eventChannel, cancelled, closed, stopper,
                     stops>>
<1> USE DEF Crash, registryVars, channelVars, threadVars, meowVars, stopVars
<1>1. ASSUME NEW g \in Goroutine, HandlerStep(g)
      PROVE  UNCHANGED <<clients, StopSignal, eventChannel, cancelled, closed,
                         stopper, stops>>
  BY <1>1 DEF HandlerStep, LoginHandOff, SendBuffered, SendOnClosed,
     SendToParked
<1>2. ASSUME NEW s \in Session, NEW g \in Goroutine, Whatsmeow(s, g)
      PROVE  UNCHANGED <<clients, StopSignal, eventChannel, cancelled, closed,
                         stopper, stops>>
  BY <1>2 DEF Whatsmeow, PairDevice, LogIn, Drop, Receive, MeowUnchanged
<1>3. ASSUME NEW u \in Uuid, Disconnect(u)
      PROVE  UNCHANGED <<clients, StopSignal, eventChannel, cancelled, closed,
                         stopper, stops>>
  BY <1>3 DEF Disconnect
<1>4. CASE UNCHANGED vars
  BY <1>4 DEF vars
<1> QED
  BY <1>1, <1>2, <1>3, <1>4

LEMMA OwnInvariant == Spec => []OwnInv
<1>1. Init => OwnInv
  BY DEF Init, OwnInv, FoundUnderOwnKey, HoldsOwn, Idle
<1>2. TypeOK /\ OwnInv /\ [Next]_vars => OwnInv'
  BY OwnInvNeonizeThread, OwnInvStopThread, OwnInvOthers, OwnInvKept DEF Next
<1> QED
  BY <1>1, <1>2, TypeCorrect, PTL DEF Spec

\* A thread in Stop, called for the session's uuid.
StoppedFor(s) ==
  \E c \in Caller : /\ stopper[c].at \in {"cancel", "close"}
                    /\ stopper[c].uuid = uuidOf[s]

LEMMA NeonizeStopsNobody ==
  ASSUME NEW s \in Session, NeonizeThread(s)
  PROVE  UNCHANGED <<cancelled, closed, stopper, stops>>
<1> USE DEF Crash, channelVars, stopVars
<1>1. CASE Start(s) \/ MakeChannel(s) \/ Register(s) \/ DeviceFails(s)
  BY <1>1 DEF Start, MakeChannel, Register, DeviceFails
<1>2. CASE ConnectStored(s) \/ ConnectQr(s) \/ ConnectPairCode(s)
           \/ ConnectFails(s) \/ QrChannelCloses(s)
  BY <1>2 DEF ConnectStored, ConnectQr, ConnectPairCode, ConnectFails,
     QrChannelCloses
<1>3. CASE ReadChannel(s) \/ ReadStore(s) \/ DeviceKnown(s)
  BY <1>3 DEF ReadChannel, ReadStore, DeviceKnown
<1>4. CASE CallbackReturns(s) \/ SelectDone(s) \/ SelectEvent(s)
           \/ SelectNil(s) \/ Park(s)
  BY <1>4 DEF CallbackReturns, SelectDone, SelectEvent, SelectNil, Park
<1> QED
  BY <1>1, <1>2, <1>3, <1>4 DEF NeonizeThread

LEMMA StopThreadStops ==
  ASSUME TypeOK, OwnInv, ChannelInv, NEW c \in Caller, StopThread(c),
         NEW s \in Session
  PROVE  \/ cancelled'[s] = cancelled[s] /\ closed'[s] = closed[s]
         \/ StoppedFor(s)
<1> USE DEF channelVars
<1>1. CASE CallStopAll(c) \/ (\E u \in Uuid : CallStop(c, u)) \/ LookupClient(c)
           \/ DisconnectClient(c) \/ ForgetClient(c) \/ LookupSignal(c)
           \/ ForgetSignal(c) \/ LookupChannel(c) \/ ForgetChannel(c)
  BY <1>1 DEF CallStopAll, CallStop, LookupClient, DisconnectClient,
     ForgetClient, LookupSignal, ForgetSignal, LookupChannel, ForgetChannel
<1>2. CASE CancelContext(c)
  <2>1. /\ stopper[c].at = "cancel"
        /\ uuidOf[stopper[c].held] = stopper[c].uuid
        /\ cancelled' = [cancelled EXCEPT ![stopper[c].held] = TRUE]
        /\ UNCHANGED closed
    BY <1>2 DEF CancelContext, OwnInv, HoldsOwn
  <2> QED
    BY <2>1 DEF StoppedFor, TypeOK
<1>3. CASE CloseChannel(c)
  <2>1. /\ stopper[c].at = "close"
        /\ uuidOf[stopper[c].held] = stopper[c].uuid
        /\ closed' = closed \/ closed' = [closed EXCEPT ![stopper[c].held] = TRUE]
        /\ UNCHANGED cancelled
    BY <1>3 DEF CloseChannel, Crash, ChannelInv, ClosesUnderOwnKey
  <2> QED
    BY <2>1 DEF StoppedFor, TypeOK
<1> QED
  BY <1>1, <1>2, <1>3 DEF StopThread

\* Stop and StopAll cancel the context and close the channel of sessions of the
\* uuid they are at only: the other clients of the process go on (main.go, Stop).
THEOREM StopsItsOwn ==
  Spec => [][\A s \in Session :
               \/ cancelled'[s] = cancelled[s] /\ closed'[s] = closed[s]
               \/ StoppedFor(s)]_vars
<1>1. TypeOK /\ OwnInv /\ ChannelInv /\ [Next]_vars =>
        [\A s \in Session :
           \/ cancelled'[s] = cancelled[s] /\ closed'[s] = closed[s]
           \/ StoppedFor(s)]_vars
  BY NeonizeStopsNobody, StopThreadStops, OwnInvOthers DEF Next
<1> QED
  BY <1>1, TypeCorrect, OwnInvariant, ChannelInvariant, PTL DEF Spec
-----------------------------------------------------------------------------
(***************************************************************************)
(* Before the first Stop every client that was registered can be found and *)
(* every channel is open.                                                  *)
(***************************************************************************)
StopPanics == {"nil_client", "nil_message", "double_close"}

Unstopped ==
  /\ \A c \in Caller : stopper[c] = Idle
  /\ \A s \in Session : ~closed[s]
  /\ \A s \in Session :
       pc[s] \notin {"start", "signalled", "queued"} => clients[uuidOf[s]] # None
  /\ crashed \notin StopPanics

LEMMA UnstoppedNeonizeThread ==
  ASSUME TypeOK, Unstopped, NEW s \in Session, NeonizeThread(s)
  PROVE  Unstopped'
<1> USE DEF TypeOK, Unstopped, Crash, Goto, registryVars, channelVars,
            threadVars, meowVars, stopVars
<1>1. ASSUME UNCHANGED <<stopper, closed>>,
             \A u \in Uuid : clients'[u] = clients[u] \/ clients'[u] # None,
             \A t \in Session :
               \/ pc'[t] = pc[t]
               \/ pc[t] \notin {"start", "signalled", "queued"}
               \/ pc'[t] \in {"signalled", "queued"}
               \/ clients'[uuidOf[t]] # None,
             crashed' = crashed \/ crashed' \notin StopPanics
      PROVE  Unstopped'
  BY <1>1, SessionAssumption
<1>2. CASE Start(s) \/ MakeChannel(s) \/ Register(s) \/ DeviceFails(s)
  BY <1>1, <1>2 DEF Start, MakeChannel, Register, DeviceFails, StopPanics
<1>3. CASE ConnectStored(s) \/ ConnectQr(s) \/ ConnectPairCode(s)
           \/ ConnectFails(s) \/ QrChannelCloses(s)
  BY <1>1, <1>3 DEF ConnectStored, ConnectQr, ConnectPairCode, ConnectFails,
     QrChannelCloses, StopPanics
<1>4. CASE ReadChannel(s) \/ ReadStore(s) \/ DeviceKnown(s)
  BY <1>1, <1>4 DEF ReadChannel, ReadStore, DeviceKnown, HandToPython
<1>5. CASE CallbackReturns(s) \/ SelectDone(s) \/ Park(s)
  BY <1>1, <1>5 DEF CallbackReturns, SelectDone, Park
<1>6. CASE SelectEvent(s)
  <2>1. /\ UNCHANGED <<stopper, closed, clients>>
        /\ pc[s] = "select"
        /\ pc' = pc \/ pc' = [pc EXCEPT ![s] = "callback"]
        /\ crashed' = crashed \/ crashed' = "empty_payload"
    BY <1>6 DEF SelectEvent, HandToPython
  <2> QED
    BY <1>1, <2>1 DEF StopPanics
<1>7. ~SelectNil(s)
  BY DEF SelectNil, NilReady
<1> QED
  BY <1>2, <1>3, <1>4, <1>5, <1>6, <1>7 DEF NeonizeThread

LEMMA UnstoppedOthers ==
  ASSUME TypeOK, Unstopped,
         \/ \E g \in Goroutine : HandlerStep(g)
         \/ \E s \in Session, g \in Goroutine : Whatsmeow(s, g)
         \/ \E u \in Uuid : Disconnect(u)
         \/ UNCHANGED vars
  PROVE  Unstopped'
<1> USE DEF Crash, Goto, registryVars, channelVars, threadVars, meowVars, stopVars
<1>1. /\ \A t \in Session :
           \/ pc'[t] = pc[t]
           \/ pc[t] \notin {"start", "signalled", "queued"}
      /\ crashed' = crashed \/ crashed' \notin StopPanics
  <2>1. ASSUME NEW g \in Goroutine, HandlerStep(g)
        PROVE  /\ \A t \in Session :
                    \/ pc'[t] = pc[t]
                    \/ pc[t] \notin {"start", "signalled", "queued"}
               /\ crashed' = crashed \/ crashed' \notin StopPanics
    <3>1. CASE LoginHandOff(g)
      BY <3>1 DEF LoginHandOff, TypeOK
    <3>2. CASE SendBuffered(g) \/ SendOnClosed(g)
      BY <3>2 DEF SendBuffered, SendOnClosed
    <3>3. ASSUME NEW t \in Session, SendToParked(g, t)
          PROVE  /\ \A u \in Session :
                      \/ pc'[u] = pc[u]
                      \/ pc[u] \notin {"start", "signalled", "queued"}
                 /\ crashed' = crashed \/ crashed' \notin StopPanics
      BY <3>3 DEF SendToParked, HandToPython, ParkedOn, StopPanics, TypeOK
    <3> QED
      BY <2>1, <3>1, <3>2, <3>3 DEF HandlerStep
  <2>2. ASSUME NEW s \in Session, NEW g \in Goroutine, Whatsmeow(s, g)
        PROVE  UNCHANGED <<pc, crashed>>
    BY <2>2 DEF Whatsmeow, PairDevice, LogIn, Drop, Receive, MeowUnchanged
  <2>3. ASSUME NEW u \in Uuid, Disconnect(u)
        PROVE  UNCHANGED pc /\ (crashed' = crashed \/ crashed' \notin StopPanics)
    BY <2>3 DEF Disconnect, StopPanics
  <2>4. CASE UNCHANGED vars
    BY <2>4 DEF vars
  <2> QED
    BY <2>1, <2>2, <2>3, <2>4
<1> QED
  BY <1>1, OwnInvOthers DEF Unstopped

\* The panics for a nil client before FetchMe, a nil message and a channel closed
\* twice end the process only of a program that has called Stop or StopAll: a
\* process whose clients are never stopped does not meet them, whatever events
\* come and however its clients share uuids (main.go, FetchMe, CallbackFunction).
THEOREM PanicsNeedStop == Spec => [](stops = 0 => crashed \notin StopPanics)
<1>1. Init => stops = 0 /\ Unstopped
  BY DEF Init, Unstopped, StopPanics
<1>2. TypeOK /\ (stops = 0 => Unstopped) /\ [Next]_vars
        => (stops = 0 => Unstopped)'
  <2> SUFFICES ASSUME TypeOK, stops = 0 => Unstopped, [Next]_vars, stops' = 0
               PROVE  Unstopped'
    OBVIOUS
  <2>1. stops \in Nat
    BY DEF TypeOK
  <2>2. ASSUME NEW c \in Caller, StopThread(c)
        PROVE  FALSE
    <3>1. CASE CallStopAll(c) \/ \E u \in Uuid : CallStop(c, u)
      <4>1. stops' = stops + 1
        BY <3>1 DEF CallStopAll, CallStop
      <4> QED
        BY <2>1, <4>1
    <3>2. CASE \/ LookupClient(c) \/ DisconnectClient(c) \/ ForgetClient(c)
               \/ LookupSignal(c) \/ CancelContext(c) \/ ForgetSignal(c)
               \/ LookupChannel(c) \/ CloseChannel(c) \/ ForgetChannel(c)
      <4>1. UNCHANGED stops /\ stopper[c].at # "idle"
        BY <3>2 DEF LookupClient, DisconnectClient, ForgetClient, LookupSignal,
           CancelContext, ForgetSignal, LookupChannel, CloseChannel,
           ForgetChannel, Crash, stopVars
      <4> QED
        BY <4>1 DEF Unstopped, Idle
    <3> QED
      BY <2>2, <3>1, <3>2 DEF StopThread
  <2>3. UNCHANGED stops
    BY <2>2, NeonizeStopsNobody, OwnInvOthers DEF Next
  <2> QED
    BY <2>2, <2>3, UnstoppedNeonizeThread, UnstoppedOthers DEF Next
<1>3. (stops = 0 => Unstopped) => (stops = 0 => crashed \notin StopPanics)
  BY DEF Unstopped
<1> QED
  BY <1>1, <1>2, <1>3, TypeCorrect, PTL DEF Spec
=============================================================================
