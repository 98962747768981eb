------------------------------ MODULE Session ------------------------------
(***************************************************************************)
(* A session of goneonize/main.go: what one call of the exported function  *)
(* Neonize does, from the Python call of connect or PairPhone to its       *)
(* return, together with everything that touches the same state:           *)
(*   - the three package-level maps (clients, StopSignal, eventChannel),   *)
(*   - the event handler closure, run by the goroutines of whatsmeow,      *)
(*   - CallbackFunction, the loop that hands the queued events to Python,  *)
(*   - Stop, StopAll and Disconnect, called from other threads.            *)
(* whatsmeow itself is outside the repository.  It is modelled by what     *)
(* main.go relies on: sockets that open, drop and reconnect, devices that  *)
(* get paired, and goroutines that run the event handler.                  *)
(*                                                                         *)
(* A Go panic that nothing recovers ends the whole process: it is the      *)
(* value of `crashed', and no action is enabled after it.                  *)
(***************************************************************************)
EXTENDS Naturals, Sequences

CONSTANTS
  Session,      \* the calls of Neonize (a client that connects twice makes two)
  Goroutine,    \* the whatsmeow goroutines that can run the event handler
  Caller,       \* the threads that call Stop and StopAll
  Uuid,         \* the keys of the three registries
  uuidOf,       \* the uuid each call of Neonize passes
  PairMode,     \* the sessions opened by PairPhone instead of connect
  Kind,         \* the kinds of events whatsmeow dispatches
  EmptyKind,    \* the kinds whose protobuf message marshals to zero bytes
  subscribers,  \* the kinds each session subscribed to
  Capacity,     \* the capacity of eventChan (100 in the code)
  MaxEvents,    \* bound: how many events whatsmeow dispatches per session
  MaxStops,     \* bound: how many calls of Stop or StopAll are made
  Serial,       \* TRUE if the application reuses a uuid only after the
                \* previous connect and every Stop have returned
  None          \* nil

Connected == "Connected"
PairStatus == "PairStatus"
Disconnected == "Disconnected"
Me == "Me"      \* the callback with code 0, which carries the device

ASSUME SessionAssumption ==
  /\ uuidOf \in [Session -> Uuid]
  /\ PairMode \subseteq Session
  /\ {Connected, PairStatus, Disconnected} \subseteq Kind
  /\ EmptyKind \subseteq Kind \ {Connected, PairStatus, Disconnected}
  /\ Me \notin Kind
  /\ subscribers \in [Session -> SUBSET Kind]
  /\ Capacity \in Nat \ {0}
  /\ MaxEvents \in Nat
  /\ MaxStops \in Nat
  /\ Serial \in BOOLEAN
  /\ None \notin Session

VARIABLES
  \* The registries and what they point to.
  clients,      \* clients:      uuid -> session, or None
  StopSignal,   \* StopSignal:   uuid -> session, or None
  eventChannel, \* eventChannel: uuid -> session whose channel it is, or None
  cancelled,    \* the session's context has been cancelled
  queue,        \* the buffer of the session's eventChan
  closed,       \* the session's eventChan has been closed
  \* The thread inside Neonize.
  pc,           \* where it is
  channel,      \* the local `channel' of CallbackFunction
  device,       \* the local `cli' of FetchMe: the session whose store it is
  delivered,    \* history: the callbacks made to Python
  \* whatsmeow.
  link,         \* the socket of the session's client
  storeID,      \* client.Store.ID # nil
  handler,      \* the call of the event handler each goroutine is in, or None
  dispatched,   \* number of events dispatched
  sent,         \* history: the events sent into the session's eventChan
  \* The threads inside Stop or StopAll.
  stopper,      \* where each is
  stops,        \* number of calls made
  crashed       \* why the process died, or "no"

registryVars == <<clients, StopSignal, eventChannel>>
channelVars == <<queue, closed, sent>>
threadVars == <<pc, channel, device, delivered>>
meowVars == <<link, storeID, handler, dispatched>>
stopVars == <<stopper, stops>>

vars == <<registryVars, cancelled, channelVars, threadVars, meowVars,
          stopVars, crashed>>

-----------------------------------------------------------------------------
Event == [src : Session, kind : Kind \cup {Me}]
Job == [at : {"login", "send"}, src : Session, kind : Kind]

Setup == {"start", "signalled", "queued", "registered"}
Login == {"qr", "login"}
Fetch == {"fetch", "fetch_me", "wait_id"}
Loop == {"callback", "select", "parked"}
Phase == Setup \cup Login \cup Fetch \cup Loop \cup {"returned"}

Idle == [at |-> "idle", todo |-> {}, uuid |-> None, held |-> None]
StopCall ==
  [at : {"lookup_client", "forget_client", "lookup_signal", "forget_signal",
         "lookup_channel", "forget_channel"},
   todo : SUBSET Uuid, uuid : Uuid, held : {None}]
  \cup
  [at : {"disconnect", "cancel", "close"},
   todo : SUBSET Uuid, uuid : Uuid, held : Session]

Reason == {"device", "connect", "pair_code", "nil_client", "nil_message",
           "empty_payload", "double_close", "call_after_stop"}

Alive == crashed = "no"

Crash(why) ==
  /\ crashed' = why
  /\ UNCHANGED <<registryVars, cancelled, channelVars, threadVars, meowVars,
                 stopVars>>

Init ==
  /\ clients = [u \in Uuid |-> None]
  /\ StopSignal = [u \in Uuid |-> None]
  /\ eventChannel = [u \in Uuid |-> None]
  /\ cancelled = [s \in Session |-> FALSE]
  /\ queue = [s \in Session |-> <<>>]
  /\ closed = [s \in Session |-> FALSE]
  /\ pc = [s \in Session |-> "start"]
  /\ channel = [s \in Session |-> None]
  /\ device = [s \in Session |-> None]
  /\ delivered = [s \in Session |-> <<>>]
  /\ link = [s \in Session |-> "down"]
  /\ storeID \in [Session -> BOOLEAN]
  /\ handler = [g \in Goroutine |-> None]
  /\ dispatched = [s \in Session |-> 0]
  /\ sent = [s \in Session |-> <<>>]
  /\ stopper = [c \in Caller |-> Idle]
  /\ stops = 0
  /\ crashed = "no"
-----------------------------------------------------------------------------
(***************************************************************************)
(* Neonize: registration, one step per map it writes.                      *)
(***************************************************************************)

\* A fault: the application reuses a uuid at any time.
MutMayStart(s) == TRUE

\* With Serial, the application awaits Stop and then the task that connect
\* returned before it connects again under the same uuid.
MayStart(s) ==
  Serial => /\ \A t \in Session \ {s} :
                 uuidOf[t] = uuidOf[s] => pc[t] \in {"start", "returned"}
            /\ \A c \in Caller : stopper[c] = Idle

Goto(s, p) == pc' = [pc EXCEPT ![s] = p]

\* The cancel function is registered before anything can fail.
Start(s) ==
  /\ Alive
  /\ pc[s] = "start"
  /\ MayStart(s)
  /\ StopSignal' = [StopSignal EXCEPT ![uuidOf[s]] = s]
  /\ Goto(s, "signalled")
  /\ UNCHANGED <<clients, eventChannel, cancelled, channelVars, channel,
                 device, delivered, meowVars, stopVars, crashed>>

MakeChannel(s) ==
  /\ Alive
  /\ pc[s] = "signalled"
  /\ eventChannel' = [eventChannel EXCEPT ![uuidOf[s]] = s]
  /\ Goto(s, "queued")
  /\ UNCHANGED <<clients, StopSignal, cancelled, channelVars, channel,
                 device, delivered, meowVars, stopVars, crashed>>

\* The device comes from the database; the client is registered and gets
\* the event handler.
Register(s) ==
  /\ Alive
  /\ pc[s] = "queued"
  /\ clients' = [clients EXCEPT ![uuidOf[s]] = s]
  /\ Goto(s, "registered")
  /\ UNCHANGED <<StopSignal, eventChannel, cancelled, channelVars, channel,
                 device, delivered, meowVars, stopVars, crashed>>

\* The database cannot be opened or has no device with that JID.
DeviceFails(s) ==
  /\ Alive
  /\ pc[s] = "queued"
  /\ Crash("device")

-----------------------------------------------------------------------------
(***************************************************************************)
(* Neonize: login.                                                         *)
(***************************************************************************)

\* A stored device connects at once.  Only a session of PairPhone goes on to
\* wait on loginStateChan.
ConnectStored(s) ==
  /\ Alive
  /\ pc[s] = "registered"
  /\ storeID[s]
  /\ link' = [link EXCEPT ![s] = "dialed"]
  /\ Goto(s, IF s \in PairMode THEN "login" ELSE "fetch")
  /\ UNCHANGED <<registryVars, cancelled, channelVars, channel, device,
                 delivered, storeID, handler, dispatched, stopVars, crashed>>

\* A new device that links with a QR code.
ConnectQr(s) ==
  /\ Alive
  /\ pc[s] = "registered"
  /\ ~storeID[s]
  /\ s \notin PairMode
  /\ link' = [link EXCEPT ![s] = "dialed"]
  /\ Goto(s, "qr")
  /\ UNCHANGED <<registryVars, cancelled, channelVars, channel, device,
                 delivered, storeID, handler, dispatched, stopVars, crashed>>

\* A fault: PairPhone does not wait for the login.
MutConnectPairCode(s) ==
  /\ Alive
  /\ pc[s] = "registered"
  /\ ~storeID[s]
  /\ s \in PairMode
  /\ link' = [link EXCEPT ![s] = "dialed"]
  /\ Goto(s, "fetch")
  /\ UNCHANGED <<registryVars, cancelled, channelVars, channel, device,
                 delivered, storeID, handler, dispatched, stopVars, crashed>>

\* A new device that links with a pairing code.
ConnectPairCode(s) ==
  /\ Alive
  /\ pc[s] = "registered"
  /\ ~storeID[s]
  /\ s \in PairMode
  /\ link' = [link EXCEPT ![s] = "dialed"]
  /\ Goto(s, "login")
  /\ UNCHANGED <<registryVars, cancelled, channelVars, channel, device,
                 delivered, storeID, handler, dispatched, stopVars, crashed>>

\* Connect and PairPhone panic when they fail, whichever branch called them.
ConnectFails(s) ==
  /\ Alive
  /\ pc[s] = "registered"
  /\ Crash(IF ~storeID[s] /\ s \in PairMode THEN "pair_code" ELSE "connect")

\* The QR channel closes, after success or, with the socket closed, when the
\* last code has expired.
QrChannelCloses(s) ==
  /\ Alive
  /\ pc[s] = "qr"
  /\ link' = IF storeID[s] THEN link ELSE [link EXCEPT ![s] = "down"]
  /\ Goto(s, "fetch")
  /\ UNCHANGED <<registryVars, cancelled, channelVars, channel, device,
                 delivered, storeID, handler, dispatched, stopVars, crashed>>

-----------------------------------------------------------------------------
(***************************************************************************)
(* The event handler closure, run by the goroutines of whatsmeow.          *)
(***************************************************************************)

\* A fault: the handler does not ask who subscribed.
MutSendJob(s, k) == [at |-> "send", src |-> s, kind |-> k]

\* What remains of the handler once any wait for the login is over.
SendJob(s, k) ==
  IF k \in subscribers[s] THEN [at |-> "send", src |-> s, kind |-> k]
                          ELSE None

\* The handler is entered with an event: in a session of PairPhone a
\* Connected event first offers a value on loginStateChan; an event nobody
\* subscribed to is dropped.
EventHandler(g, s, k) ==
  /\ handler[g] = None
  /\ dispatched[s] < MaxEvents
  /\ dispatched' = [dispatched EXCEPT ![s] = @ + 1]
  /\ handler' = [handler EXCEPT ![g] =
       IF k = Connected /\ s \in PairMode
       THEN [at |-> "login", src |-> s, kind |-> k]
       ELSE SendJob(s, k)]

\* The unbuffered loginStateChan: the handler meets the thread of Neonize.
LoginHandOff(g) ==
  /\ Alive
  /\ handler[g] # None
  /\ handler[g].at = "login"
  /\ LET s == handler[g].src IN
       /\ pc[s] = "login"
       /\ Goto(s, "fetch")
       /\ handler' = [handler EXCEPT ![g] = SendJob(s, handler[g].kind)]
  /\ UNCHANGED <<registryVars, cancelled, channelVars, channel, device,
                 delivered, link, storeID, dispatched, stopVars, crashed>>

Sending(g) == handler[g] # None /\ handler[g].at = "send"

JobEvent(g) == [src |-> handler[g].src, kind |-> handler[g].kind]

ParkedOn(s) == {t \in Session : pc[t] = "parked" /\ channel[t] = s}

\* A fault: the buffer takes one event too many.
MutSendOverfull(g) ==
  /\ Alive
  /\ Sending(g)
  /\ LET s == handler[g].src IN
       /\ ~closed[s]
       /\ ParkedOn(s) = {}
       /\ Len(queue[s]) <= Capacity
       /\ queue' = [queue EXCEPT ![s] = Append(@, JobEvent(g))]
       /\ sent' = [sent EXCEPT ![s] = Append(@, JobEvent(g))]
  /\ handler' = [handler EXCEPT ![g] = None]
  /\ UNCHANGED <<registryVars, cancelled, closed, threadVars, link, storeID,
                 dispatched, stopVars, crashed>>

\* A fault: a sender buffers its event without waking a parked loop.
MutSendNoWakeup(g) ==
  /\ Alive
  /\ Sending(g)
  /\ LET s == handler[g].src IN
       /\ ~closed[s]
       /\ Len(queue[s]) < Capacity
       /\ queue' = [queue EXCEPT ![s] = Append(@, JobEvent(g))]
       /\ sent' = [sent EXCEPT ![s] = Append(@, JobEvent(g))]
  /\ handler' = [handler EXCEPT ![g] = None]
  /\ UNCHANGED <<registryVars, cancelled, closed, threadVars, link, storeID,
                 dispatched, stopVars, crashed>>

\* `eventChan <- &messageEvent' with room in the buffer and nobody waiting.
SendBuffered(g) ==
  /\ Alive
  /\ Sending(g)
  /\ LET s == handler[g].src IN
       /\ ~closed[s]
       /\ ParkedOn(s) = {}
       /\ Len(queue[s]) < Capacity
       /\ queue' = [queue EXCEPT ![s] = Append(@, JobEvent(g))]
       /\ sent' = [sent EXCEPT ![s] = Append(@, JobEvent(g))]
  /\ handler' = [handler EXCEPT ![g] = None]
  /\ UNCHANGED <<registryVars, cancelled, closed, threadVars, link, storeID,
                 dispatched, stopVars, crashed>>

\* Marshalling a message without fields gives no bytes, and getBytesAndSize
\* takes the address of the first one.
Marshals(ev) == ev.kind \notin EmptyKind

\* CallbackFunction marshals the event and calls Python with it.
HandToPython(t, ev) ==
  /\ delivered' = [delivered EXCEPT ![t] = Append(@, ev)]
  /\ Goto(t, "callback")

\* The same send when a loop is parked in its select: the value goes straight
\* to it.
SendToParked(g, t) ==
  /\ Alive
  /\ Sending(g)
  /\ ~closed[handler[g].src]
  /\ t \in ParkedOn(handler[g].src)
  /\ \/ /\ Marshals(JobEvent(g))
        /\ HandToPython(t, JobEvent(g))
        /\ sent' = [sent EXCEPT ![handler[g].src] = Append(@, JobEvent(g))]
        /\ handler' = [handler EXCEPT ![g] = None]
        /\ UNCHANGED <<registryVars, cancelled, queue, closed, channel, device,
                       link, storeID, dispatched, stopVars, crashed>>
     \/ /\ ~Marshals(JobEvent(g))
        /\ Crash("empty_payload")

\* Sending on a closed channel panics; whatsmeow recovers from a panic of a
\* handler, so the event is lost and the goroutine goes on.
SendOnClosed(g) ==
  /\ Alive
  /\ Sending(g)
  /\ closed[handler[g].src]
  /\ handler' = [handler EXCEPT ![g] = None]
  /\ UNCHANGED <<registryVars, cancelled, channelVars, threadVars, link,
                 storeID, dispatched, stopVars, crashed>>
-----------------------------------------------------------------------------
(***************************************************************************)
(* CallbackFunction and FetchMe, on the thread of Neonize.                 *)
(***************************************************************************)

\* A fault: the channel is looked up under a key that has no entry.
MutReadChannel(s) ==
  /\ Alive
  /\ pc[s] = "fetch"
  /\ Goto(s, "fetch_me")
  /\ UNCHANGED <<registryVars, cancelled, channelVars, channel, device,
                 delivered, meowVars, stopVars, crashed>>

\* The channel is looked up in the registry, not taken from Neonize.
ReadChannel(s) ==
  /\ Alive
  /\ pc[s] = "fetch"
  /\ channel' = [channel EXCEPT ![s] = eventChannel[uuidOf[s]]]
  /\ Goto(s, "fetch_me")
  /\ UNCHANGED <<registryVars, cancelled, channelVars, device, delivered,
                 meowVars, stopVars, crashed>>

\* A fault: the loop starts without waiting for the device.
MutReadStore(s) ==
  /\ Alive
  /\ pc[s] = "fetch_me"
  /\ Goto(s, "select")
  /\ UNCHANGED <<registryVars, cancelled, channelVars, channel, device,
                 delivered, meowVars, stopVars, crashed>>

\* FetchMe reads clients[id].Store; a stopped client is a nil pointer.
ReadStore(s) ==
  /\ Alive
  /\ pc[s] = "fetch_me"
  /\ \/ /\ clients[uuidOf[s]] # None
        /\ device' = [device EXCEPT ![s] = clients[uuidOf[s]]]
        /\ Goto(s, "wait_id")
        /\ UNCHANGED <<registryVars, cancelled, channelVars, channel,
                       delivered, meowVars, stopVars, crashed>>
     \/ /\ clients[uuidOf[s]] = None
        /\ Crash("nil_client")

\* FetchMe polls until the store has an ID, whatever happens to the context.
\* The callback with code 0 follows.
DeviceKnown(s) ==
  /\ Alive
  /\ pc[s] = "wait_id"
  /\ storeID[device[s]]
  /\ HandToPython(s, [src |-> device[s], kind |-> Me])
  /\ UNCHANGED <<registryVars, cancelled, channelVars, channel, device,
                 meowVars, stopVars, crashed>>

CallbackReturns(s) ==
  /\ Alive
  /\ pc[s] = "callback"
  /\ Goto(s, "select")
  /\ UNCHANGED <<registryVars, cancelled, channelVars, channel, device,
                 delivered, meowVars, stopVars, crashed>>

\* What the second case of the select can receive: an event, or the nil of a
\* closed and drained channel.
EventReady(s) == channel[s] # None /\ queue[channel[s]] # <<>>
NilReady(s) == channel[s] # None /\ queue[channel[s]] = <<>> /\ closed[channel[s]]

\* A select with several ready cases takes any of them, so the three actions
\* below may be enabled together.
SelectDone(s) ==
  /\ Alive
  /\ pc[s] = "select"
  /\ cancelled[s]
  /\ Goto(s, "returned")
  /\ UNCHANGED <<registryVars, cancelled, channelVars, channel, device,
                 delivered, meowVars, stopVars, crashed>>

\* A fault: the newest event is taken first.
MutSelectEvent(s) ==
  /\ Alive
  /\ pc[s] = "select"
  /\ EventReady(s)
  /\ LET ch == channel[s]
         n == Len(queue[ch]) IN
       /\ queue' = [queue EXCEPT ![ch] = SubSeq(@, 1, n - 1)]
       /\ HandToPython(s, queue[ch][n])
  /\ UNCHANGED <<registryVars, cancelled, closed, sent, channel, device,
                 meowVars, stopVars, crashed>>

SelectEvent(s) ==
  /\ Alive
  /\ pc[s] = "select"
  /\ EventReady(s)
  /\ LET ch == channel[s]
         ev == Head(queue[ch]) IN
       \/ /\ Marshals(ev)
          /\ queue' = [queue EXCEPT ![ch] = Tail(@)]
          /\ HandToPython(s, ev)
          /\ UNCHANGED <<registryVars, cancelled, closed, sent, channel,
                         device, meowVars, stopVars, crashed>>
       \/ /\ ~Marshals(ev)
          /\ Crash("empty_payload")

\* message is nil: message.message is a nil dereference.
SelectNil(s) ==
  /\ Alive
  /\ pc[s] = "select"
  /\ NilReady(s)
  /\ Crash("nil_message")

\* With no case ready the thread sleeps; a send, a cancel or a close wakes it
\* with that case already chosen.
Park(s) ==
  /\ Alive
  /\ pc[s] = "select"
  /\ ~cancelled[s]
  /\ ~EventReady(s)
  /\ ~NilReady(s)
  /\ Goto(s, "parked")
  /\ UNCHANGED <<registryVars, cancelled, channelVars, channel, device,
                 delivered, meowVars, stopVars, crashed>>

-----------------------------------------------------------------------------
(***************************************************************************)
(* whatsmeow: the socket, the pairing, the events.                         *)
(***************************************************************************)
MeowUnchanged ==
  UNCHANGED <<registryVars, cancelled, channelVars, threadVars, stopVars,
              crashed>>

\* The phone accepts the QR code or the pairing code: the store gets its ID,
\* then PairSuccess is dispatched.
PairDevice(s, g) ==
  /\ Alive
  /\ link[s] = "dialed"
  /\ ~storeID[s]
  /\ pc[s] \in Login
  /\ storeID' = [storeID EXCEPT ![s] = TRUE]
  /\ EventHandler(g, s, PairStatus)
  /\ UNCHANGED link
  /\ MeowUnchanged

\* The server accepts the login: Connected is dispatched, after a reconnect
\* as well.
LogIn(s, g) ==
  /\ Alive
  /\ link[s] = "dialed"
  /\ storeID[s]
  /\ link' = [link EXCEPT ![s] = "online"]
  /\ EventHandler(g, s, Connected)
  /\ UNCHANGED storeID
  /\ MeowUnchanged

\* The connection is lost; whatsmeow dispatches Disconnected and dials again.
Drop(s, g) ==
  /\ Alive
  /\ link[s] = "online"
  /\ link' = [link EXCEPT ![s] = "dialed"]
  /\ EventHandler(g, s, Disconnected)
  /\ UNCHANGED storeID
  /\ MeowUnchanged

\* Every other event (a PairStatus here is a PairError).
Receive(s, g, k) ==
  /\ Alive
  /\ link[s] # "down"
  /\ k \in Kind \ {Connected, Disconnected}
  /\ EventHandler(g, s, k)
  /\ UNCHANGED <<link, storeID>>
  /\ MeowUnchanged

-----------------------------------------------------------------------------
(***************************************************************************)
(* Stop, StopAll, Disconnect.  Nothing locks the maps, so for each of them *)
(* Stop looks the uuid up, acts on what it found, and deletes the entry,   *)
(* in three steps between which any other thread may run.                  *)
(***************************************************************************)
StopAt(c, p, s) ==
  stopper' = [stopper EXCEPT ![c] =
                [at |-> p, todo |-> @.todo, uuid |-> @.uuid, held |-> s]]

StopUuid(c, todo) ==
  \E u \in todo :
    stopper' = [stopper EXCEPT ![c] =
                  [at |-> "lookup_client", todo |-> todo \ {u}, uuid |-> u,
                   held |-> None]]

CallStop(c, u) ==
  /\ Alive
  /\ stopper[c] = Idle
  /\ stops < MaxStops
  /\ stops' = stops + 1
  /\ StopUuid(c, {u})
  /\ UNCHANGED <<registryVars, cancelled, channelVars, threadVars, meowVars,
                 crashed>>

\* StopAll stops the keys that clients has when it starts to range over it.
CallStopAll(c) ==
  /\ Alive
  /\ stopper[c] = Idle
  /\ stops < MaxStops
  /\ stops' = stops + 1
  /\ StopUuid(c, {u \in Uuid : clients[u] # None})
  /\ UNCHANGED <<registryVars, cancelled, channelVars, threadVars, meowVars,
                 crashed>>

\* A fault: the result of the lookup is used without asking if it exists.
MutLookupClient(c) ==
  /\ Alive
  /\ stopper[c].at = "lookup_client"
  /\ StopAt(c, "disconnect", clients[stopper[c].uuid])
  /\ UNCHANGED <<registryVars, cancelled, channelVars, threadVars, meowVars,
                 stops, crashed>>

LookupClient(c) ==
  /\ Alive
  /\ stopper[c].at = "lookup_client"
  /\ LET s == clients[stopper[c].uuid] IN
       StopAt(c, IF s = None THEN "lookup_signal" ELSE "disconnect", s)
  /\ UNCHANGED <<registryVars, cancelled, channelVars, threadVars, meowVars,
                 stops, crashed>>

\* Disconnect does not wait for the handlers that are running.
DisconnectClient(c) ==
  /\ Alive
  /\ stopper[c].at = "disconnect"
  /\ link' = [link EXCEPT ![stopper[c].held] = "down"]
  /\ StopAt(c, "forget_client", None)
  /\ UNCHANGED <<registryVars, cancelled, channelVars, threadVars, storeID,
                 handler, dispatched, stops, crashed>>

ForgetClient(c) ==
  /\ Alive
  /\ stopper[c].at = "forget_client"
  /\ clients' = [clients EXCEPT ![stopper[c].uuid] = None]
  /\ StopAt(c, "lookup_signal", None)
  /\ UNCHANGED <<StopSignal, eventChannel, cancelled, channelVars, threadVars,
                 meowVars, stops, crashed>>

\* A fault: the context is not cancelled.
MutLookupSignal(c) ==
  /\ Alive
  /\ stopper[c].at = "lookup_signal"
  /\ StopAt(c, "lookup_channel", None)
  /\ UNCHANGED <<registryVars, cancelled, channelVars, threadVars, meowVars,
                 stops, crashed>>

LookupSignal(c) ==
  /\ Alive
  /\ stopper[c].at = "lookup_signal"
  /\ LET s == StopSignal[stopper[c].uuid] IN
       StopAt(c, IF s = None THEN "lookup_channel" ELSE "cancel", s)
  /\ UNCHANGED <<registryVars, cancelled, channelVars, threadVars, meowVars,
                 stops, crashed>>

\* A fault: the cancel does not wake a parked loop.
MutCancelContext(c) ==
  /\ Alive
  /\ stopper[c].at = "cancel"
  /\ cancelled' = [cancelled EXCEPT ![stopper[c].held] = TRUE]
  /\ StopAt(c, "forget_signal", None)
  /\ UNCHANGED <<registryVars, channelVars, threadVars, meowVars, stops,
                 crashed>>

\* Cancelling wakes a parked loop, which returns.
CancelContext(c) ==
  /\ Alive
  /\ stopper[c].at = "cancel"
  /\ LET s == stopper[c].held IN
       /\ cancelled' = [cancelled EXCEPT ![s] = TRUE]
       /\ pc' = [pc EXCEPT ![s] = IF @ = "parked" THEN "returned" ELSE @]
  /\ StopAt(c, "forget_signal", None)
  /\ UNCHANGED <<registryVars, channelVars, channel, device, delivered,
                 meowVars, stops, crashed>>

ForgetSignal(c) ==
  /\ Alive
  /\ stopper[c].at = "forget_signal"
  /\ StopSignal' = [StopSignal EXCEPT ![stopper[c].uuid] = None]
  /\ StopAt(c, "lookup_channel", None)
  /\ UNCHANGED <<clients, eventChannel, cancelled, channelVars, threadVars,
                 meowVars, stops, crashed>>

\* The end of one Stop: StopAll goes on with a key clients still has.
StopNext(c) ==
  LET todo == {u \in stopper[c].todo : clients[u] # None} IN
    IF todo = {} THEN stopper' = [stopper EXCEPT ![c] = Idle]
                 ELSE StopUuid(c, todo)

LookupChannel(c) ==
  /\ Alive
  /\ stopper[c].at = "lookup_channel"
  /\ LET s == eventChannel[stopper[c].uuid] IN
       IF s = None THEN StopNext(c) ELSE StopAt(c, "close", s)
  /\ UNCHANGED <<registryVars, cancelled, channelVars, threadVars, meowVars,
                 stops, crashed>>

\* A fault: the closed channel stays in the registry.
MutCloseChannel(c) ==
  /\ Alive
  /\ stopper[c].at = "close"
  /\ closed' = [closed EXCEPT ![stopper[c].held] = TRUE]
  /\ StopNext(c)
  /\ UNCHANGED <<registryVars, cancelled, queue, sent, threadVars, meowVars,
                 stops, crashed>>

\* Closing wakes a loop parked on the channel with a nil message.
CloseChannel(c) ==
  /\ Alive
  /\ stopper[c].at = "close"
  /\ LET s == stopper[c].held IN
       \/ /\ closed[s]
          /\ Crash("double_close")
       \/ /\ ~closed[s]
          /\ ParkedOn(s) # {}
          /\ Crash("nil_message")
       \/ /\ ~closed[s]
          /\ ParkedOn(s) = {}
          /\ closed' = [closed EXCEPT ![s] = TRUE]
          /\ StopAt(c, "forget_channel", None)
          /\ UNCHANGED <<registryVars, cancelled, queue, sent, threadVars,
                         meowVars, stops, crashed>>

ForgetChannel(c) ==
  /\ Alive
  /\ stopper[c].at = "forget_channel"
  /\ eventChannel' = [eventChannel EXCEPT ![stopper[c].uuid] = None]
  /\ StopNext(c)
  /\ UNCHANGED <<clients, StopSignal, cancelled, channelVars, threadVars,
                 meowVars, stops, crashed>>

\* Disconnect, and like it every export: clients[id] is used unchecked.
Disconnect(u) ==
  /\ Alive
  /\ \/ /\ clients[u] # None
        /\ link' = [link EXCEPT ![clients[u]] = "down"]
        /\ UNCHANGED <<registryVars, cancelled, channelVars, threadVars,
                       storeID, handler, dispatched, stopVars, crashed>>
     \/ /\ clients[u] = None
        /\ Crash("call_after_stop")

-----------------------------------------------------------------------------
NeonizeThread(s) ==
  \/ Start(s) \/ MakeChannel(s) \/ Register(s) \/ DeviceFails(s)
  \/ ConnectStored(s) \/ ConnectQr(s) \/ ConnectPairCode(s) \/ ConnectFails(s)
  \/ QrChannelCloses(s)
  \/ ReadChannel(s) \/ ReadStore(s) \/ DeviceKnown(s)
  \/ CallbackReturns(s) \/ SelectDone(s) \/ SelectEvent(s) \/ SelectNil(s)
  \/ Park(s)

HandlerStep(g) ==
  \/ LoginHandOff(g) \/ SendBuffered(g) \/ SendOnClosed(g)
  \/ \E t \in Session : SendToParked(g, t)

Whatsmeow(s, g) ==
  \/ PairDevice(s, g) \/ LogIn(s, g) \/ Drop(s, g)
  \/ \E k \in Kind : Receive(s, g, k)

StopThread(c) ==
  \/ CallStopAll(c)
  \/ \E u \in Uuid : CallStop(c, u)
  \/ LookupClient(c) \/ DisconnectClient(c) \/ ForgetClient(c)
  \/ LookupSignal(c) \/ CancelContext(c) \/ ForgetSignal(c)
  \/ LookupChannel(c) \/ CloseChannel(c) \/ ForgetChannel(c)

Next ==
  \/ \E s \in Session : NeonizeThread(s)
  \/ \E g \in Goroutine : HandlerStep(g)
  \/ \E s \in Session, g \in Goroutine : Whatsmeow(s, g)
  \/ \E c \in Caller : StopThread(c)
  \/ \E u \in Uuid : Disconnect(u)

Spec == Init /\ [][Next]_vars

(***************************************************************************)
(* Fairness: the Go scheduler runs every goroutine that can run, and a     *)
(* Python handler returns.  A select that finds its context done again and *)
(* again takes that case eventually, because it picks among the ready      *)
(* cases at random.  Nothing is assumed of the network, the phone, the     *)
(* expiry of QR codes or the threads that call Stop.                       *)
(***************************************************************************)
LoopThread(s) ==
  \/ ReadChannel(s) \/ ReadStore(s) \/ DeviceKnown(s)
  \/ CallbackReturns(s) \/ SelectEvent(s) \/ SelectNil(s) \/ Park(s)

Fairness ==
  /\ \A s \in Session : WF_vars(LoopThread(s)) /\ SF_vars(SelectDone(s))
  /\ \A g \in Goroutine : WF_vars(HandlerStep(g))

FairSpec == Spec /\ Fairness

-----------------------------------------------------------------------------
(***************************************************************************)
(* Properties.                                                             *)
(***************************************************************************)

TypeOK ==
  /\ clients \in [Uuid -> Session \cup {None}]
  /\ StopSignal \in [Uuid -> Session \cup {None}]
  /\ eventChannel \in [Uuid -> Session \cup {None}]
  /\ cancelled \in [Session -> BOOLEAN]
  /\ queue \in [Session -> Seq(Event)]
  /\ closed \in [Session -> BOOLEAN]
  /\ pc \in [Session -> Phase]
  /\ channel \in [Session -> Session \cup {None}]
  /\ device \in [Session -> Session \cup {None}]
  /\ \A s \in Session : pc[s] = "wait_id" => device[s] # None
  /\ delivered \in [Session -> Seq(Event)]
  /\ link \in [Session -> {"down", "dialed", "online"}]
  /\ storeID \in [Session -> BOOLEAN]
  /\ handler \in [Goroutine -> Job \cup {None}]
  /\ dispatched \in [Session -> 0..MaxEvents]
  /\ sent \in [Session -> Seq(Event)]
  /\ stopper \in [Caller -> StopCall \cup {Idle}]
  /\ stops \in 0..MaxStops
  /\ crashed \in Reason \cup {"no"}

Promise == INSTANCE EventStream

Received(s) == Promise!Received(s)

\* No two sessions share a uuid, as ClientFactory.new_client asks.
DistinctUuids ==
  \A s, t \in Session : uuidOf[s] = uuidOf[t] => s = t

\* No event is lost, duplicated or overtaken between the event handlers and
\* Python, whichever goroutines send them and however full the channel gets:
\* what Python has seen of a session, followed by what waits in its channel,
\* is exactly what its handlers sent.
InOrderNoLoss ==
  \A s \in Session :
    /\ Len(sent[s]) = Received(s) + Len(queue[s])
    /\ \A i \in 1..Received(s) : delivered[s][i + 1] = sent[s][i]
    /\ \A i \in 1..Len(queue[s]) : queue[s][i] = sent[s][Received(s) + i]

\* A session's callbacks carry only its own device and its own events.  The
\* loop finds its channel and its device in registries that any other call of
\* Neonize or Stop may change first.
OwnEvents ==
  \A s \in Session : \A i \in 1..Len(delivered[s]) : delivered[s][i].src = s

\* The device is the first callback and comes only once, even if events were
\* queued, dropped or cancelled while the session was logging in.
DeviceFirst ==
  \A s \in Session : \A i \in 1..Len(delivered[s]) :
    (delivered[s][i].kind = Me) <=> (i = 1)

\* Python is never called with an event it did not subscribe to: list_func
\* has no entry for it.
OnlySubscribed ==
  \A s \in Session : \A i \in 2..Len(delivered[s]) :
    delivered[s][i].kind \in subscribers[s]

\* No wake-up is lost: a loop asleep in its select has nothing to receive and
\* no reason to stop.
ParkedLoopHasNothing ==
  \A s \in Session :
    pc[s] = "parked" => /\ ~cancelled[s]
                        /\ ~EventReady(s)
                        /\ ~NilReady(s)

\* The registry names a closed channel only while a Stop of that uuid is about
\* to delete it, whatever other connects and Stops do in the meantime: a Stop
\* that begins when no other is running finds no closed channel, so it takes
\* two that overlap to close one twice.
ClosedChannelsLeave ==
  \A u \in Uuid :
    eventChannel[u] # None /\ closed[eventChannel[u]] =>
      \E c \in Caller : stopper[c].at = "forget_channel" /\ stopper[c].uuid = u

\* A session opened by PairPhone reads its device only once it has one: the
\* hand-over of the first Connected event orders the two threads.
PairedBeforeDevice ==
  \A s \in PairMode : pc[s] \in Fetch \cup Loop => storeID[s]

\* Stop closes the channel only after it has cancelled the context, and a
\* sleeping loop returns on the cancel.  So only a loop that was awake, in
\* the middle of a callback, can trip over the closed channel.
NilMessageOnlyAwake ==
  [][crashed' = "nil_message" =>
       \E s \in Session : pc[s] = "select" /\ cancelled[s]]_vars

\* Python sees each session as EventStream describes it.
KeepsPromise == Promise!Spec

\* A cancelled loop returns or takes the process down; it does not go on for
\* ever, even while events keep arriving.
StopEndsLoop ==
  \A s \in Session :
    (cancelled[s] /\ pc[s] \in Loop) ~> (pc[s] = "returned" \/ ~Alive)

\* Once the loop runs, every event the handlers managed to send reaches
\* Python, unless the session is stopped.
EventsReachPython ==
  \A s \in Session : \A i \in 1..MaxEvents :
    (pc[s] \in Loop /\ Len(sent[s]) >= i)
      ~> (Received(s) >= i \/ cancelled[s] \/ ~Alive)

\* A handler blocked on a full channel gets through while the loop runs.
FullChannelDrains ==
  \A s \in Session, g \in Goroutine :
    (pc[s] \in Loop /\ Sending(g) /\ handler[g].src = s)
      ~> (~Sending(g) \/ cancelled[s] \/ ~Alive)

-----------------------------------------------------------------------------
(***************************************************************************)
(* Statements of the repository about a session that the code breaks.      *)
(***************************************************************************)

\* "Stops the client and disconnects from the WhatsApp servers"
\* (neonize/aioze/client.py, stop): a Stop does not end the whole process.
StopOnlyStops == crashed \notin {"nil_client", "nil_message", "double_close"}

\* A handler registered for ConnectedEv runs on every connect
\* (examples/paircode.py, on_connected): the handler of a Connected event
\* does not wait for ever.
ConnectedGetsThrough ==
  \A s \in Session, g \in Goroutine :
    (handler[g] # None /\ handler[g].src = s /\ handler[g].kind = Connected)
      ~> (handler[g] = None \/ cancelled[s] \/ ~Alive)

\* "Stops the client and disconnects from the WhatsApp servers"
\* (neonize/aioze/client.py, stop): a session that has left the login and whose
\* client every Stop is done with returns from Neonize, so that idle ends too.
StopEndsSession ==
  \A s \in Session :
    (cancelled[s] /\ pc[s] \in Fetch \cup Loop /\ stopper = [c \in Caller |-> Idle])
      ~> (pc[s] = "returned" \/ ~Alive)
=============================================================================
