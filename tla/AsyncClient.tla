----------------------------- MODULE AsyncClient -----------------------------
(***************************************************************************)
(* The asyncio clients of neonize/aioze: an application coroutine that     *)
(* connects its clients, the event loop event_global_loop, the worker      *)
(* threads of asyncio.to_thread, and Event.execute, which the sessions of  *)
(* goneonize call from those threads.                                      *)
(*                                                                         *)
(* A session is what EventStream promises of it, which Session implements; *)
(* here it also needs a worker thread for as long as Neonize has not       *)
(* returned.  Sessions that take the process down are left to Session.     *)
(***************************************************************************)
EXTENDS Naturals, Sequences, FiniteSets

CONSTANTS
  Client,         \* the clients; they share one list_func, as in a factory
  Kind,           \* the kinds of events
  registered,     \* the kinds with a handler when the program starts
  Late,           \* the kinds that may get a handler later on
  handlerScript,  \* what the handler of a kind awaits, one call after another
  mainScript,     \* what the application awaits once it has connected
  Workers,        \* the number of worker threads of the default executor
  OnGlobalLoop,   \* FALSE if the application runs on a loop of its own
  Capacity,       \* the capacity of a session's channel
  MaxEvents,      \* bound: how many events each session accepts
  None            \* stands for the client of the application's own tasks

Connected == "Connected"
Me == "Me"
Call == {"call", "stop", "stop_all"}
MaxScript == 3

ASSUME AsyncAssumption ==
  /\ IsFiniteSet(Client)
  /\ None \notin Client
  /\ Connected \in Kind
  /\ Me \notin Kind
  /\ registered \subseteq Kind
  /\ Late \subseteq Kind
  /\ handlerScript \in [Kind -> Seq(Call)]
  /\ mainScript \in Seq({"call", "stop_all", "idle"})
  /\ \A k \in Kind : Len(handlerScript[k]) <= MaxScript
  /\ Len(mainScript) <= MaxScript
  /\ Workers \in Nat \ {0}
  /\ OnGlobalLoop \in BOOLEAN
  /\ Capacity \in Nat \ {0}
  /\ MaxEvents \in [Client -> Nat]

VARIABLES
  \* The Go side of each session.
  sent,        \* the events its handlers accepted
  delivered,   \* the callbacks it made
  phase,       \* where the call of Neonize is
  stopped,     \* Stop or StopAll has cancelled it
  toStop,      \* the sessions the call a task is in has still to cancel
  \* The clients.
  listFunc,    \* event.list_func: the kinds with a handler
  subscribed,  \* the copy of it that connect passed to Neonize
  me,          \* client.me is set
  connected,   \* client.connected
  \* The loop and the executor.
  state,       \* of each task
  pos,         \* how far each task is in its script
  ready,       \* the callbacks the loop has still to run, in order
  work,        \* the calls that wait for a worker, in order
  running,     \* the calls a worker is in
  started      \* history: the handlers that began, in order

goVars == <<sent, delivered>>
stopVars == <<stopped, toStop>>
clientVars == <<listFunc, subscribed, me, connected>>
vars == <<goVars, phase, stopVars, clientVars, state, pos, ready, work,
          running, started>>

-----------------------------------------------------------------------------
(***************************************************************************)
(* Tasks: the application, an interrupt, and for each client the task that *)
(* connect creates (number 0) and the handler of its n-th event.           *)
(***************************************************************************)
Main == [of |-> None, n |-> 0]
Signal == [of |-> None, n |-> 1]
ConnectTask(c) == [of |-> c, n |-> 0]
Handler(c, n) == [of |-> c, n |-> n]
Task ==
  {Main, Signal} \cup UNION {[of : {c}, n : 0..MaxEvents[c]] : c \in Client}

Script(t) ==
  IF t = Main THEN mainScript
  ELSE IF t = Signal THEN <<"stop_all">>
  ELSE IF t.n = 0 THEN <<"neonize">>
  ELSE handlerScript[delivered[t.of][t.n + 1].kind]

\* A callback runs its task once it has gone through the queue hops times:
\* run_coroutine_threadsafe first creates the task, the finished call of a
\* worker first resolves the future.  With ok FALSE it raises an exception.
Callback(t, hops, ok) == [task |-> t, hops |-> hops, ok |-> ok]

\* idle is resumed by the task it awaits, idle_all through two more futures.
IdleHops == 0..2

Job(t, op) == [task |-> t, op |-> op]

Go == INSTANCE EventStream WITH
        Session <- Client, subscribers <- [c \in Client |-> Kind]

Connects(c) == state[ConnectTask(c)]
AllReturned == \A c \in Client : Connects(c) = "done"

Init ==
  /\ Go!Init
  /\ phase = [c \in Client |-> "none"]
  /\ stopped = [c \in Client |-> FALSE]
  /\ toStop = [t \in Task |-> {}]
  /\ listFunc = registered
  /\ subscribed = [c \in Client |-> {}]
  /\ me = [c \in Client |-> FALSE]
  /\ connected = [c \in Client |-> FALSE]
  /\ state = [t \in Task |-> "new"]
  /\ pos = [t \in Task |-> 0]
  /\ ready = <<>>
  /\ work = <<>>
  /\ running = {}
  /\ started = [c \in Client |-> <<>>]

-----------------------------------------------------------------------------
(***************************************************************************)
(* The application.                                                        *)
(***************************************************************************)

\* connect copies list_func and creates its task on event_global_loop.
Connect(c) ==
  /\ state[Main] = "new"
  /\ Connects(c) = "new"
  /\ subscribed' = [subscribed EXCEPT ![c] = listFunc]
  /\ state' = [state EXCEPT ![ConnectTask(c)] = "scheduled"]
  /\ ready' = Append(ready, Callback(ConnectTask(c), 0, TRUE))
  /\ UNCHANGED <<goVars, phase, stopVars, listFunc, me, connected, pos, work,
                 running, started>>

\* With every client connected the application goes on, at once or, when it
\* awaits the gather of ClientFactory.run, after the tasks it created.
GoOn ==
  /\ OnGlobalLoop
  /\ state[Main] = "new"
  /\ \A c \in Client : Connects(c) # "new"
  /\ state' = [state EXCEPT ![Main] = "scheduled"]
  /\ \/ ready' = Append(ready, Callback(Main, 0, TRUE))
     \/ ready' = <<Callback(Main, 0, TRUE)>> \o ready
  /\ UNCHANGED <<goVars, phase, stopVars, clientVars, pos, work, running,
                 started>>

\* The signal handler of the examples hands ClientFactory.stop to the loop.
Interrupt ==
  /\ OnGlobalLoop
  /\ state[Main] \notin {"new", "done"}
  /\ state[Signal] = "new"
  /\ state' = [state EXCEPT ![Signal] = "scheduled"]
  /\ ready' = Append(ready, Callback(Signal, 1, TRUE))
  /\ UNCHANGED <<goVars, phase, stopVars, clientVars, pos, work, running,
                 started>>

\* A handler is registered; whoever has connected keeps the older copy.
Subscribe(k) ==
  /\ k \in Late \ listFunc
  /\ listFunc' = listFunc \cup {k}
  /\ UNCHANGED <<goVars, phase, stopVars, subscribed, me, connected, state, pos,
                 ready, work, running, started>>

-----------------------------------------------------------------------------
(***************************************************************************)
(* event_global_loop runs the callback at the head of its queue.  It goes  *)
(* on until the application has returned, and may then still run some of   *)
(* what is queued.                                                         *)
(***************************************************************************)

Hop ==
  /\ OnGlobalLoop
  /\ ready # <<>>
  /\ Head(ready).hops > 0
  /\ ready' = Append(Tail(ready), [Head(ready) EXCEPT !.hops = @ - 1])
  /\ UNCHANGED <<goVars, phase, stopVars, clientVars, state, pos, work, running,
                 started>>

Runs(t) ==
  /\ OnGlobalLoop
  /\ ready # <<>>
  /\ Head(ready).hops = 0
  /\ Head(ready).task = t
  /\ pos' = [pos EXCEPT ![t] = @ + 1]
  /\ started' = IF t.n > 0 /\ t # Signal /\ pos[t] = 0
                THEN [started EXCEPT ![t.of] = Append(@, t.n)]
                ELSE started
  /\ UNCHANGED <<goVars, phase, stopVars, clientVars, running>>

Finishes(t) == ~Head(ready).ok \/ pos[t] = Len(Script(t))

\* asyncio.to_thread: the call queues for a worker.
AwaitCall(t) ==
  /\ Runs(t)
  /\ ~Finishes(t)
  /\ Script(t)[pos[t] + 1] # "idle"
  /\ work' = Append(work, Job(t, Script(t)[pos[t] + 1]))
  /\ state' = [state EXCEPT ![t] = "awaiting"]
  /\ ready' = Tail(ready)

\* idle awaits the tasks of connect.  To await a finished task does not
\* yield to the loop; to gather finished ones does.
AwaitIdle ==
  /\ Runs(Main)
  /\ ~Finishes(Main)
  /\ Script(Main)[pos[Main] + 1] = "idle"
  /\ IF AllReturned
     THEN /\ \/ UNCHANGED ready
             \/ \E h \in IdleHops :
                  ready' = Append(Tail(ready), Callback(Main, h, TRUE))
          /\ UNCHANGED state
     ELSE /\ ready' = Tail(ready)
          /\ state' = [state EXCEPT ![Main] = "idle"]
  /\ UNCHANGED work

\* A task returns, or ends with the exception of its call, which nobody sees.
\* The last task of connect wakes an application that idles.
Finish(t) ==
  /\ Runs(t)
  /\ Finishes(t)
  /\ LET wakes == /\ state[Main] = "idle"
                  /\ \E c \in Client : t = ConnectTask(c)
                  /\ \A c \in Client :
                       t = ConnectTask(c) \/ Connects(c) = "done"
     IN IF wakes
        THEN /\ \E h \in IdleHops :
                  ready' = Append(Tail(ready), Callback(Main, h, TRUE))
             /\ state' = [state EXCEPT ![t] = "done", ![Main] = "scheduled"]
        ELSE /\ ready' = Tail(ready)
             /\ state' = [state EXCEPT ![t] = "done"]
  /\ UNCHANGED work

Loop ==
  \/ Hop
  \/ AwaitIdle
  \/ \E t \in Task : AwaitCall(t) \/ Finish(t)

-----------------------------------------------------------------------------
(***************************************************************************)
(* The worker threads.                                                     *)
(***************************************************************************)

\* Stop is for the client of the handler that awaits it; StopAll ranges over
\* the clients registered when it starts.
Finds(j) ==
  CASE j.op = "stop"     -> {c \in Client : c = j.task.of}
    [] j.op = "stop_all" -> {c \in Client : phase[c] = "up"}
    [] OTHER             -> {}

\* The fault of an executor that starts a thread for every call.
MutTakeCall ==
  /\ work # <<>>
  /\ running' = running \cup {Head(work)}
  /\ work' = Tail(work)
  /\ phase' = IF Head(work).op = "neonize"
              THEN [phase EXCEPT ![Head(work).task.of] = "entered"]
              ELSE phase
  /\ toStop' = [toStop EXCEPT ![Head(work).task] = Finds(Head(work))]
  /\ UNCHANGED <<goVars, stopped, clientVars, state, pos, ready, started>>

TakeCall ==
  /\ work # <<>>
  /\ Cardinality(running) < Workers
  /\ running' = running \cup {Head(work)}
  /\ work' = Tail(work)
  /\ phase' = IF Head(work).op = "neonize"
              THEN [phase EXCEPT ![Head(work).task.of] = "entered"]
              ELSE phase
  /\ toStop' = [toStop EXCEPT ![Head(work).task] = Finds(Head(work))]
  /\ UNCHANGED <<goVars, stopped, clientVars, state, pos, ready, started>>

\* The fault of resuming the task from the worker's thread.
MutCallEnds(j, ok) ==
  /\ running' = running \ {j}
  /\ ready' = Append(ready, Callback(j.task, 0, ok))
  /\ state' = [state EXCEPT ![j.task] = "scheduled"]

\* The worker is free again and tells the loop.
CallEnds(j, ok) ==
  /\ running' = running \ {j}
  /\ ready' = Append(ready, Callback(j.task, 1, ok))
  /\ state' = [state EXCEPT ![j.task] = "scheduled"]

\* Any exported call but those below: it answers, or raises an exception.
CallReturns(j) ==
  /\ j \in running
  /\ j.op = "call"
  /\ \E ok \in BOOLEAN : CallEnds(j, ok)
  /\ UNCHANGED <<goVars, phase, stopVars, clientVars, pos, work, started>>

\* Stop deletes the session from clients and cancels it, which Session has as
\* steps of their own.  The range of StopAll may or may not come to a session
\* that registers while it goes on.
StopSession(j, c) ==
  /\ j \in running
  /\ \/ c \in toStop[j.task]
     \/ j.op = "stop_all" /\ phase[c] = "up" /\ ~stopped[c]
  /\ stopped' = [stopped EXCEPT ![c] = @ \/ phase[c] = "up"]
  /\ toStop' = [toStop EXCEPT ![j.task] = @ \ {c}]
  /\ UNCHANGED <<goVars, phase, clientVars, state, pos, ready, work, running,
                 started>>

\* The fault of StopAll ending before it has come to every session.
MutStopReturns(j) ==
  /\ j \in running
  /\ j.op \in {"stop", "stop_all"}
  /\ CallEnds(j, TRUE)
  /\ UNCHANGED <<goVars, phase, stopVars, clientVars, pos, work, started>>

StopReturns(j) ==
  /\ j \in running
  /\ j.op \in {"stop", "stop_all"}
  /\ toStop[j.task] = {}
  /\ CallEnds(j, TRUE)
  /\ UNCHANGED <<goVars, phase, stopVars, clientVars, pos, work, started>>

-----------------------------------------------------------------------------
(***************************************************************************)
(* The sessions.                                                           *)
(***************************************************************************)

RegisterClient(c) ==
  /\ phase[c] = "entered"
  /\ phase' = [phase EXCEPT ![c] = "up"]
  /\ UNCHANGED <<goVars, stopVars, clientVars, state, pos, ready, work, running,
                 started>>

\* The fault of handing the device to the loop like any other event.
MutIntroduce(c) ==
  /\ phase[c] = "up"
  /\ Go!Introduce(c)
  /\ UNCHANGED <<phase, stopVars, clientVars, state, pos, ready, work, running,
                 started>>

\* Event.execute, called with code 0, sets client.me and nothing else.
Introduce(c) ==
  /\ phase[c] = "up"
  /\ Go!Introduce(c)
  /\ me' = [me EXCEPT ![c] = TRUE]
  /\ UNCHANGED <<phase, stopVars, listFunc, subscribed, connected, state, pos,
                 ready, work, running, started>>

\* The fault of putting a handler ahead of what the loop has queued.
MutExecute(c, k) ==
  LET t == Handler(c, Len(delivered[c])) IN
    /\ connected' = [connected EXCEPT ![c] = @ \/ k = Connected]
    /\ state' = [state EXCEPT ![t] = "scheduled"]
    /\ ready' = <<Callback(t, 0, TRUE)>> \o ready

\* The fault of a handler whose coroutine is created but never scheduled.
MutExecuteNothing(c, k) ==
  /\ connected' = [connected EXCEPT ![c] = @ \/ k = Connected]
  /\ UNCHANGED <<state, ready>>

\* Event.execute with any other code: it runs on the worker thread of the
\* session and hands the handler to the loop without waiting for it.
Execute(c, k) ==
  LET t == Handler(c, Len(delivered[c])) IN
    /\ connected' = [connected EXCEPT ![c] = @ \/ k = Connected]
    /\ state' = [state EXCEPT ![t] = "scheduled"]
    /\ ready' = Append(ready, Callback(t, 1, TRUE))

Accept(c, k) ==
  /\ phase[c] = "up"
  /\ k \in subscribed[c]
  /\ Len(sent[c]) < MaxEvents[c]
  /\ Go!Accept(c, k)
  /\ UNCHANGED <<phase, stopVars, clientVars, state, pos, ready, work, running,
                 started>>

Deliver(c) ==
  /\ phase[c] = "up"
  /\ Go!Deliver(c)
  /\ Execute(c, sent[c][Go!Received(c) + 1].kind)
  /\ UNCHANGED <<phase, stopVars, listFunc, subscribed, me, pos, work, running,
                 started>>

PassOn(c, k) ==
  /\ phase[c] = "up"
  /\ k \in subscribed[c]
  /\ Len(sent[c]) < MaxEvents[c]
  /\ Go!PassOn(c, k)
  /\ Execute(c, k)
  /\ UNCHANGED <<phase, stopVars, listFunc, subscribed, me, pos, work, running,
                 started>>

\* Only the callback loop, which follows the device, looks at the cancel.
NeonizeReturns(c) ==
  /\ phase[c] = "up"
  /\ stopped[c]
  /\ delivered[c] # <<>>
  /\ phase' = [phase EXCEPT ![c] = "returned"]
  /\ CallEnds(Job(ConnectTask(c), "neonize"), TRUE)
  /\ UNCHANGED <<goVars, stopVars, clientVars, pos, work, started>>

-----------------------------------------------------------------------------
Application ==
  \/ GoOn \/ Interrupt
  \/ \E c \in Client : Connect(c)
  \/ \E k \in Late : Subscribe(k)

Worker ==
  \/ TakeCall
  \/ \E j \in running : CallReturns(j) \/ StopReturns(j)
  \/ \E j \in running, c \in Client : StopSession(j, c)

GoSession(c) ==
  \/ RegisterClient(c) \/ Introduce(c) \/ Deliver(c) \/ NeonizeReturns(c)
  \/ \E k \in Kind : Accept(c, k) \/ PassOn(c, k)

Next ==
  \/ Application \/ Loop \/ Worker
  \/ \E c \in Client : GoSession(c)

Spec == Init /\ [][Next]_vars

\* Threads get to run and the loop goes on while the application awaits
\* something; exported calls answer, and whatever waits in a channel reaches
\* Python and a cancelled session returns from its loop, as EventsReachPython
\* and StopEndsLoop say of Session.  Nothing is assumed of events, interrupts
\* or devices: a session whose phone never pairs stays in FetchMe for ever.
Fairness ==
  /\ WF_vars(GoOn) /\ \A c \in Client : WF_vars(Connect(c))
  /\ WF_vars(state[Main] # "done" /\ Loop)
  /\ WF_vars(TakeCall)
  /\ \A t \in Task :
       WF_vars(\E j \in running :
                 /\ j.task = t
                 /\ \/ CallReturns(j) \/ StopReturns(j)
                    \/ \E c \in Client : StopSession(j, c))
  /\ \A c \in Client : /\ WF_vars(RegisterClient(c))
                       /\ WF_vars(Deliver(c))
                       /\ WF_vars(NeonizeReturns(c))

FairSpec == Spec /\ Fairness

-----------------------------------------------------------------------------
(***************************************************************************)
(* Properties.                                                             *)
(***************************************************************************)
JobType ==
  {Job(t, op) : t \in Task, op \in Call \cup {"neonize"}}

TypeOK ==
  /\ phase \in [Client -> {"none", "entered", "up", "returned"}]
  /\ stopped \in [Client -> BOOLEAN]
  /\ toStop \in [Task -> SUBSET Client]
  /\ listFunc \subseteq Kind
  /\ subscribed \in [Client -> SUBSET listFunc]
  /\ me \in [Client -> BOOLEAN]
  /\ connected \in [Client -> BOOLEAN]
  /\ state \in [Task -> {"new", "scheduled", "awaiting", "idle", "done"}]
  /\ pos \in [Task -> 0..(MaxScript + 1)]
  /\ ready \in Seq([task : Task, hops : 0..2, ok : BOOLEAN])
  /\ work \in Seq(JobType)
  /\ running \subseteq JobType
  /\ Cardinality(running) <= Workers
  /\ started \in [Client -> Seq(Nat)]

\* Handlers of one client begin in the order of its events and none is left
\* out, although execute hands each to the loop from another thread and does
\* not wait for it.
HandlersInOrder ==
  \A c \in Client : \A i \in 1..Len(started[c]) : started[c][i] = i

\* A handler finds client.me set, and client.connected if it handles the
\* Connected event: both are written on the thread of the session, without
\* the loop, before the handler can run.
FlagsFirst ==
  \A c \in Client : \A i \in 1..Len(started[c]) :
    me[c] /\ (delivered[c][i + 1].kind = Connected => connected[c])

\* When the task of connect has ended, so that idle returns, every event the
\* session delivered has had its handler begun: the loop does not learn of
\* the end of Neonize before it has learnt of the events.
IdleSeesAll ==
  \A c \in Client :
    Connects(c) = "done" => Len(started[c]) = Len(delivered[c]) - 1

\* With a worker to spare, the handler of every event accepted for a session
\* that has its device ends, unless the session is stopped or the application
\* returns.
EventsHandled ==
  \A c \in Client : \A i \in 1..MaxEvents[c] :
    (delivered[c] # <<>> /\ Len(sent[c]) >= i)
      ~> (state[Handler(c, i)] = "done" \/ stopped[c] \/ state[Main] = "done")

StopAllAsked == \E i \in 1..Len(work) : work[i].op = "stop_all"

\* "Stops all clients and disconnects from the WhatsApp servers"
\* (neonize/aioze/client.py, ClientFactory.stop): the sessions that have their
\* device when StopAll is asked for come to an end, though events, other Stops
\* and connects go on meanwhile.  StopAll needs a worker.  (One without its
\* device need not end: StopEndsSession of Session.)
StopAllStops ==
  \A c \in Client :
    (StopAllAsked /\ phase[c] = "up" /\ delivered[c] # <<>>)
      ~> phase[c] = "returned"

\* "Establishes a connection to the WhatsApp servers" (neonize/aioze/client.py,
\* connect): a client on which connect was called enters Neonize.  Its task
\* needs event_global_loop to run.
ConnectEnters ==
  \A c \in Client : Connects(c) = "scheduled" ~> phase[c] # "none"
=============================================================================
