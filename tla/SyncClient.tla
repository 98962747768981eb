------------------------------ MODULE SyncClient ------------------------------
(***************************************************************************)
(* A program that uses the synchronous clients (events.py, client.py:      *)
(* connect, PairPhone and ClientFactory).  One client is connected by the  *)
(* main thread itself, or all clients of a factory by daemon threads.  A   *)
(* call of Neonize in goneonize calls back into the thread that made it;   *)
(* signals are handled by the main thread, when it runs Python.            *)
(* The sessions have a device already, as those of get_all_devices have.   *)
(***************************************************************************)
EXTENDS Naturals, Sequences

CONSTANTS
  Client,       \* what new_client and NewClient have made
  OnMain,       \* which of them the main thread may connect: {c}, or {} for run()
  Kind,         \* kinds of events
  Early,        \* those it registers handlers for before it connects
  MaxReceived,  \* bound: events of each client
  Me            \* code 0

ASSUME SyncAssumption ==
  /\ OnMain \subseteq SUBSET Client /\ \A s \in OnMain : \A c, d \in s : c = d
  /\ "Connected" \in Early /\ Early \subseteq Kind
  /\ Me \notin Kind /\ MaxReceived \in Nat

VARIABLES
  onMain,      \* the client of the main thread
  main,        \* where the main thread is
  list_func,   \* the kinds with a handler; one dict for all clients
  subscribed,  \* the codes connect has copied from it
  session,     \* where the thread that connects the client is
  me, connected,
  eventChan,   \* the events Go holds for the client
  received,    \* how many there have been
  current,     \* what the callback was called with
  pending,     \* SIGINT has come and its handler has not run
  event        \* the Event that handler sets

syncVars == <<onMain, main, list_func, subscribed, session, me, connected,
              eventChan, received, current, pending, event>>

\* The types of the clients and their threads (NewClient, Event, ClientFactory);
\* a handler is called with a message, never with the device.
SyncTypeOK ==
  /\ onMain \in OnMain
  /\ main \in {"setup", "connect", "wait", "ended"}
  /\ list_func \in SUBSET Kind
  /\ subscribed \in [Client -> SUBSET Kind]
  /\ session \in [Client -> {"none", "started", "copied", "raised", "select",
                             "callback", "handler", "killed"}]
  /\ me \in [Client -> BOOLEAN] /\ connected \in [Client -> BOOLEAN]
  /\ eventChan \in [Client -> Seq(Kind)]
  /\ received \in [Client -> 0..MaxReceived]
  /\ current \in [Client -> Kind \union {Me}]
  /\ \A c \in Client : session[c] = "handler" => current[c] \in Kind
  /\ pending \in BOOLEAN /\ event \in BOOLEAN

SyncInit ==
  /\ onMain \in OnMain
  /\ main = "setup"
  /\ list_func = Early
  /\ subscribed = [c \in Client |-> {}]
  /\ session = [c \in Client |-> "none"]
  /\ me = [c \in Client |-> FALSE] /\ connected = [c \in Client |-> FALSE]
  /\ eventChan = [c \in Client |-> <<>>]
  /\ received = [c \in Client |-> 0]
  /\ current = [c \in Client |-> Me]
  /\ pending = FALSE /\ event = FALSE

Moves(c, from, to) == session[c] = from /\ session' = [session EXCEPT ![c] = to]

InGo == {"select", "callback", "handler"}

\* Fault: Go calls back on a thread of its own.
MutBytecode(c) == UNCHANGED <<pending, event>>

\* Python runs in the thread of client c: on the main thread, it calls the
\* handler of a signal that has come.
Bytecode(c) ==
  IF c \in onMain THEN pending' = FALSE /\ event' = (event \/ pending)
                  ELSE UNCHANGED <<pending, event>>

-----------------------------------------------------------------------------
(* The main thread.                                                          *)

\* @client.event(...), also after run() has started the threads.
Subscribe(k) ==
  /\ main = "setup"
  /\ k \notin list_func
  /\ list_func' = list_func \union {k}
  /\ UNCHANGED <<onMain, main, subscribed, session, me, connected, eventChan,
                 received, current, pending, event>>

\* ClientFactory.run starts a daemon thread for each client, and returns.
Run ==
  /\ main = "setup" /\ onMain = {}
  /\ \A c \in Client : session[c] = "none"
  /\ session' = [c \in Client |-> "started"]
  /\ UNCHANGED <<onMain, main, list_func, subscribed, me, connected, eventChan,
                 received, current, pending, event>>

\* client.connect() on the main thread.
ConnectMain(c) ==
  /\ main = "setup" /\ c \in onMain
  /\ main' = "connect"
  /\ Moves(c, "none", "started")
  /\ UNCHANGED <<onMain, list_func, subscribed, me, connected, eventChan,
                 received, current, pending, event>>

\* event.wait(), after run(); after connect() it is not reached.
Wait ==
  /\ main = "setup"
  /\ \A c \in Client : session[c] # "none"
  /\ main' = "wait"
  /\ UNCHANGED <<onMain, list_func, subscribed, session, me, connected,
                 eventChan, received, current, pending, event>>

\* All threads end with the process.
Ends == main' = "ended" /\ session' = [c \in Client |-> "killed"]

\* The main thread comes to its end, as in examples/multisession.py after run(),
\* and the daemon threads with it.
Exit ==
  /\ \/ main = "wait" /\ event
     \/ main = "setup" /\ \A c \in Client : session[c] # "none"
  /\ Ends
  /\ UNCHANGED <<onMain, list_func, subscribed, me, connected, eventChan,
                 received, current, pending, event>>

Interrupt ==
  /\ main # "ended"
  /\ ~pending /\ ~event
  /\ pending' = TRUE
  /\ UNCHANGED <<onMain, main, list_func, subscribed, session, me, connected,
                 eventChan, received, current, event>>

\* interrupted(): event.set(), as in all examples.
HandleSignal ==
  /\ main \in {"setup", "wait"}
  /\ pending
  /\ pending' = FALSE
  /\ event' = TRUE
  /\ UNCHANGED <<onMain, main, list_func, subscribed, session, me, connected,
                 eventChan, received, current>>

-----------------------------------------------------------------------------
(* The thread of a client.                                                   *)

\* Fault: all kinds are subscribed to.
MutCopy(c) ==
  /\ Moves(c, "started", "copied")
  /\ subscribed' = [subscribed EXCEPT ![c] = Kind]
  /\ Bytecode(c)
  /\ UNCHANGED <<onMain, main, list_func, me, connected, eventChan, received,
                 current>>

\* d = bytearray(list(self.event.list_func))
Copy(c) ==
  /\ Moves(c, "started", "copied")
  /\ subscribed' = [subscribed EXCEPT ![c] = list_func]
  /\ Bytecode(c)
  /\ UNCHANGED <<onMain, main, list_func, me, connected, eventChan, received,
                 current>>

\* (c_char * len(self.event.list_func)).from_buffer(d): d must not be shorter
\* than the dict is by now, or ValueError ends the thread.
Neonize(c) ==
  /\ \/ list_func \subseteq subscribed[c] /\ Moves(c, "copied", "select")
     \/ ~(list_func \subseteq subscribed[c]) /\ Moves(c, "copied", "raised")
  /\ Bytecode(c)
  /\ UNCHANGED <<onMain, main, list_func, subscribed, me, connected, eventChan,
                 received, current>>

\* client.Connect() fails: panic(err) ends the process.
Panic(c) ==
  /\ session[c] = "copied" /\ list_func \subseteq subscribed[c]
  /\ Ends
  /\ UNCHANGED <<onMain, list_func, subscribed, me, connected, eventChan,
                 received, current, pending, event>>

\* The event handler in Go queues the kinds in subscribers.
Receive(c, k) ==
  /\ session[c] \in InGo
  /\ received[c] < MaxReceived
  /\ k \in subscribed[c]
  /\ received' = [received EXCEPT ![c] = @ + 1]
  /\ eventChan' = [eventChan EXCEPT ![c] = Append(@, k)]
  /\ UNCHANGED <<onMain, main, list_func, subscribed, session, me, connected,
                 current, pending, event>>

\* CallbackFunction: first the device.
Introduce(c) ==
  /\ ~me[c]
  /\ Moves(c, "select", "callback")
  /\ current' = [current EXCEPT ![c] = Me]
  /\ UNCHANGED <<onMain, main, list_func, subscribed, me, connected, eventChan,
                 received, pending, event>>

\* CallbackFunction: then the events, one after the other.
Deliver(c) ==
  /\ me[c] /\ eventChan[c] # <<>>
  /\ Moves(c, "select", "callback")
  /\ current' = [current EXCEPT ![c] = Head(eventChan[c])]
  /\ eventChan' = [eventChan EXCEPT ![c] = Tail(@)]
  /\ UNCHANGED <<onMain, main, list_func, subscribed, me, connected, received,
                 pending, event>>

\* Fault: the device is passed on as well.
MutExecute(c) ==
  /\ Moves(c, "callback", "handler")
  /\ me' = [me EXCEPT ![c] = @ \/ current[c] = Me]
  /\ connected' = [connected EXCEPT ![c] = @ \/ current[c] = "Connected"]
  /\ Bytecode(c)
  /\ UNCHANGED <<onMain, main, list_func, subscribed, eventChan, received, current>>

\* Event.execute, up to the handler.
Execute(c) ==
  /\ \/ current[c] = Me /\ Moves(c, "callback", "select")
     \/ current[c] # Me /\ Moves(c, "callback", "handler")
  /\ me' = [me EXCEPT ![c] = @ \/ current[c] = Me]
  /\ connected' = [connected EXCEPT ![c] = @ \/ current[c] = "Connected"]
  /\ Bytecode(c)
  /\ UNCHANGED <<onMain, main, list_func, subscribed, eventChan, received, current>>

\* Fault: what a handler raises ends the thread.
MutHandled(c) ==
  /\ \/ Moves(c, "handler", "select") \/ Moves(c, "handler", "raised")
  /\ Bytecode(c)
  /\ UNCHANGED <<onMain, main, list_func, subscribed, me, connected, eventChan,
                 received, current>>

\* The handler returns, or raises: ctypes prints that, and Go goes on.
Handled(c) ==
  /\ Moves(c, "handler", "select")
  /\ Bytecode(c)
  /\ UNCHANGED <<onMain, main, list_func, subscribed, me, connected, eventChan,
                 received, current>>

MainProceeds == Run \/ Wait \/ Exit \/ \E c \in Client : ConnectMain(c)
ThreadProceeds(c) ==
  \/ Copy(c) \/ Neonize(c) \/ Panic(c)
  \/ Introduce(c) \/ Deliver(c) \/ Execute(c) \/ Handled(c)

SyncNext ==
  \/ \E k \in Kind : Subscribe(k)
  \/ MainProceeds \/ Interrupt \/ HandleSignal
  \/ \E c \in Client : ThreadProceeds(c) \/ \E k \in Kind : Receive(c, k)

-----------------------------------------------------------------------------
\* When Go calls back with an event, the client knows its device and a handler
\* for the event exists, although the other threads share the dict of handlers
\* and the main thread may still add to it (Event.execute: list_func[code]).
CallbackReady ==
  \A c \in Client :
    session[c] = "callback" /\ current[c] # Me =>
      me[c] /\ current[c] \in list_func /\ current[c] \in subscribed[c]

\* A signal is noticed, and ends a program that waits after run().  One that
\* came while the main thread is in connect() is only noticed with the next
\* event, and does not end it ("Press Ctrl+C to exit", main.go:873).
InterruptNoticed ==
  /\ onMain = {} /\ pending ~> main = "ended"
  /\ pending /\ (\E c \in onMain : eventChan[c] # <<>>) ~> event

\* A session in Go hands over what it holds until the program ends, whatever a
\* handler raises (Event.execute in a callback of ctypes), and whichever other
\* threads have ended with an exception or are still to connect.
SessionsGoOn ==
  \A c \in Client :
    /\ session[c] = "select" ~> (me[c] \/ main = "ended")
    /\ eventChan[c] # <<>> ~> (eventChan[c] = <<>> \/ main = "ended")
==============================================================================
