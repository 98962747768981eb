------------------------------- MODULE Calls ---------------------------------
(***************************************************************************)
(* Exported calls: a method of a client goes through the steps of one of   *)
(* its paths; each call runs in Go, answers in C memory, is copied, freed  *)
(* and looked at by Python.  Meanwhile other callers do the same, another  *)
(* thread registers and stops the client, and the task of an asyncio       *)
(* caller may be cancelled, which does not stop the thread that is in Go.  *)
(***************************************************************************)
EXTENDS Naturals, Sequences, CallSteps

CONSTANTS
  Caller,        \* threads and tasks that call methods
  Method,        \* the methods, of both clients
  Program,       \* the paths of each method
  Cancellable,   \* the methods that are awaited
  Export,        \* the exported functions
  GoAnswer,      \* what each of them answers
  restype,       \* what ctypes takes the answer for
  Address,       \* addresses malloc hands out
  Applications,  \* which method each caller calls
  MaxTries,      \* bound: how often it calls a method that raises
  None

\* A step calls an exported function, and where it expects a BytesReturn that
\* is declared, Go does not answer with something else.
CallStep ==
  {s \in Step : s.reads \in {"bytes", "text", "value"} =>
     /\ s.export \in Export
     /\ s.reads = "bytes" /\ restype[s.export] = "bytes" =>
          GoAnswer[s.export].returns \in {"bytes", "pointer"}}

ASSUME CallsAssumption ==
  /\ Program \in [Method -> SUBSET Seq(CallStep)]
  /\ GoAnswer \in [Export -> [returns : {"bytes", "text", "value", "pointer"},
                             fails : BOOLEAN, empty : BOOLEAN,
                             changes : BOOLEAN, client : BOOLEAN]]
  /\ restype \in [Export -> {"bytes", "text", "value", "int"}]
  /\ Applications \subseteq [Caller -> Method]
  /\ MaxTries \in [Caller -> Nat]
  /\ None \notin Caller \union Address \union Export

VARIABLES
  registered,  \* the uuid is a key of the map clients
  crashed,     \* a panic in Go has ended the process
  method,      \* the method each caller calls
  path,        \* the steps it has left
  at,          \* where it is
  inGo,        \* the export that a thread of it is in
  error,       \* the last answer reports an error
  buffer,      \* the answer's BytesReturn, as long as Python knows it
  memory,      \* who an allocated BytesReturn was made for
  copy,        \* who the bytes that get_bytes has copied were made for
  tries,       \* calls of the method so far
  effects,     \* history: how many of its exports have changed something
  refused,     \* history: Go has reported an error to this attempt
  failures     \* history: the attempts before it that Go reported one to

vars == <<registered, crashed, method, path, at, inGo, error, buffer, memory,
          copy, tries, effects, refused, failures>>

Place == {"new", "ready", "awaiting", "answered", "copied", "freed",
          "returned", "raised", "cancelled"}

\* The types of the variables (the maps and the C heap of main.go, the frames
\* of the Python methods).
TypeOK ==
  /\ registered \in BOOLEAN
  /\ crashed \in BOOLEAN
  /\ method \in [Caller -> Method]
  /\ path \in [Caller -> Seq(CallStep)]
  /\ at \in [Caller -> Place]
  /\ inGo \in [Caller -> Export \union {None}]
  /\ error \in [Caller -> BOOLEAN]
  /\ buffer \in [Caller -> Address \union {None}]
  /\ memory \in [Address -> Caller \union {None}]
  /\ copy \in [Caller -> Caller \union {None}]
  /\ tries \in [Caller -> Nat]
  /\ effects \in [Caller -> Nat]
  /\ refused \in [Caller -> BOOLEAN]
  /\ failures \in [Caller -> Nat]

Init ==
  /\ registered \in BOOLEAN
  /\ crashed = FALSE
  /\ method \in Applications
  /\ path = [k \in Caller |-> <<>>]
  /\ at = [k \in Caller |-> "new"]
  /\ inGo = [k \in Caller |-> None]
  /\ error = [k \in Caller |-> FALSE]
  /\ buffer = [k \in Caller |-> None]
  /\ memory = [a \in Address |-> None]
  /\ copy = [k \in Caller |-> None]
  /\ tries = [k \in Caller |-> 0]
  /\ effects = [k \in Caller |-> 0]
  /\ refused = [k \in Caller |-> FALSE]
  /\ failures = [k \in Caller |-> 0]

Here(k) == Head(path[k])

-----------------------------------------------------------------------------
(* Python: a method begins, goes on, raises.                                 *)

\* The call of the method, or the next attempt of a caller it raised to.
Begin(k) ==
  /\ \/ at[k] = "new"
     \/ at[k] = "raised" /\ tries[k] < MaxTries[k]
  /\ \E p \in Program[method[k]] :
       /\ path' = [path EXCEPT ![k] = p]
       /\ at' = [at EXCEPT ![k] = IF p = <<>> THEN "returned" ELSE "ready"]
  /\ tries' = [tries EXCEPT ![k] = @ + 1]
  /\ refused' = [refused EXCEPT ![k] = FALSE]
  /\ failures' = [failures EXCEPT ![k] = IF refused[k] THEN @ + 1 ELSE @]
  /\ UNCHANGED <<registered, crashed, method, inGo, error, buffer, memory, copy,
                 effects>>

GoOn(k) ==
  /\ path' = [path EXCEPT ![k] = Tail(@)]
  /\ at' = [at EXCEPT ![k] = IF Len(path[k]) = 1 THEN "returned" ELSE "ready"]

Raise(k) ==
  IF Here(k).caught
  THEN GoOn(k)
  ELSE at' = [at EXCEPT ![k] = "raised"] /\ UNCHANGED path

\* Work of Python's own, or arguments that ctypes rejects.
RunOwn(k) ==
  /\ at[k] = "ready"
  /\ \/ Here(k).reads = "own" /\ GoOn(k)
     \/ Here(k).reads \in {"own", "refused"} /\ Raise(k)
  /\ UNCHANGED <<registered, crashed, method, inGo, error, buffer, memory, copy,
                 tries, effects, refused, failures>>

-----------------------------------------------------------------------------
(* Go.                                                                       *)

\* Fault: Python's own steps are taken for calls too.
MutEnter(k) ==
  /\ at[k] = "ready"
  /\ at' = [at EXCEPT ![k] = "awaiting"]
  /\ inGo' = [inGo EXCEPT ![k] = Here(k).export]
  /\ UNCHANGED <<registered, crashed, method, path, error, buffer, memory, copy,
                 tries, effects, refused, failures>>

Enter(k) ==
  /\ at[k] = "ready"
  /\ Here(k).reads \in {"bytes", "text", "value"}
  /\ at' = [at EXCEPT ![k] = "awaiting"]
  /\ inGo' = [inGo EXCEPT ![k] = Here(k).export]
  /\ UNCHANGED <<registered, crashed, method, path, error, buffer, memory, copy,
                 tries, effects, refused, failures>>

\* clients[id] is nil, &data_buf[0] of no bytes, a Go pointer handed to C.
Panics(x) ==
  \/ GoAnswer[x].client /\ ~registered
  \/ GoAnswer[x].empty
  \/ GoAnswer[x].returns = "pointer"

GoPanics(k) ==
  /\ inGo[k] # None
  /\ Panics(inGo[k])
  /\ crashed' = TRUE
  /\ UNCHANGED <<registered, method, path, at, inGo, error, buffer, memory, copy,
                 tries, effects, refused, failures>>

\* ProtoReturnV3 puts an answer in memory, whether somebody waits for it or not.
Allocate(k) ==
  \E a \in Address :
    /\ memory[a] = None
    /\ memory' = [memory EXCEPT ![a] = k]
    /\ buffer' = [buffer EXCEPT ![k] = IF at[k] = "awaiting" THEN a ELSE @]

\* Whether it has done what was asked for: an error may come before that was
\* sent, or a timeout or a disconnection after the server has acted on it.
TakesEffect(x, fails) ==
  {done \in BOOLEAN : /\ done => x.changes
                      /\ x.changes /\ ~fails => done}

GoAnswers(k) ==
  /\ inGo[k] # None
  /\ LET x == GoAnswer[inGo[k]] IN
     /\ x.client => registered
     /\ x.returns # "pointer"
     /\ IF x.returns = "bytes" THEN Allocate(k) ELSE UNCHANGED <<memory, buffer>>
     /\ \E fails \in BOOLEAN : \E done \in TakesEffect(x, fails) :
          /\ fails => x.fails
          /\ error' = [error EXCEPT ![k] = fails]
          /\ refused' =
               [refused EXCEPT ![k] = @ \/ (fails /\ ~Here(k).caught)]
          /\ effects' =
               [effects EXCEPT ![k] = IF done THEN @ + 1 ELSE @]
  /\ at' = [at EXCEPT ![k] = IF @ = "awaiting" THEN "answered" ELSE @]
  /\ inGo' = [inGo EXCEPT ![k] = None]
  /\ UNCHANGED <<registered, crashed, method, path, copy, tries, failures>>

-----------------------------------------------------------------------------
(* Python: the answer.                                                       *)

Readable(s) == s.reads = "value" \/ restype[s.export] = s.reads

\* .contents or .decode of something else raises, and the answer is lost.
MissAttribute(k) ==
  /\ at[k] = "answered"
  /\ ~Readable(Here(k))
  /\ Raise(k)
  /\ buffer' = [buffer EXCEPT ![k] = None]
  /\ UNCHANGED <<registered, crashed, method, inGo, error, memory, copy, tries,
                 effects, refused, failures>>

\* Fault: the error in the answer is not looked at.
MutConclude(k) == GoOn(k)

\* Fault: an error that is not None is taken for one, and none is the text "".
MutNoneConclude(k) ==
  \/ Here(k).onError \in {"raise", "garbled"} /\ Raise(k)
  \/ (error[k] => Here(k).onError # "raise") /\ GoOn(k)

\* What an error in the answer makes of the method.
Conclude(k) ==
  \/ error[k] /\ Here(k).onError \in {"raise", "garbled"} /\ Raise(k)
  \/ (error[k] => Here(k).onError # "raise") /\ GoOn(k)

ReadText(k) ==
  /\ at[k] = "answered"
  /\ Here(k).reads \in {"text", "value"}
  /\ Readable(Here(k))
  /\ Conclude(k)
  /\ buffer' = [buffer EXCEPT ![k] = None]
  /\ UNCHANGED <<registered, crashed, method, inGo, error, memory, copy, tries,
                 effects, refused, failures>>

\* Fault: the answer is freed before it is copied.
MutGetBytes(k) ==
  /\ at[k] = "answered"
  /\ Here(k).reads = "bytes"
  /\ Readable(Here(k))
  /\ memory' = [memory EXCEPT ![buffer[k]] = None]
  /\ copy' = [copy EXCEPT ![k] = memory'[buffer[k]]]
  /\ at' = [at EXCEPT ![k] = "copied"]
  /\ UNCHANGED <<registered, crashed, method, path, inGo, error, buffer, tries,
                 effects, refused, failures>>

\* bytes_ptr.contents.get_bytes()
GetBytes(k) ==
  /\ at[k] = "answered"
  /\ Here(k).reads = "bytes"
  /\ Readable(Here(k))
  /\ copy' = [copy EXCEPT ![k] = memory[buffer[k]]]
  /\ at' = [at EXCEPT ![k] = "copied"]
  /\ UNCHANGED <<registered, crashed, method, path, inGo, error, buffer, memory,
                 tries, effects, refused, failures>>

\* Fault: a method that is about to raise does not free the answer.
MutFreeBytes(k) ==
  /\ at[k] = "copied"
  /\ memory' = IF error[k] THEN memory ELSE [memory EXCEPT ![buffer[k]] = None]
  /\ buffer' = [buffer EXCEPT ![k] = None]
  /\ at' = [at EXCEPT ![k] = "freed"]
  /\ UNCHANGED <<registered, crashed, method, path, inGo, error, copy, tries,
                 effects, refused, failures>>

\* free_bytes(bytes_ptr)
FreeBytes(k) ==
  /\ at[k] = "copied"
  /\ memory' = [memory EXCEPT ![buffer[k]] = None]
  /\ buffer' = [buffer EXCEPT ![k] = None]
  /\ at' = [at EXCEPT ![k] = "freed"]
  /\ UNCHANGED <<registered, crashed, method, path, inGo, error, copy, tries,
                 effects, refused, failures>>

\* FromString, if model.Error
Parse(k) ==
  /\ at[k] = "freed"
  /\ Conclude(k)
  /\ copy' = [copy EXCEPT ![k] = None]
  /\ UNCHANGED <<registered, crashed, method, inGo, error, buffer, memory, tries,
                 effects, refused, failures>>

-----------------------------------------------------------------------------
(* Around the callers.                                                       *)

\* CancelledError at an await.  A call still in the queue of the executor is
\* withdrawn, one that a thread is in goes on, and one that has returned, while
\* its task is not yet resumed, has its answer dropped.
Cancel(k) ==
  /\ method[k] \in Cancellable
  /\ at[k] \in {"ready", "awaiting", "answered"}
  /\ at' = [at EXCEPT ![k] = "cancelled"]
  /\ buffer' = [buffer EXCEPT ![k] = None]
  /\ UNCHANGED <<registered, crashed, method, path, inGo, error, memory, copy,
                 tries, effects, refused, failures>>

Register ==
  /\ ~registered
  /\ registered' = TRUE
  /\ UNCHANGED <<crashed, method, path, at, inGo, error, buffer, memory, copy,
                 tries, effects, refused, failures>>

Stop ==
  /\ registered
  /\ registered' = FALSE
  /\ UNCHANGED <<crashed, method, path, at, inGo, error, buffer, memory, copy,
                 tries, effects, refused, failures>>

Work(k) ==
  \/ Begin(k) \/ RunOwn(k) \/ Enter(k) \/ GoPanics(k) \/ GoAnswers(k)
  \/ MissAttribute(k) \/ ReadText(k) \/ GetBytes(k) \/ FreeBytes(k) \/ Parse(k)
  \/ Cancel(k)

Next ==
  /\ ~crashed
  /\ Register \/ Stop \/ \E k \in Caller : Work(k)

Spec == Init /\ [][Next]_vars

\* What a caller parses is the answer to its own call: its buffer is neither
\* freed nor handed out again before get_bytes has copied it
\* (get_bytes before free_bytes in every method of client.py).
OwnAnswer ==
  \A k \in Caller : at[k] \in {"copied", "freed"} => copy[k] = k

\* The methods that read every BytesReturn as what it is.
CleanStep ==
  {s \in CallStep :
     s.reads \in {"bytes", "text", "value"} /\ GoAnswer[s.export].returns = "bytes"
       => s.reads = "bytes" /\ restype[s.export] = "bytes"}
Clean == {m \in Method : Program[m] \subseteq Seq(CleanStep)}

\* An answer in C memory is on its way to a caller that will free it; the ones
\* left over belong to callers that were cancelled (nobody frees what the
\* abandoned thread of GoCode.__getattr__ brings, aioze/client.py:205-211) or
\* whose method cannot read the answer.
BuffersFreed ==
  \A d \in Address : memory[d] # None =>
    LET k == memory[d] IN
      buffer[k] = d \/ at[k] = "cancelled" \/ method[k] \notin Clean
==============================================================================
