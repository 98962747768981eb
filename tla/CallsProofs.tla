----------------------------- MODULE CallsProofs -----------------------------
(***************************************************************************)
(* Proofs about Calls, for any methods, exports, callers and addresses.    *)
(***************************************************************************)
EXTENDS ClientCalls, SequenceTheorems, TLAPS

USE CallsAssumption

Underway == {"ready", "awaiting", "answered", "copied", "freed"}

\* A caller that is in a method, or that has left a thread in Go, has a step.
HasStep(k) ==
  /\ at[k] \in Underway => path[k] # <<>>
  /\ inGo[k] # None =>
       /\ at[k] \in {"awaiting", "cancelled"}
       /\ path[k] # <<>>
       /\ inGo[k] = Here(k).export
       /\ Here(k).reads \in {"bytes", "text", "value"}

\* The caller may read a BytesReturn.
Reads(k) ==
  \/ at[k] = "copied"
  \/ at[k] = "answered" /\ Here(k).reads = "bytes" /\ Readable(Here(k))

\* It then has one, and that was made for it.
OwnBuffer(k) == Reads(k) => buffer[k] \in Address /\ memory[buffer[k]] = k

OwnCopy(k) == at[k] \in {"copied", "freed"} => copy[k] = k

Sound(k) == HasStep(k) /\ OwnBuffer(k) /\ OwnCopy(k)

Inv == TypeOK /\ \A k \in Caller : Sound(k)

-----------------------------------------------------------------------------
(* Steps and paths.                                                          *)

LEMMA ShorterPath ==
  ASSUME NEW S, NEW p \in Seq(S), p # <<>>
  PROVE  Head(p) \in S /\ Tail(p) \in Seq(S) /\ (Len(p) # 1 => Tail(p) # <<>>)
<1>1. /\ Head(p) \in S /\ Tail(p) \in Seq(S) /\ Len(p) \in Nat
      /\ Len(Tail(p)) = Len(p) - 1
  BY HeadTailProperties, LenProperties
<1>2. Len(p) # 1 => Len(Tail(p)) # 0
  BY <1>1
<1>3. Len(<<>>) = 0
  BY EmptySeq
<1> QED
  BY <1>1, <1>2, <1>3

\* The step of a caller that is in a method.
LEMMA HereIsStep ==
  ASSUME TypeOK, NEW k \in Caller, path[k] # <<>>
  PROVE  Here(k) \in CallStep
  BY ShorterPath DEF TypeOK, Here

LEMMA ExportOfStep ==
  ASSUME NEW s \in CallStep, s.reads \in {"bytes", "text", "value"}
  PROVE  /\ s.export \in Export
         /\ s.reads = "bytes" /\ restype[s.export] = "bytes" =>
              GoAnswer[s.export].returns \in {"bytes", "pointer"}
  BY DEF CallStep

\* How a step of a path ends.
LEMMA StepEnds ==
  ASSUME TypeOK, NEW k \in Caller, path[k] # <<>>, GoOn(k) \/ Raise(k)
  PROVE  /\ path' \in [Caller -> Seq(CallStep)]
         /\ \A j \in Caller \ {k} : path'[j] = path[j]
         /\ \E v \in {"ready", "returned", "raised"} :
              /\ at' = [at EXCEPT ![k] = v]
              /\ v = "ready" => path'[k] # <<>>
<1>1. Tail(path[k]) \in Seq(CallStep) /\ (Len(path[k]) # 1 => Tail(path[k]) # <<>>)
  BY ShorterPath DEF TypeOK
<1>2. CASE GoOn(k)
  BY <1>1, <1>2 DEF GoOn, TypeOK
<1>3. CASE at' = [at EXCEPT ![k] = "raised"] /\ UNCHANGED path
  BY <1>3 DEF TypeOK
<1> QED
  BY <1>2, <1>3 DEF Raise

\* A step of one caller leaves the others as they were.
LEMMA OthersKept ==
  ASSUME Inv, NEW k \in Caller, NEW j \in Caller \ {k},
         at'[j] = at[j], path'[j] = path[j], inGo'[j] = inGo[j],
         buffer'[j] = buffer[j], copy'[j] = copy[j],
         \A d \in Address : memory[d] = j => memory'[d] = j
  PROVE  Sound(j)'
  BY DEF Inv, Sound, HasStep, OwnBuffer, OwnCopy, Reads, Readable, Here

-----------------------------------------------------------------------------
(* The actions.                                                              *)

LEMMA BeginSound ==
  ASSUME Inv, NEW k \in Caller, Begin(k)
  PROVE  Inv'
<1>1. PICK p \in Program[method[k]] :
        /\ path' = [path EXCEPT ![k] = p]
        /\ at' = [at EXCEPT ![k] = IF p = <<>> THEN "returned" ELSE "ready"]
  BY DEF Begin
<1>2. p \in Seq(CallStep)
  BY DEF Inv, TypeOK
<1>3. inGo[k] = None /\ UNCHANGED <<inGo, buffer, memory, copy>>
  BY DEF Begin, Inv, Sound, HasStep
<1>4. TypeOK'
  BY <1>1, <1>2 DEF Inv, TypeOK, Begin, Place
<1>5. Sound(k)'
  BY <1>1, <1>3 DEF Inv, TypeOK, Sound, HasStep, OwnBuffer, OwnCopy, Reads, Underway
<1>6. ASSUME NEW j \in Caller \ {k} PROVE Sound(j)'
  BY <1>1, <1>3, OthersKept DEF Inv, TypeOK
<1> QED
  BY <1>4, <1>5, <1>6 DEF Inv

\* The end of a step: RunOwn, MissAttribute, ReadText and Parse.
LEMMA EndsSound ==
  ASSUME Inv, NEW k \in Caller, at[k] \in {"ready", "answered", "freed"},
         GoOn(k) \/ Raise(k),
         UNCHANGED <<registered, crashed, method, inGo, error, memory, tries,
                     effects, refused, failures>>,
         buffer' \in {buffer, [buffer EXCEPT ![k] = None]},
         copy' \in {copy, [copy EXCEPT ![k] = None]}
  PROVE  Inv'
<1>1. path[k] # <<>> /\ inGo[k] = None
  BY DEF Inv, Sound, HasStep, Underway
<1>2. PICK v \in {"ready", "returned", "raised"} :
        /\ at' = [at EXCEPT ![k] = v]
        /\ v = "ready" => path'[k] # <<>>
  BY <1>1, StepEnds DEF Inv
<1>3. /\ path' \in [Caller -> Seq(CallStep)]
      /\ \A j \in Caller \ {k} : path'[j] = path[j]
  BY <1>1, StepEnds DEF Inv
<1>4. TypeOK'
  BY <1>2, <1>3 DEF Inv, TypeOK, Place
<1>5. Sound(k)'
  BY <1>1, <1>2 DEF Inv, TypeOK, Sound, HasStep, OwnBuffer, OwnCopy, Reads, Underway
<1>6. ASSUME NEW j \in Caller \ {k} PROVE Sound(j)'
  BY <1>2, <1>3, OthersKept DEF Inv, TypeOK
<1> QED
  BY <1>4, <1>5, <1>6 DEF Inv

LEMMA EnterSound ==
  ASSUME Inv, NEW k \in Caller, Enter(k)
  PROVE  Inv'
<1>1. path[k] # <<>>
  BY DEF Enter, Inv, Sound, HasStep, Underway
<1>2. Here(k).export \in Export
  BY <1>1, HereIsStep, ExportOfStep DEF Inv, Enter
<1>3. TypeOK'
  BY <1>2 DEF Inv, TypeOK, Enter, Place
<1>4. Sound(k)'
  BY <1>1 DEF Inv, TypeOK, Enter, Sound, HasStep, OwnBuffer, OwnCopy, Reads, Here
<1>5. ASSUME NEW j \in Caller \ {k} PROVE Sound(j)'
  BY OthersKept DEF Inv, TypeOK, Enter
<1> QED
  BY <1>3, <1>4, <1>5 DEF Inv

\* The panic changes nothing that is left to run.
LEMMA GoPanicsSound ==
  ASSUME Inv, NEW k \in Caller, GoPanics(k)
  PROVE  Inv'
<1>1. TypeOK'
  BY DEF Inv, TypeOK, GoPanics
<1>2. \A j \in Caller : Sound(j)'
  BY DEF Inv, GoPanics, Sound, HasStep, OwnBuffer, OwnCopy, Reads, Readable, Here
<1> QED
  BY <1>1, <1>2 DEF Inv

LEMMA GoAnswersSound ==
  ASSUME Inv, NEW k \in Caller, GoAnswers(k)
  PROVE  Inv'
<1> DEFINE x == GoAnswer[inGo[k]]
<1>1. /\ path[k] # <<>> /\ at[k] \in {"awaiting", "cancelled"}
      /\ inGo[k] = Here(k).export
      /\ Here(k).reads \in {"bytes", "text", "value"}
  BY DEF GoAnswers, Inv, Sound, HasStep
<1>2. Here(k) \in CallStep
  BY <1>1, HereIsStep DEF Inv
<1>3. inGo[k] \in Export
  BY <1>1, <1>2, ExportOfStep
<1>4. /\ at' = [at EXCEPT ![k] = IF @ = "awaiting" THEN "answered" ELSE @]
      /\ inGo' = [inGo EXCEPT ![k] = None]
      /\ UNCHANGED <<registered, crashed, method, path, copy, tries, failures>>
      /\ x.returns # "pointer"
  BY DEF GoAnswers
<1>5. \/ x.returns # "bytes" /\ UNCHANGED <<memory, buffer>>
      \/ x.returns = "bytes" /\ Allocate(k)
  BY DEF GoAnswers
<1>6. PICK fails \in BOOLEAN, done \in BOOLEAN :
        /\ error' = [error EXCEPT ![k] = fails]
        /\ refused' = [refused EXCEPT ![k] = @ \/ (fails /\ ~Here(k).caught)]
        /\ effects' = [effects EXCEPT ![k] = IF done THEN @ + 1 ELSE @]
  BY DEF GoAnswers, TakesEffect
<1>7. /\ memory' \in [Address -> Caller \union {None}]
      /\ buffer' \in [Caller -> Address \union {None}]
      /\ \A d \in Address : memory[d] # None => memory'[d] = memory[d]
      /\ \A j \in Caller \ {k} : buffer'[j] = buffer[j]
  <2>1. CASE UNCHANGED <<memory, buffer>>
    BY <2>1 DEF Inv, TypeOK
  <2>2. CASE Allocate(k)
    <3>1. PICK a \in Address :
            /\ memory[a] = None
            /\ memory' = [memory EXCEPT ![a] = k]
            /\ buffer' = [buffer EXCEPT ![k] = IF at[k] = "awaiting" THEN a ELSE @]
      BY <2>2 DEF Allocate
    <3> QED
      BY <3>1 DEF Inv, TypeOK
  <2> QED
    BY <1>5, <2>1, <2>2
<1>8. TypeOK'
  <2>1. error' \in [Caller -> BOOLEAN]
    BY <1>6 DEF Inv, TypeOK
  <2>2. refused' \in [Caller -> BOOLEAN]
    BY <1>6 DEF Inv, TypeOK
  <2>3. effects' \in [Caller -> Nat]
    BY <1>6 DEF Inv, TypeOK
  <2>4. at' \in [Caller -> Place] /\ inGo' \in [Caller -> Export \union {None}]
    BY <1>4 DEF Inv, TypeOK, Place
  <2> QED
    BY <1>4, <1>7, <2>1, <2>2, <2>3, <2>4 DEF Inv, TypeOK
<1>9. at[k] = "awaiting" /\ x.returns = "bytes" =>
        buffer'[k] \in Address /\ memory'[buffer'[k]] = k
  BY <1>5 DEF Allocate, Inv, TypeOK
<1>10. at[k] = "awaiting" /\ Here(k).reads = "bytes" /\ Readable(Here(k)) =>
         x.returns = "bytes"
  BY <1>1, <1>2, <1>3, <1>4, ExportOfStep DEF Readable
<1>11. Sound(k)'
  BY <1>1, <1>4, <1>9, <1>10
     DEF Inv, TypeOK, Sound, HasStep, OwnBuffer, OwnCopy, Reads, Readable, Here
<1>12. ASSUME NEW j \in Caller \ {k} PROVE Sound(j)'
  <2>1. /\ at'[j] = at[j] /\ path'[j] = path[j] /\ inGo'[j] = inGo[j]
        /\ copy'[j] = copy[j]
    BY <1>4, <1>12 DEF Inv, TypeOK
  <2>2. \A d \in Address : memory[d] = j => memory'[d] = j
    BY <1>7, <1>12, CallsAssumption DEF CallsAssumption
  <2>3. buffer'[j] = buffer[j]
    BY <1>7
  <2> QED
    BY <2>1, <2>2, <2>3, OthersKept
<1> QED
  BY <1>8, <1>11, <1>12 DEF Inv

LEMMA GetBytesSound ==
  ASSUME Inv, NEW k \in Caller, GetBytes(k)
  PROVE  Inv'
<1>1. buffer[k] \in Address /\ memory[buffer[k]] = k /\ path[k] # <<>>
      /\ inGo[k] = None
  BY DEF GetBytes, Inv, Sound, OwnBuffer, Reads, HasStep, Underway
<1>2. TypeOK'
  BY <1>1 DEF Inv, TypeOK, GetBytes, Place
<1>3. Sound(k)'
  BY <1>1 DEF Inv, TypeOK, GetBytes, Sound, HasStep, OwnBuffer, OwnCopy, Reads
<1>4. ASSUME NEW j \in Caller \ {k} PROVE Sound(j)'
  BY OthersKept DEF Inv, TypeOK, GetBytes
<1> QED
  BY <1>2, <1>3, <1>4 DEF Inv

\* The buffer that is freed is nobody else's.
LEMMA FreeBytesSound ==
  ASSUME Inv, NEW k \in Caller, FreeBytes(k)
  PROVE  Inv'
<1>1. buffer[k] \in Address /\ memory[buffer[k]] = k /\ path[k] # <<>>
      /\ inGo[k] = None /\ copy[k] = k
  BY DEF FreeBytes, Inv, Sound, OwnBuffer, OwnCopy, Reads, HasStep, Underway
<1>2. TypeOK'
  BY <1>1 DEF Inv, TypeOK, FreeBytes, Place
<1>3. Sound(k)'
  BY <1>1 DEF Inv, TypeOK, FreeBytes, Sound, HasStep, OwnBuffer, OwnCopy, Reads
<1>4. ASSUME NEW j \in Caller \ {k} PROVE Sound(j)'
  BY <1>1, OthersKept DEF Inv, TypeOK, FreeBytes
<1> QED
  BY <1>2, <1>3, <1>4 DEF Inv

LEMMA CancelSound ==
  ASSUME Inv, NEW k \in Caller, Cancel(k)
  PROVE  Inv'
<1>1. TypeOK'
  BY DEF Inv, TypeOK, Cancel, Place
<1>2. Sound(k)'
  BY DEF Inv, TypeOK, Cancel, Sound, HasStep, OwnBuffer, OwnCopy, Reads, Underway, Here
<1>3. ASSUME NEW j \in Caller \ {k} PROVE Sound(j)'
  BY OthersKept DEF Inv, TypeOK, Cancel
<1> QED
  BY <1>1, <1>2, <1>3 DEF Inv

LEMMA RegistrySound ==
  ASSUME Inv, Register \/ Stop \/ UNCHANGED vars
  PROVE  Inv'
<1>1. TypeOK' /\ UNCHANGED <<path, at, inGo, buffer, memory, copy>>
  BY DEF Inv, TypeOK, Register, Stop, vars
<1> QED
  BY <1>1
     DEF Inv, Sound, HasStep, OwnBuffer, OwnCopy, Reads, Readable, Here

LEMMA ConcludeEnds ==
  ASSUME NEW k \in Caller, Conclude(k)
  PROVE  GoOn(k) \/ Raise(k)
  BY DEF Conclude

LEMMA WorkSound ==
  ASSUME Inv, NEW k \in Caller, Work(k)
  PROVE  Inv'
<1>1. CASE RunOwn(k)
  BY <1>1, EndsSound DEF RunOwn
<1>2. CASE MissAttribute(k)
  BY <1>2, EndsSound DEF MissAttribute
<1>3. CASE ReadText(k)
  BY <1>3, EndsSound, ConcludeEnds DEF ReadText
<1>4. CASE Parse(k)
  BY <1>4, EndsSound, ConcludeEnds DEF Parse
<1> QED
  BY <1>1, <1>2, <1>3, <1>4, BeginSound, EnterSound, GoPanicsSound,
     GoAnswersSound, GetBytesSound, FreeBytesSound, CancelSound DEF Work

LEMMA InitSound == Init => Inv
<1> SUFFICES ASSUME Init PROVE Inv
  OBVIOUS
<1>1. TypeOK
  BY EmptySeq DEF Init, TypeOK, Place
<1>2. \A k \in Caller : Sound(k)
  BY DEF Init, Sound, HasStep, OwnBuffer, OwnCopy, Reads, Underway
<1> QED
  BY <1>1, <1>2 DEF Inv

LEMMA StepSound == Inv /\ [Next]_vars => Inv'
  BY WorkSound, RegistrySound DEF Next

LEMMA Invariant == Spec => []Inv
  BY InitSound, StepSound, PTL DEF Spec

\* Every variable keeps its type, for any methods: in particular get_bytes and
\* free_bytes are given an address that malloc has handed out, never a stale
\* one (client.py:253-255).
THEOREM TypeCorrect == Spec => []TypeOK
<1>1. Inv => TypeOK
  BY DEF Inv
<1> QED
  BY <1>1, Invariant, PTL

\* Whatever the methods do and however their calls interleave, the bytes that a
\* method parses are the answer to its own call: no other caller frees its
\* buffer or is given it before get_bytes has copied it.
THEOREM AnswersAreOwn == Spec => []OwnAnswer
<1>1. Inv => OwnAnswer
  BY DEF Inv, Sound, OwnCopy, OwnAnswer
<1> QED
  BY <1>1, Invariant, PTL

-----------------------------------------------------------------------------
(* The memory: whose an answer is, as long as it is in C memory.             *)

\* A caller knows a buffer only from an answer of bytes to its present step,
\* and the steps of a clean method stay clean.
KnownBuffer(k) ==
  /\ buffer[k] # None =>
       /\ at[k] \in {"answered", "copied"}
       /\ Here(k).reads \in {"bytes", "text", "value"}
       /\ GoAnswer[Here(k).export].returns = "bytes"
  /\ method[k] \in Clean => path[k] \in Seq(CleanStep)

Held(k) ==
  \A d \in Address :
    memory[d] = k => buffer[k] = d \/ at[k] = "cancelled" \/ method[k] \notin Clean

Ledger == Inv /\ \A k \in Caller : KnownBuffer(k) /\ Held(k)

LEMMA OthersHeld ==
  ASSUME Ledger, NEW k \in Caller, NEW j \in Caller \ {k},
         at'[j] = at[j], path'[j] = path[j], buffer'[j] = buffer[j],
         method'[j] = method[j],
         \A d \in Address : memory'[d] = j => memory[d] = j
  PROVE  KnownBuffer(j)' /\ Held(j)'
  BY DEF Ledger, KnownBuffer, Held, Here

\* An answer of bytes is readable in a clean method.
LEMMA CleanReads ==
  ASSUME Ledger, NEW k \in Caller, buffer[k] # None, method[k] \in Clean
  PROVE  Here(k).reads = "bytes" /\ Readable(Here(k))
<1>1. path[k] \in Seq(CleanStep) /\ path[k] # <<>>
  BY DEF Ledger, KnownBuffer, Inv, Sound, HasStep, Underway
<1>2. Here(k) \in CleanStep
  BY <1>1, ShorterPath DEF Here
<1> QED
  BY <1>2 DEF CleanStep, Ledger, KnownBuffer, Readable

LEMMA BeginHeld ==
  ASSUME Ledger, NEW k \in Caller, Begin(k)
  PROVE  \A j \in Caller : KnownBuffer(j)' /\ Held(j)'
<1>1. /\ at[k] \in {"new", "raised"}
      /\ UNCHANGED <<method, buffer, memory>>
  BY DEF Begin
<1>2. PICK p \in Program[method[k]] :
        /\ path' = [path EXCEPT ![k] = p]
        /\ at' = [at EXCEPT ![k] = IF p = <<>> THEN "returned" ELSE "ready"]
  BY DEF Begin
<1>3. buffer[k] = None /\ (method[k] \in Clean => p \in Seq(CleanStep))
  BY <1>1 DEF Ledger, KnownBuffer, Clean
<1>4. KnownBuffer(k)' /\ Held(k)'
  BY <1>1, <1>2, <1>3 DEF Ledger, Inv, TypeOK, KnownBuffer, Held
<1>5. ASSUME NEW j \in Caller \ {k} PROVE KnownBuffer(j)' /\ Held(j)'
  BY <1>1, <1>2, OthersHeld DEF Ledger, Inv, TypeOK
<1> QED
  BY <1>4, <1>5

\* The end of a step does not lose a buffer of a clean method.
LEMMA EndsHeld ==
  ASSUME Ledger, NEW k \in Caller, at[k] \in {"ready", "answered", "freed"},
         GoOn(k) \/ Raise(k), UNCHANGED <<method, memory>>,
         \/ at[k] # "answered" /\ UNCHANGED buffer
         \/ buffer' = [buffer EXCEPT ![k] = None],
         at[k] = "answered" => Here(k).reads # "bytes" \/ ~Readable(Here(k))
  PROVE  \A j \in Caller : KnownBuffer(j)' /\ Held(j)'
<1>1. path[k] # <<>>
  BY DEF Ledger, Inv, Sound, HasStep, Underway
<1>2. PICK v \in {"ready", "returned", "raised"} : at' = [at EXCEPT ![k] = v]
  BY <1>1, StepEnds DEF Ledger, Inv
<1>3. \A j \in Caller \ {k} : path'[j] = path[j]
  BY <1>1, StepEnds DEF Ledger, Inv
<1>4. buffer[k] # None => method[k] \notin Clean
  BY CleanReads DEF Ledger, KnownBuffer
<1>5. buffer' \in [Caller -> Address \union {None}] /\ buffer'[k] = None
      /\ \A j \in Caller \ {k} : buffer'[j] = buffer[j]
  BY DEF Ledger, Inv, TypeOK, KnownBuffer
<1>6. method[k] \in Clean => path'[k] \in Seq(CleanStep)
  <2> SUFFICES ASSUME method[k] \in Clean PROVE path'[k] \in Seq(CleanStep)
    OBVIOUS
  <2>1. path[k] \in Seq(CleanStep)
    BY DEF Ledger, KnownBuffer
  <2>2. Tail(path[k]) \in Seq(CleanStep)
    BY <2>1, <1>1, ShorterPath
  <2>3. path' \in {path, [path EXCEPT ![k] = Tail(@)]}
    BY DEF GoOn, Raise
  <2> QED
    BY <2>1, <2>2, <2>3 DEF Ledger, Inv, TypeOK
<1>7. KnownBuffer(k)' /\ Held(k)'
  BY <1>2, <1>4, <1>5, <1>6 DEF Ledger, Inv, TypeOK, KnownBuffer, Held
<1>8. ASSUME NEW j \in Caller \ {k} PROVE KnownBuffer(j)' /\ Held(j)'
  BY <1>2, <1>3, <1>5, OthersHeld DEF Ledger, Inv, TypeOK
<1> QED
  BY <1>7, <1>8

LEMMA EnterHeld ==
  ASSUME Ledger, NEW k \in Caller, Enter(k)
  PROVE  \A j \in Caller : KnownBuffer(j)' /\ Held(j)'
<1>1. /\ at[k] = "ready" /\ at' = [at EXCEPT ![k] = "awaiting"]
      /\ UNCHANGED <<method, path, buffer, memory>>
  BY DEF Enter
<1>2. buffer[k] = None
  BY <1>1 DEF Ledger, KnownBuffer
<1>3. KnownBuffer(k)' /\ Held(k)'
  BY <1>1, <1>2 DEF Ledger, Inv, TypeOK, KnownBuffer, Held
<1>4. ASSUME NEW j \in Caller \ {k} PROVE KnownBuffer(j)' /\ Held(j)'
  BY <1>1, OthersHeld DEF Ledger, Inv, TypeOK
<1> QED
  BY <1>3, <1>4

LEMMA GoAnswersHeld ==
  ASSUME Ledger, NEW k \in Caller, GoAnswers(k)
  PROVE  \A j \in Caller : KnownBuffer(j)' /\ Held(j)'
<1>1. /\ at[k] \in {"awaiting", "cancelled"}
      /\ inGo[k] = Here(k).export
      /\ Here(k).reads \in {"bytes", "text", "value"}
      /\ buffer[k] = None
  BY DEF GoAnswers, Ledger, Inv, Sound, HasStep, KnownBuffer
<1>2. /\ at' = [at EXCEPT ![k] = IF @ = "awaiting" THEN "answered" ELSE @]
      /\ UNCHANGED <<method, path>>
  BY DEF GoAnswers
<1>3. CASE UNCHANGED <<memory, buffer>>
  <2>1. KnownBuffer(k)' /\ Held(k)'
    BY <1>1, <1>2, <1>3 DEF Ledger, Inv, TypeOK, KnownBuffer, Held
  <2>2. ASSUME NEW j \in Caller \ {k} PROVE KnownBuffer(j)' /\ Held(j)'
    BY <1>2, <1>3, OthersHeld DEF Ledger, Inv, TypeOK
  <2> QED
    BY <2>1, <2>2
<1>4. CASE GoAnswer[inGo[k]].returns = "bytes" /\ Allocate(k)
  <2>1. PICK a \in Address :
          /\ memory[a] = None
          /\ memory' = [memory EXCEPT ![a] = k]
          /\ buffer' = [buffer EXCEPT ![k] = IF at[k] = "awaiting" THEN a ELSE @]
    BY <1>4 DEF Allocate
  <2>2. KnownBuffer(k)'
    BY <1>1, <1>2, <1>4, <2>1 DEF Ledger, Inv, TypeOK, KnownBuffer, Here
  <2>3. Held(k)'
    BY <1>1, <1>2, <2>1 DEF Ledger, Inv, TypeOK, Held
  <2>4. ASSUME NEW j \in Caller \ {k} PROVE KnownBuffer(j)' /\ Held(j)'
    BY <1>2, <2>1, OthersHeld DEF Ledger, Inv, TypeOK
  <2> QED
    BY <2>2, <2>3, <2>4
<1> QED
  BY <1>3, <1>4 DEF GoAnswers

LEMMA GetBytesHeld ==
  ASSUME Ledger, NEW k \in Caller, GetBytes(k)
  PROVE  \A j \in Caller : KnownBuffer(j)' /\ Held(j)'
<1>1. /\ at[k] = "answered" /\ at' = [at EXCEPT ![k] = "copied"]
      /\ UNCHANGED <<method, path, buffer, memory>>
  BY DEF GetBytes
<1>2. KnownBuffer(k)' /\ Held(k)'
  BY <1>1 DEF Ledger, Inv, TypeOK, KnownBuffer, Held, Here
<1>3. ASSUME NEW j \in Caller \ {k} PROVE KnownBuffer(j)' /\ Held(j)'
  BY <1>1, OthersHeld DEF Ledger, Inv, TypeOK
<1> QED
  BY <1>2, <1>3

LEMMA FreeBytesHeld ==
  ASSUME Ledger, NEW k \in Caller, FreeBytes(k)
  PROVE  \A j \in Caller : KnownBuffer(j)' /\ Held(j)'
<1>1. /\ at[k] = "copied" /\ at' = [at EXCEPT ![k] = "freed"]
      /\ memory' = [memory EXCEPT ![buffer[k]] = None]
      /\ buffer' = [buffer EXCEPT ![k] = None]
      /\ UNCHANGED <<method, path>>
  BY DEF FreeBytes
<1>2. KnownBuffer(k)' /\ Held(k)'
  BY <1>1 DEF Ledger, Inv, TypeOK, KnownBuffer, Held
<1>3. ASSUME NEW j \in Caller \ {k} PROVE KnownBuffer(j)' /\ Held(j)'
  BY <1>1, OthersHeld DEF Ledger, Inv, TypeOK
<1> QED
  BY <1>2, <1>3

LEMMA CancelHeld ==
  ASSUME Ledger, NEW k \in Caller, Cancel(k)
  PROVE  \A j \in Caller : KnownBuffer(j)' /\ Held(j)'
<1>1. /\ at' = [at EXCEPT ![k] = "cancelled"]
      /\ buffer' = [buffer EXCEPT ![k] = None]
      /\ UNCHANGED <<method, path, memory>>
  BY DEF Cancel
<1>2. KnownBuffer(k)' /\ Held(k)'
  BY <1>1 DEF Ledger, Inv, TypeOK, KnownBuffer, Held
<1>3. ASSUME NEW j \in Caller \ {k} PROVE KnownBuffer(j)' /\ Held(j)'
  BY <1>1, OthersHeld DEF Ledger, Inv, TypeOK
<1> QED
  BY <1>2, <1>3

LEMMA QuietHeld ==
  ASSUME Ledger,
         (\E k \in Caller : GoPanics(k)) \/ Register \/ Stop \/ UNCHANGED vars
  PROVE  \A j \in Caller : KnownBuffer(j)' /\ Held(j)'
<1>1. UNCHANGED <<method, path, at, buffer, memory>>
  BY DEF GoPanics, Register, Stop, vars
<1> QED
  BY <1>1 DEF Ledger, KnownBuffer, Held, Here

LEMMA WorkHeld ==
  ASSUME Ledger, NEW k \in Caller, Work(k)
  PROVE  \A j \in Caller : KnownBuffer(j)' /\ Held(j)'
<1>1. CASE RunOwn(k)
  BY <1>1, EndsHeld DEF RunOwn
<1>2. CASE MissAttribute(k)
  BY <1>2, EndsHeld DEF MissAttribute
<1>3. CASE ReadText(k)
  BY <1>3, EndsHeld, ConcludeEnds DEF ReadText
<1>4. CASE Parse(k)
  BY <1>4, EndsHeld, ConcludeEnds DEF Parse
<1> QED
  BY <1>1, <1>2, <1>3, <1>4, BeginHeld, EnterHeld, GoAnswersHeld, GetBytesHeld,
     FreeBytesHeld, CancelHeld, QuietHeld DEF Work

LEMMA LedgerInvariant == Spec => []Ledger
<1>1. Init => Ledger
  <2> SUFFICES ASSUME Init PROVE Ledger
    OBVIOUS
  <2>1. Inv
    BY InitSound
  <2>2. \A k \in Caller : KnownBuffer(k) /\ Held(k)
    BY EmptySeq DEF Init, KnownBuffer, Held
  <2> QED
    BY <2>1, <2>2 DEF Ledger
<1>2. Ledger /\ [Next]_vars => Ledger'
  <2> SUFFICES ASSUME Ledger, [Next]_vars PROVE Ledger'
    OBVIOUS
  <2>1. Inv'
    BY StepSound DEF Ledger
  <2>2. \A k \in Caller : KnownBuffer(k)' /\ Held(k)'
    BY WorkHeld, QuietHeld DEF Next
  <2> QED
    BY <2>1, <2>2 DEF Ledger
<1> QED
  BY <1>1, <1>2, PTL DEF Spec

\* No answer is left behind in C memory by the methods that read every answer
\* as what it is, whatever their steps, errors and exceptions: each BytesReturn
\* is still to be freed by the caller it was made for, or that caller was
\* cancelled.
THEOREM AnswersFreed == Spec => []BuffersFreed
<1>1. Ledger => BuffersFreed
  BY DEF Ledger, Held, BuffersFreed, Inv, TypeOK
<1> QED
  BY <1>1, LedgerInvariant, PTL

-----------------------------------------------------------------------------
(***************************************************************************)
(* The promises of the two clients.  Both follow the step a caller is at:  *)
(* its answer belongs to a call that Go may refuse, and to one Python can  *)
(* read once it has been copied.                                           *)
(***************************************************************************)
StepOfCall(k) ==
  /\ at[k] \in {"awaiting", "answered", "copied", "freed"} => IsCall(Here(k))
  /\ at[k] \in {"copied", "freed"} => Readable(Here(k))
  /\ at[k] \in {"answered", "copied", "freed"} /\ error[k] =>
       GoAnswer[Here(k).export].fails

Frames == Inv /\ \A k \in Caller : StepOfCall(k)

LEMMA StepOfCallKept ==
  ASSUME Inv, Inv', NEW k \in Caller, StepOfCall(k),
         at'[k] = at[k], path'[k] = path[k], error'[k] = error[k]
  PROVE  StepOfCall(k)'
  BY DEF StepOfCall, Here, IsCall, Readable

\* A step that has no answer in hand.
LEMMA StepOfCallElsewhere ==
  ASSUME NEW k \in Caller,
         at'[k] \notin {"awaiting", "answered", "copied", "freed"}
  PROVE  StepOfCall(k)'
  BY DEF StepOfCall

\* Which caller a step is one of, and what it does to that one's step.
LEMMA WorkFrames ==
  ASSUME Frames, NEW k \in Caller, Work(k)
  PROVE  \A j \in Caller : StepOfCall(j)'
<1> USE DEF Frames
<1>0. Inv /\ Inv' /\ TypeOK
  BY WorkSound DEF Inv
<1>1. CASE Begin(k)
  <2>1. /\ at'[k] \in {"ready", "returned"}
        /\ \A j \in Caller \ {k} : at'[j] = at[j] /\ path'[j] = path[j]
        /\ UNCHANGED error
    BY <1>0, <1>1 DEF Begin, TypeOK
  <2> QED
    BY <1>0, <2>1, StepOfCallKept, StepOfCallElsewhere
<1>2. ASSUME GoOn(k) \/ Raise(k), at[k] \in Underway, UNCHANGED error
      PROVE  \A j \in Caller : StepOfCall(j)'
  <2>1. path[k] # <<>>
    BY <1>2 DEF Inv, Sound, HasStep
  <2>2. /\ at'[k] \in {"ready", "returned", "raised"}
        /\ \A j \in Caller \ {k} : at'[j] = at[j] /\ path'[j] = path[j]
    BY <1>0, <1>2, <2>1, StepEnds DEF TypeOK
  <2> QED
    BY <1>0, <1>2, <2>2, StepOfCallKept, StepOfCallElsewhere
<1>3. CASE RunOwn(k) \/ MissAttribute(k) \/ ReadText(k) \/ Parse(k)
  BY <1>2, <1>3, ConcludeEnds DEF RunOwn, MissAttribute, ReadText, Parse, Underway
<1>4. CASE Enter(k)
  <2>1. /\ at' = [at EXCEPT ![k] = "awaiting"]
        /\ IsCall(Here(k))
        /\ UNCHANGED <<path, error>>
    BY <1>4 DEF Enter, IsCall
  <2>2. StepOfCall(k)'
    BY <1>0, <2>1 DEF TypeOK, StepOfCall, Here, IsCall
  <2> QED
    BY <1>0, <2>1, <2>2, StepOfCallKept DEF TypeOK
<1>5. CASE GoPanics(k)
  BY <1>0, <1>5, StepOfCallKept DEF GoPanics
<1>6. CASE GoAnswers(k)
  <2>1. /\ at[k] \in {"awaiting", "cancelled"}
        /\ inGo[k] = Here(k).export
    BY <1>6 DEF GoAnswers, Inv, Sound, HasStep
  <2>2. PICK fails \in BOOLEAN :
          /\ fails => GoAnswer[inGo[k]].fails
          /\ error' = [error EXCEPT ![k] = fails]
    BY <1>6 DEF GoAnswers
  <2>3. /\ at' = [at EXCEPT ![k] = IF @ = "awaiting" THEN "answered" ELSE @]
        /\ UNCHANGED path
    BY <1>6 DEF GoAnswers
  <2>4. StepOfCall(k)'
    BY <1>0, <2>1, <2>2, <2>3 DEF TypeOK, StepOfCall, Here, IsCall
  <2> QED
    BY <1>0, <2>2, <2>3, <2>4, StepOfCallKept DEF TypeOK
<1>7. CASE GetBytes(k)
  <2>1. /\ at[k] = "answered" /\ Readable(Here(k))
        /\ at' = [at EXCEPT ![k] = "copied"]
        /\ UNCHANGED <<path, error>>
    BY <1>7 DEF GetBytes
  <2>2. StepOfCall(k)'
    BY <1>0, <2>1 DEF TypeOK, StepOfCall, Here, IsCall, Readable
  <2> QED
    BY <1>0, <2>1, <2>2, StepOfCallKept DEF TypeOK
<1>8. CASE FreeBytes(k)
  <2>1. /\ at[k] = "copied"
        /\ at' = [at EXCEPT ![k] = "freed"]
        /\ UNCHANGED <<path, error>>
    BY <1>8 DEF FreeBytes
  <2>2. StepOfCall(k)'
    BY <1>0, <2>1 DEF TypeOK, StepOfCall, Here, IsCall, Readable
  <2> QED
    BY <1>0, <2>1, <2>2, StepOfCallKept DEF TypeOK
<1>9. CASE Cancel(k)
  <2>1. /\ at' = [at EXCEPT ![k] = "cancelled"]
        /\ UNCHANGED <<path, error>>
    BY <1>9 DEF Cancel
  <2> QED
    BY <1>0, <2>1, StepOfCallKept, StepOfCallElsewhere DEF TypeOK
<1> QED
  BY <1>1, <1>3, <1>4, <1>5, <1>6, <1>7, <1>8, <1>9 DEF Work

LEMMA FramesInvariant == Spec => []Frames
<1>1. Init => Frames
  BY InitSound DEF Init, Frames, StepOfCall
<1>2. Frames /\ [Next]_vars => Frames'
  <2> SUFFICES ASSUME Frames, [Next]_vars PROVE Frames'
    OBVIOUS
  <2>1. Inv'
    BY StepSound DEF Frames
  <2>2. ASSUME Register \/ Stop \/ UNCHANGED vars
        PROVE  \A j \in Caller : StepOfCall(j)'
    BY <2>1, <2>2, StepOfCallKept DEF Frames, Register, Stop, vars
  <2> QED
    BY <2>1, <2>2, WorkFrames DEF Frames, Next
<1> QED
  BY <1>1, <1>2, PTL DEF Spec

-----------------------------------------------------------------------------
(* Errors are reported.                                                      *)

\* A reporting method that has met an error has raised, is gone, or holds the
\* answer that says so, at a step that will raise.
RefusedSeen(k) ==
  method[k] \in Reporting =>
    /\ path[k] \in Seq(ReportingStep)
    /\ refused[k] =>
         \/ at[k] \in {"raised", "cancelled"}
         \/ /\ at[k] \in {"answered", "copied", "freed"}
            /\ error[k]
            /\ ~Here(k).caught

Reported == Frames /\ \A k \in Caller : RefusedSeen(k)

LEMMA RefusedSeenKept ==
  ASSUME NEW k \in Caller, RefusedSeen(k), method'[k] = method[k],
         at'[k] = at[k], path'[k] = path[k], error'[k] = error[k],
         refused'[k] = refused[k]
  PROVE  RefusedSeen(k)'
  BY DEF RefusedSeen, Here

\* What is left of a reporting path is one.
LEMMA ReportingTail ==
  ASSUME Frames, NEW k \in Caller, RefusedSeen(k), method[k] \in Reporting,
         path[k] # <<>>
  PROVE  /\ Here(k) \in ReportingStep
         /\ Tail(path[k]) \in Seq(ReportingStep)
  BY ShorterPath DEF RefusedSeen, Here

\* The end of a step, which raises if the method has met an error.
LEMMA EndsReported ==
  ASSUME Reported, NEW k \in Caller, at[k] \in Underway,
         GoOn(k) \/ Raise(k), UNCHANGED <<method, error, refused>>,
         method[k] \in Reporting /\ refused[k] => Raise(k)
  PROVE  \A j \in Caller : RefusedSeen(j)'
<1> USE DEF Reported
<1>1. /\ path[k] # <<>> /\ TypeOK
      /\ method[k] \in Reporting /\ refused[k] => ~Here(k).caught
  BY DEF Frames, Inv, Sound, HasStep, Underway, RefusedSeen
<1>2. /\ \A j \in Caller \ {k} : at'[j] = at[j] /\ path'[j] = path[j]
      /\ path'[k] \in {path[k], Tail(path[k])}
  <2>1. CASE GoOn(k)
    BY <1>1, <2>1 DEF GoOn, TypeOK
  <2>2. CASE at' = [at EXCEPT ![k] = "raised"] /\ UNCHANGED path
    BY <1>1, <2>2 DEF TypeOK
  <2> QED
    BY <2>1, <2>2 DEF Raise
<1>3. RefusedSeen(k)'
  <2> SUFFICES ASSUME method[k] \in Reporting
               PROVE  /\ path'[k] \in Seq(ReportingStep)
                      /\ refused[k] => at'[k] = "raised"
    BY DEF RefusedSeen
  <2>1. path'[k] \in Seq(ReportingStep)
    BY <1>1, <1>2, ReportingTail DEF RefusedSeen
  <2>2. refused[k] => at'[k] = "raised"
    BY <1>1 DEF Raise, TypeOK
  <2> QED
    BY <2>1, <2>2
<1> QED
  BY <1>2, <1>3, RefusedSeenKept

\* An error that a reporting method has met makes its step raise.
LEMMA RefusedRaises ==
  ASSUME Reported, NEW k \in Caller, method[k] \in Reporting, refused[k],
         at[k] \in {"answered", "copied", "freed"},
         Readable(Here(k)), Conclude(k)
  PROVE  Raise(k)
<1>1. /\ error[k] /\ ~Here(k).caught
      /\ IsCall(Here(k)) /\ GoAnswer[Here(k).export].fails
  BY DEF Reported, RefusedSeen, Frames, StepOfCall
<1>2. path[k] # <<>>
  BY DEF Reported, Frames, Inv, Sound, HasStep, Underway
<1>3. Here(k) \in ReportingStep
  BY <1>2, ReportingTail DEF Reported
<1>4. Here(k).onError = "raise"
  BY <1>1, <1>3 DEF ReportingStep
<1> QED
  BY <1>1, <1>4 DEF Conclude

LEMMA BeginReported ==
  ASSUME Reported, NEW k \in Caller, Begin(k)
  PROVE  \A j \in Caller : RefusedSeen(j)'
<1>1. TypeOK
  BY DEF Reported, Frames, Inv
<1>2. PICK p \in Program[method[k]] : path' = [path EXCEPT ![k] = p]
  BY DEF Begin
<1>3. /\ refused' = [refused EXCEPT ![k] = FALSE]
      /\ UNCHANGED <<method, error>>
      /\ \A j \in Caller \ {k} : at'[j] = at[j]
  BY <1>1 DEF Begin, TypeOK
<1>4. RefusedSeen(k)'
  BY <1>1, <1>2, <1>3 DEF RefusedSeen, Reporting, TypeOK
<1>5. ASSUME NEW j \in Caller \ {k} PROVE RefusedSeen(j)'
  BY <1>1, <1>2, <1>3, RefusedSeenKept DEF TypeOK, Reported
<1> QED
  BY <1>4, <1>5

LEMMA GoAnswersReported ==
  ASSUME Reported, NEW k \in Caller, GoAnswers(k)
  PROVE  \A j \in Caller : RefusedSeen(j)'
<1>1. /\ TypeOK
      /\ at[k] \in {"awaiting", "cancelled"}
  BY DEF GoAnswers, Reported, Frames, Inv, Sound, HasStep
<1>2. PICK fails \in BOOLEAN :
        /\ error' = [error EXCEPT ![k] = fails]
        /\ refused' = [refused EXCEPT ![k] = @ \/ (fails /\ ~Here(k).caught)]
  BY DEF GoAnswers
<1>3. /\ at' = [at EXCEPT ![k] = IF @ = "awaiting" THEN "answered" ELSE @]
      /\ UNCHANGED <<method, path>>
  BY DEF GoAnswers
<1>4. RefusedSeen(k)'
  <2> SUFFICES ASSUME method[k] \in Reporting, refused'[k]
               PROVE  \/ at'[k] \in {"raised", "cancelled"}
                      \/ /\ at'[k] \in {"answered", "copied", "freed"}
                         /\ error'[k]
                         /\ ~Here(k).caught
    BY <1>3 DEF Reported, RefusedSeen, Here
  <2>1. CASE at[k] = "cancelled"
    BY <1>1, <1>3, <2>1 DEF TypeOK
  <2>2. CASE at[k] = "awaiting"
    <3>1. ~refused[k]
      BY <2>2 DEF Reported, RefusedSeen
    <3>2. error'[k] = fails /\ refused'[k] = (fails /\ ~Here(k).caught)
      BY <1>1, <1>2, <3>1 DEF TypeOK
    <3> QED
      BY <1>1, <1>3, <2>2, <3>2 DEF TypeOK
  <2> QED
    BY <1>1, <2>1, <2>2
<1>5. ASSUME NEW j \in Caller \ {k} PROVE RefusedSeen(j)'
  BY <1>1, <1>2, <1>3, RefusedSeenKept DEF TypeOK, Reported
<1> QED
  BY <1>4, <1>5

LEMMA WorkReported ==
  ASSUME Reported, NEW k \in Caller, Work(k)
  PROVE  \A j \in Caller : RefusedSeen(j)'
<1>1. TypeOK
  BY DEF Reported, Frames, Inv
<1>2. CASE RunOwn(k)
  <2>1. method[k] \in Reporting => ~refused[k]
    BY <1>2 DEF RunOwn, Reported, RefusedSeen
  <2> QED
    BY <1>2, <2>1, EndsReported DEF RunOwn, Underway
<1>3. CASE MissAttribute(k)
  BY <1>3, EndsReported DEF MissAttribute, Underway
<1>4. CASE ReadText(k)
  <2>1. method[k] \in Reporting /\ refused[k] => Raise(k)
    BY <1>4, RefusedRaises DEF ReadText
  <2> QED
    BY <1>4, <2>1, ConcludeEnds, EndsReported DEF ReadText, Underway
<1>5. CASE Parse(k)
  <2>1. Readable(Here(k))
    BY <1>5 DEF Parse, Reported, Frames, StepOfCall
  <2>2. method[k] \in Reporting /\ refused[k] => Raise(k)
    BY <1>5, <2>1, RefusedRaises DEF Parse
  <2> QED
    BY <1>5, <2>2, ConcludeEnds, EndsReported DEF Parse, Underway
<1>6. CASE Enter(k) \/ GetBytes(k) \/ FreeBytes(k) \/ Cancel(k)
  <2>1. /\ UNCHANGED <<method, path, error, refused>>
        /\ \A j \in Caller \ {k} : at'[j] = at[j]
        /\ \/ at[k] = "ready"
           \/ at[k] \in {"answered", "copied"} /\ at'[k] \in {"copied", "freed"}
           \/ at'[k] = "cancelled"
    BY <1>1, <1>6 DEF Enter, GetBytes, FreeBytes, Cancel, TypeOK
  <2>2. RefusedSeen(k)'
    BY <2>1 DEF Reported, RefusedSeen, Here
  <2> QED
    BY <2>1, <2>2, RefusedSeenKept DEF Reported
<1>7. CASE GoPanics(k)
  BY <1>7, RefusedSeenKept DEF GoPanics, Reported
<1> QED
  BY <1>2, <1>3, <1>4, <1>5, <1>6, <1>7, BeginReported, GoAnswersReported
     DEF Work

LEMMA ReportedInvariant == Spec => []Reported
<1>1. Init /\ Frames => Reported
  BY EmptySeq DEF Init, Reported, RefusedSeen
<1>2. Reported /\ Frames' /\ [Next]_vars => Reported'
  <2> SUFFICES ASSUME Reported, [Next]_vars
               PROVE  \A j \in Caller : RefusedSeen(j)'
    BY DEF Reported
  <2>1. CASE Register \/ Stop \/ UNCHANGED vars
    BY <2>1, RefusedSeenKept DEF Reported, Register, Stop, vars
  <2> QED
    BY <2>1, WorkReported DEF Next
<1> QED
  BY <1>1, <1>2, FramesInvariant, PTL DEF Spec

\* No method hides an error that Go has reported to it, except the ones whose
\* paths do so by intention or parse another message (the `if model.Error' and
\* `if err' of client.py and aioze/client.py), however many callers there are
\* and however their calls, cancellations and further attempts interleave.
THEOREM ErrorsAreReported == Spec => []ErrorsReported
<1>1. Reported => ErrorsReported
  <2> SUFFICES ASSUME Reported, NEW k \in Caller, at[k] = "returned", refused[k]
               PROVE  method[k] \in NoReport
    BY DEF ErrorsReported
  <2>1. method[k] \notin Reporting
    BY DEF Reported, RefusedSeen
  <2>2. method[k] \in Method
    BY DEF Reported, Frames, Inv, TypeOK
  <2> QED
    BY <2>1, <2>2, NotReporting
<1> QED
  BY <1>1, ReportedInvariant, PTL

-----------------------------------------------------------------------------
(* What raised without an error of Go has changed nothing.                   *)

\* The answer in hand will not make the method raise.
Harmless(k) ==
  \/ Here(k).caught
  \/ Readable(Here(k)) /\ ~(error[k] /\ Here(k).onError \in {"raise", "garbled"})

\* All that an attempt may do has been done.
Spent(k) == effects[k] = failures[k] + 1

\* A caller of a repeatable method has changed something once for each attempt
\* that was refused and once more, and then nothing that is left of the path can
\* change anything again, or raise unless this attempt has been refused too.
DoneOnce(k) ==
  method[k] \in Repeatable =>
    /\ Atomic(path[k])
    /\ effects[k] <= failures[k] + 1
    /\ Spent(k) =>
         /\ at[k] # "new"
         /\ at[k] = "raised" => refused[k]
         /\ at[k] \in {"ready", "awaiting"} => QuietFrom(path[k], 1)
         /\ at[k] \in {"answered", "copied", "freed"} =>
              QuietFrom(path[k], 2) /\ (Harmless(k) \/ refused[k])
         /\ inGo[k] # None => ~Changes(Here(k))

Once == Frames /\ \A k \in Caller : DoneOnce(k)

LEMMA PathKept ==
  ASSUME NEW k \in Caller, path'[k] = path[k]
  PROVE  /\ Atomic(path[k])' = Atomic(path[k])
         /\ QuietFrom(path[k], 1)' = QuietFrom(path[k], 1)
         /\ QuietFrom(path[k], 2)' = QuietFrom(path[k], 2)
         /\ Changes(Here(k))' = Changes(Here(k))
         /\ error'[k] = error[k] => Harmless(k)' = Harmless(k)
<1>1. Atomic(path[k])' = Atomic(path[k])
  BY DEF Atomic, QuietFrom, Changes, MayRaise, IsCall, Readable
<1>2. /\ QuietFrom(path[k], 1)' = QuietFrom(path[k], 1)
      /\ QuietFrom(path[k], 2)' = QuietFrom(path[k], 2)
  BY DEF QuietFrom, Changes, MayRaise, IsCall, Readable
<1>3. error'[k] = error[k] => Harmless(k)' = Harmless(k)
  BY DEF Harmless, Here, Readable
<1>4. Changes(Here(k))' = Changes(Here(k))
  BY DEF Changes, IsCall, Here
<1> QED
  BY <1>1, <1>2, <1>3, <1>4

LEMMA DoneOnceKept ==
  ASSUME NEW k \in Caller, DoneOnce(k), method'[k] = method[k],
         at'[k] = at[k], path'[k] = path[k], error'[k] = error[k],
         effects'[k] = effects[k], failures'[k] = failures[k],
         refused'[k] = refused[k], inGo'[k] = inGo[k]
  PROVE  DoneOnce(k)'
  BY PathKept DEF DoneOnce, Spent

LEMMA TailElements ==
  ASSUME NEW S, NEW p \in Seq(S), p # <<>>
  PROVE  /\ Len(p) \in Nat \ {0}
         /\ Len(Tail(p)) = Len(p) - 1
         /\ Head(p) = p[1]
         /\ \A i \in 1..Len(Tail(p)) : Tail(p)[i] = p[i + 1]
<1>1. Len(p) \in Nat /\ Len(p) # 0
  BY LenProperties, EmptySeq
<1> QED
  BY <1>1, HeadTailProperties

\* A path that is atomic, or quiet from somewhere on, stays so one step later.
LEMMA AtomicTail ==
  ASSUME NEW p \in Seq(CallStep), p # <<>>
  PROVE  /\ QuietFrom(p, 2) => QuietFrom(Tail(p), 1)
         /\ QuietFrom(p, 1) => /\ QuietFrom(p, 2)
                               /\ ~Changes(Head(p)) /\ ~MayRaise(Head(p))
         /\ Atomic(p) =>
              /\ Atomic(Tail(p))
              /\ Changes(Head(p)) => /\ QuietFrom(p, 2)
                                     /\ Readable(Head(p)) \/ Head(p).caught
<1>1. /\ Len(p) \in Nat \ {0}
      /\ Len(Tail(p)) = Len(p) - 1
      /\ Head(p) = p[1]
      /\ \A i \in 1..Len(Tail(p)) : Tail(p)[i] = p[i + 1]
  BY TailElements
<1>2. ASSUME NEW i \in Nat \ {0}, QuietFrom(p, i + 1)
      PROVE  QuietFrom(Tail(p), i)
  <2> SUFFICES ASSUME NEW j \in i..Len(Tail(p))
               PROVE  ~Changes(Tail(p)[j]) /\ ~MayRaise(Tail(p)[j])
    BY DEF QuietFrom
  <2>1. j \in 1..Len(Tail(p)) /\ j + 1 \in (i + 1)..Len(p)
    BY <1>1
  <2>2. Tail(p)[j] = p[j + 1]
    BY <1>1, <2>1
  <2> QED
    BY <1>2, <2>1, <2>2 DEF QuietFrom
<1>3. QuietFrom(p, 2) => QuietFrom(Tail(p), 1)
  BY <1>2
<1>4. QuietFrom(p, 1) => /\ QuietFrom(p, 2)
                         /\ ~Changes(Head(p)) /\ ~MayRaise(Head(p))
  BY <1>1 DEF QuietFrom
<1>5. ASSUME Atomic(p)
      PROVE  Atomic(Tail(p))
  <2> SUFFICES ASSUME NEW i \in 1..Len(Tail(p)), Changes(Tail(p)[i])
               PROVE  /\ Readable(Tail(p)[i]) \/ Tail(p)[i].caught
                      /\ QuietFrom(Tail(p), i + 1)
    BY DEF Atomic
  <2>1. i + 1 \in 1..Len(p) /\ Tail(p)[i] = p[i + 1]
    BY <1>1
  <2>2. /\ Readable(p[i + 1]) \/ p[i + 1].caught
        /\ QuietFrom(p, (i + 1) + 1)
    BY <1>5, <2>1 DEF Atomic
  <2> QED
    BY <1>2, <2>1, <2>2
<1>6. Atomic(p) /\ Changes(Head(p)) => /\ QuietFrom(p, 2)
                                       /\ Readable(Head(p)) \/ Head(p).caught
  <2>1. 1 \in 1..Len(p) /\ 1 + 1 = 2
    BY <1>1
  <2> QED
    BY <1>1, <2>1 DEF Atomic
<1> QED
  BY <1>3, <1>4, <1>5, <1>6

\* The end of a step, which does not raise once something has been changed.
LEMMA EndsOnce ==
  ASSUME Once, NEW k \in Caller, at[k] \in {"ready", "answered", "freed"},
         GoOn(k) \/ Raise(k),
         UNCHANGED <<method, error, effects, failures, refused, inGo>>,
         method[k] \in Repeatable /\ Spent(k) => GoOn(k) \/ refused[k]
  PROVE  \A j \in Caller : DoneOnce(j)'
<1> USE DEF Once
<1>1. /\ path[k] # <<>> /\ inGo[k] = None /\ TypeOK
      /\ path[k] \in Seq(CallStep)
  BY DEF Frames, Inv, Sound, HasStep, Underway, TypeOK
<1>2. /\ \A j \in Caller \ {k} : at'[j] = at[j] /\ path'[j] = path[j]
      /\ path'[k] \in {path[k], Tail(path[k])}
      /\ GoOn(k) => /\ at'[k] \in {"ready", "returned"}
                    /\ path'[k] = Tail(path[k])
  <2>1. CASE GoOn(k)
    BY <1>1, <2>1 DEF GoOn, TypeOK
  <2>2. CASE at' = [at EXCEPT ![k] = "raised"] /\ UNCHANGED path
    BY <1>1, <2>2 DEF TypeOK, GoOn
  <2> QED
    BY <2>1, <2>2 DEF Raise
<1>3. DoneOnce(k)'
  <2> SUFFICES ASSUME method[k] \in Repeatable
               PROVE  /\ Atomic(path'[k])
                      /\ effects[k] <= failures[k] + 1
                      /\ Spent(k) =>
                           /\ at'[k] \in {"ready", "returned", "raised"}
                           /\ at'[k] = "raised" => refused[k]
                           /\ at'[k] = "ready" => QuietFrom(path'[k], 1)
    BY <1>1 DEF DoneOnce, Spent, Atomic, QuietFrom, Changes, MayRaise, IsCall,
                Readable
  <2>1. Atomic(path'[k]) /\ effects[k] <= failures[k] + 1
    BY <1>1, <1>2, AtomicTail DEF DoneOnce
  <2>2. ASSUME Spent(k)
        PROVE  /\ at'[k] \in {"ready", "returned", "raised"}
               /\ at'[k] = "raised" => refused[k]
               /\ at'[k] = "ready" => QuietFrom(path'[k], 1)
    <3>1. QuietFrom(path[k], 2)
      BY <1>1, <2>2, AtomicTail DEF DoneOnce
    <3>2. CASE GoOn(k)
      BY <1>1, <1>2, <3>1, <3>2, AtomicTail
    <3>3. CASE at' = [at EXCEPT ![k] = "raised"] /\ refused[k]
      BY <1>1, <3>3 DEF TypeOK
    <3> QED
      BY <2>2, <3>2, <3>3 DEF Raise
  <2> QED
    BY <2>1, <2>2
<1>4. ASSUME NEW j \in Caller \ {k} PROVE DoneOnce(j)'
  BY <1>2, DoneOnceKept
<1> QED
  BY <1>3, <1>4

LEMMA BeginOnce ==
  ASSUME Once, NEW k \in Caller, Begin(k)
  PROVE  \A j \in Caller : DoneOnce(j)'
<1>1. TypeOK /\ at[k] \in {"new", "raised"}
  BY DEF Once, Frames, Inv, Begin
<1>2. PICK p \in Program[method[k]] : path' = [path EXCEPT ![k] = p]
  BY DEF Begin
<1>3. /\ UNCHANGED <<method, error, effects, inGo>>
      /\ \A j \in Caller \ {k} :
           at'[j] = at[j] /\ failures'[j] = failures[j] /\ refused'[j] = refused[j]
      /\ failures'[k] = IF refused[k] THEN failures[k] + 1 ELSE failures[k]
  BY <1>1 DEF Begin, TypeOK
<1>4. DoneOnce(k)'
  <2> SUFFICES ASSUME method[k] \in Repeatable
               PROVE  Atomic(path[k])' /\ effects[k] <= failures'[k]
    <3>1. effects'[k] \in Nat /\ failures'[k] \in Nat /\ effects' = effects
      BY <1>1, <1>3 DEF TypeOK
    <3>2. effects[k] <= failures'[k] =>
            effects'[k] <= failures'[k] + 1 /\ effects'[k] # failures'[k] + 1
      BY <3>1
    <3> QED
      BY <1>3, <3>2 DEF DoneOnce, Spent
  <2>1. effects[k] <= failures'[k]
    <3>1. effects[k] \in Nat /\ failures[k] \in Nat
      BY <1>1 DEF TypeOK
    <3>2. effects[k] <= failures[k] + 1
      BY DEF Once, DoneOnce
    <3>3. effects[k] = failures[k] + 1 => refused[k]
      BY <1>1 DEF Once, DoneOnce, Spent
    <3> QED
      BY <1>3, <3>1, <3>2, <3>3
  <2>2. path'[k] = p /\ Atomic(p)
    BY <1>1, <1>2 DEF TypeOK, Repeatable
  <2>3. Atomic(path[k])'
    BY <2>2 DEF Atomic, QuietFrom, Changes, MayRaise, IsCall, Readable
  <2> QED
    BY <2>1, <2>3
<1>5. ASSUME NEW j \in Caller \ {k} PROVE DoneOnce(j)'
  BY <1>1, <1>2, <1>3, DoneOnceKept DEF TypeOK, Once
<1> QED
  BY <1>4, <1>5

LEMMA GoAnswersOnce ==
  ASSUME Once, NEW k \in Caller, GoAnswers(k)
  PROVE  \A j \in Caller : DoneOnce(j)'
<1>1. /\ TypeOK
      /\ path[k] # <<>> /\ path[k] \in Seq(CallStep)
      /\ at[k] \in {"awaiting", "cancelled"}
      /\ inGo[k] = Here(k).export /\ inGo[k] # None
      /\ IsCall(Here(k))
  BY DEF GoAnswers, Once, Frames, Inv, Sound, HasStep, TypeOK, IsCall
<1>2. PICK fails \in BOOLEAN, done \in BOOLEAN :
        /\ done => GoAnswer[inGo[k]].changes
        /\ fails => GoAnswer[inGo[k]].fails
        /\ error' = [error EXCEPT ![k] = fails]
        /\ refused' = [refused EXCEPT ![k] = @ \/ (fails /\ ~Here(k).caught)]
        /\ effects' = [effects EXCEPT ![k] = IF done THEN @ + 1 ELSE @]
  BY DEF GoAnswers, TakesEffect
<1>3. /\ at' = [at EXCEPT ![k] = IF @ = "awaiting" THEN "answered" ELSE @]
      /\ inGo' = [inGo EXCEPT ![k] = None]
      /\ UNCHANGED <<method, path, failures>>
  BY DEF GoAnswers
<1>4. DoneOnce(k)'
  <2> SUFFICES ASSUME method[k] \in Repeatable
               PROVE  /\ effects'[k] <= failures[k] + 1
                      /\ effects'[k] = failures[k] + 1 =>
                           /\ at'[k] \in {"answered", "cancelled"}
                           /\ at'[k] = "answered" =>
                                /\ QuietFrom(path[k], 2)
                                /\ Harmless(k)' \/ refused'[k]
    <3>1. inGo'[k] = None /\ path' = path /\ method' = method /\ failures' = failures
      BY <1>1, <1>3 DEF TypeOK
    <3>2. Atomic(path[k])' <=> Atomic(path[k])
      BY <3>1 DEF Atomic, QuietFrom, Changes, MayRaise, IsCall, Readable
    <3>3. QuietFrom(path[k], 2)' <=> QuietFrom(path[k], 2)
      BY <3>1 DEF QuietFrom, Changes, MayRaise, IsCall, Readable
    <3>4. method[k] \in Repeatable => Atomic(path[k])
      BY DEF Once, DoneOnce
    <3> QED
      BY <3>1, <3>2, <3>3, <3>4 DEF DoneOnce, Spent
  <2>1. /\ at'[k] \in {"answered", "cancelled"}
        /\ at'[k] = "answered" => at[k] = "awaiting"
        /\ error'[k] = fails
        /\ refused'[k] = (refused[k] \/ (fails /\ ~Here(k).caught))
        /\ Here(k)' = Here(k)
    BY <1>1, <1>2, <1>3 DEF TypeOK, Here
  <2>2. /\ Atomic(path[k]) /\ effects[k] <= failures[k] + 1
        /\ Spent(k) =>
             /\ ~Changes(Here(k))
             /\ at[k] = "awaiting" => QuietFrom(path[k], 1)
    BY <1>1 DEF Once, DoneOnce
  <2>3. /\ done => Changes(Here(k))
        /\ effects'[k] = IF done THEN effects[k] + 1 ELSE effects[k]
        /\ effects[k] \in Nat /\ failures[k] \in Nat
    BY <1>1, <1>2 DEF TypeOK, Changes
  <2>4. effects'[k] <= failures[k] + 1
    <3>1. CASE done
      <4>1. effects[k] # failures[k] + 1
        BY <2>2, <2>3, <3>1 DEF Spent
      <4> QED
        BY <2>2, <2>3, <3>1, <4>1
    <3> QED
      BY <2>2, <2>3, <3>1
  <2>5. CASE Changes(Here(k))
    <3>1. /\ QuietFrom(path[k], 2)
          /\ Readable(Here(k)) \/ Here(k).caught
      BY <1>1, <2>2, <2>5, AtomicTail DEF Here
    <3>2. Harmless(k)' \/ refused'[k]
      BY <2>1, <3>1 DEF Harmless, Readable
    <3> QED
      BY <2>1, <2>4, <3>1, <3>2
  <2>6. CASE ~Changes(Here(k))
    <3>1. effects'[k] = effects[k]
      BY <2>3, <2>6
    <3>2. ASSUME Spent(k), at[k] = "awaiting"
          PROVE  QuietFrom(path[k], 2) /\ Harmless(k)'
      <4>1. QuietFrom(path[k], 2) /\ ~MayRaise(Here(k))
        BY <1>1, <2>2, <3>2, AtomicTail DEF Here
      <4>2. Here(k).caught \/ /\ Readable(Here(k))
                              /\ ~(fails /\ Here(k).onError \in {"raise", "garbled"})
        BY <1>1, <1>2, <4>1 DEF MayRaise
      <4>3. Harmless(k)'
        BY <2>1, <4>2 DEF Harmless, Readable
      <4> QED
        BY <4>1, <4>3
    <3> QED
      BY <2>1, <2>4, <3>1, <3>2 DEF Spent
  <2> QED
    BY <2>5, <2>6
<1>5. ASSUME NEW j \in Caller \ {k} PROVE DoneOnce(j)'
  BY <1>1, <1>2, <1>3, DoneOnceKept DEF TypeOK, Once
<1> QED
  BY <1>4, <1>5

LEMMA WorkOnce ==
  ASSUME Once, NEW k \in Caller, Work(k)
  PROVE  \A j \in Caller : DoneOnce(j)'
<1>1. TypeOK
  BY DEF Once, Frames, Inv
<1>2. ASSUME at[k] \in Underway, method[k] \in Repeatable, Spent(k)
      PROVE  /\ path[k] # <<>> /\ path[k] \in Seq(CallStep)
             /\ at[k] = "ready" => ~MayRaise(Here(k))
             /\ at[k] \in {"answered", "freed"} => Harmless(k) \/ refused[k]
  <2>1. path[k] # <<>> /\ path[k] \in Seq(CallStep)
    BY <1>2 DEF Once, Frames, Inv, Sound, HasStep, TypeOK
  <2>2. at[k] = "ready" => QuietFrom(path[k], 1)
    BY <1>2 DEF Once, DoneOnce
  <2>3. at[k] \in {"answered", "freed"} => Harmless(k) \/ refused[k]
    BY <1>2 DEF Once, DoneOnce
  <2> QED
    BY <2>1, <2>2, <2>3, AtomicTail DEF Here
<1>3. CASE RunOwn(k)
  <2>1. method[k] \in Repeatable /\ Spent(k) => Here(k).caught
    BY <1>2, <1>3 DEF RunOwn, Underway, MayRaise, IsCall
  <2> QED
    BY <1>3, <2>1, EndsOnce DEF RunOwn, Raise
<1>4. CASE MissAttribute(k)
  <2>1. method[k] \in Repeatable /\ Spent(k) => Here(k).caught \/ refused[k]
    BY <1>2, <1>4 DEF MissAttribute, Underway, Harmless
  <2> QED
    BY <1>4, <2>1, EndsOnce DEF MissAttribute, Raise
<1>5. ASSUME at[k] \in {"answered", "freed"}, Conclude(k),
             method[k] \in Repeatable, Spent(k)
      PROVE  GoOn(k) \/ refused[k]
  BY <1>2, <1>5 DEF Underway, Harmless, Conclude, Raise
<1>6. CASE ReadText(k)
  BY <1>5, <1>6, ConcludeEnds, EndsOnce DEF ReadText
<1>7. CASE Parse(k)
  BY <1>5, <1>7, ConcludeEnds, EndsOnce DEF Parse
<1>8. CASE Enter(k)
  <2>1. /\ at[k] = "ready"
        /\ at' = [at EXCEPT ![k] = "awaiting"]
        /\ UNCHANGED <<method, path, error, effects, failures, refused>>
        /\ inGo' = [inGo EXCEPT ![k] = Here(k).export]
    BY <1>8 DEF Enter
  <2>2. path[k] # <<>> /\ path[k] \in Seq(CallStep)
    BY <1>1, <2>1 DEF Once, Frames, Inv, Sound, HasStep, Underway, TypeOK
  <2>3. QuietFrom(path[k], 1) => ~Changes(Here(k))
    BY <2>2, AtomicTail DEF Here
  <2>4. DoneOnce(k)'
    <3>1. path'[k] = path[k] /\ at'[k] = "awaiting"
      BY <1>1, <2>1 DEF TypeOK
    <3> QED
      BY <1>1, <2>1, <2>3, <3>1, PathKept DEF Once, DoneOnce, Spent
  <2> QED
    BY <1>1, <2>1, <2>4, DoneOnceKept DEF TypeOK, Once
<1>9. CASE GetBytes(k) \/ FreeBytes(k) \/ Cancel(k)
  <2>1. /\ UNCHANGED <<method, path, error, effects, failures, refused, inGo>>
        /\ \A j \in Caller \ {k} : at'[j] = at[j]
        /\ \/ at[k] \in {"answered", "copied"} /\ at'[k] \in {"copied", "freed"}
           \/ at'[k] = "cancelled"
        /\ at[k] \notin {"new", "raised"}
    BY <1>1, <1>9 DEF GetBytes, FreeBytes, Cancel, TypeOK
  <2>2. DoneOnce(k)'
    <3>1. path'[k] = path[k] /\ error'[k] = error[k]
      BY <2>1
    <3> QED
      BY <2>1, <3>1, PathKept DEF Once, DoneOnce, Spent
  <2> QED
    BY <2>1, <2>2, DoneOnceKept DEF Once
<1>10. CASE GoPanics(k)
  BY <1>10, DoneOnceKept DEF GoPanics, Once
<1> QED
  BY <1>3, <1>4, <1>6, <1>7, <1>8, <1>9, <1>10, BeginOnce, GoAnswersOnce
     DEF Work

LEMMA OnceInvariant == Spec => []Once
<1>1. Init /\ Frames => Once
  <2> SUFFICES ASSUME Init, Frames, NEW k \in Caller
               PROVE  DoneOnce(k)
    BY DEF Once
  <2>1. path[k] = <<>> /\ effects[k] = 0 /\ failures[k] = 0
    BY DEF Init
  <2>2. Atomic(path[k])
    BY <2>1, EmptySeq DEF Atomic
  <2> QED
    BY <2>1, <2>2 DEF DoneOnce, Spent
<1>2. Once /\ Frames' /\ [Next]_vars => Once'
  <2> SUFFICES ASSUME Once, [Next]_vars
               PROVE  \A j \in Caller : DoneOnce(j)'
    BY DEF Once
  <2>1. CASE Register \/ Stop \/ UNCHANGED vars
    BY <2>1, DoneOnceKept DEF Once, Register, Stop, vars
  <2> QED
    BY <2>1, WorkOnce DEF Next
<1> QED
  BY <1>1, <1>2, FramesInvariant, PTL DEF Spec

\* A caller may call a method again and again because it raised (client.py and
\* aioze/client.py): each time the method does what it does again, Go has
\* reported an error to an attempt before, whatever other calls there are in
\* the method, unless it is one that cannot read its answer.
THEOREM RepeatedOnce == Spec => []NotTwice
<1>1. Once => NotTwice
  <2> SUFFICES ASSUME Once, NEW k \in Caller, NameOf(k) \notin Unreadable
               PROVE  effects[k] <= failures[k] + 1
    BY DEF NotTwice
  <2>1. method[k] \in Method /\ method[k] \notin Client \X Unreadable
    BY DEF Once, Frames, Inv, TypeOK, NameOf
  <2>2. method[k] \in Repeatable
    BY <2>1, NotRepeatable
  <2> QED
    BY <2>2 DEF Once, DoneOnce
<1> QED
  BY <1>1, OnceInvariant, PTL
==============================================================================
