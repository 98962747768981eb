---------------------------- MODULE AsyncProofs ----------------------------
(***************************************************************************)
(* Theorems about AsyncClient, for every number of clients, workers and    *)
(* events, every script of the application and every handler: a task waits *)
(* in one place only, the handlers of a client begin in the order of its   *)
(* events and none is left out, the flags are set before them, and the     *)
(* task of connect ends after them.                                        *)
(*                                                                         *)
(* The order rests on QueueOrder: of two callbacks of a client, the one    *)
(* that must run first is behind in hops or, at equal hops, ahead in the   *)
(* queue.  To move the head of the queue to its end with one hop less      *)
(* keeps that, as does to append with the one hop that every callback from *)
(* another thread has.                                                     *)
(***************************************************************************)
EXTENDS AsyncClient, SequenceTheorems, FiniteSetTheorems, TLAPS

USE AsyncAssumption

-----------------------------------------------------------------------------
(***************************************************************************)
(* The inductive invariant.                                                *)
(***************************************************************************)
Event == [src : Client, kind : Kind]

Received(c) == IF delivered[c] = <<>> THEN 0 ELSE Len(delivered[c]) - 1

\* What is delivered was accepted, and is an event after the device.
StreamOK ==
  /\ sent \in [Client -> Seq(Event)]
  /\ delivered \in [Client -> Seq([src : Client, kind : Kind \cup {Me}])]
  /\ \A c \in Client :
       /\ Received(c) <= Len(sent[c])
       /\ Len(sent[c]) <= MaxEvents[c]
       /\ \A i \in 2..Len(delivered[c]) : delivered[c][i].kind \in Kind

FlagsOK ==
  \A c \in Client :
    /\ delivered[c] # <<>> => me[c]
    /\ \A i \in 2..Len(delivered[c]) :
         delivered[c][i].kind = Connected => connected[c]

\* A queue has one entry for each task of a set and no other entry.
Lists(q, T) ==
  /\ \A i \in 1..Len(q) : q[i].task \in T
  /\ \A t \in T : \E i \in 1..Len(q) : q[i].task = t
  /\ \A i, j \in 1..Len(q) : q[i].task = q[j].task => i = j

Scheduled == {t \in Task : state[t] = "scheduled"}
InCall(t) == \E j \in running : j.task = t
Queued == {t \in Task : state[t] = "awaiting" /\ ~InCall(t)}

Places ==
  /\ Lists(ready, Scheduled)
  /\ Lists(work, Queued)
  /\ \A j \in running : state[j.task] = "awaiting"
  /\ \A j, k \in running : j.task = k.task => j = k
  /\ IsFiniteSet(running)

OfClient(t) == t.of \in Client
IsConnect(t) == OfClient(t) /\ t.n = 0

\* Only the task of connect is in Neonize, and no exception ends it.
TaskState == {"new", "scheduled", "awaiting", "idle", "done"}
Entry == [task : Task, hops : 0..2, ok : BOOLEAN]
OwnEntry == {b \in Entry : IsConnect(b.task) => b.ok}
OwnJob == {j \in JobType : j.op = "neonize" <=> IsConnect(j.task)}

JobsOK ==
  /\ ready \in Seq(OwnEntry)
  /\ work \in Seq(OwnJob)
  /\ running \subseteq OwnJob

\* How far the task of connect is when Neonize is where it is.
ConnectStage(c) == LET t == ConnectTask(c) IN
  \/ /\ phase[c] = "none"
     /\ delivered[c] = <<>>
     /\ ~InCall(t)
     /\ \/ state[t] \in {"new", "scheduled"} /\ pos[t] = 0
        \/ state[t] = "awaiting" /\ pos[t] = 1
  \/ /\ phase[c] \in {"entered", "up"}
     /\ phase[c] = "entered" => delivered[c] = <<>>
     /\ state[t] = "awaiting"
     /\ pos[t] = 1
     /\ Job(t, "neonize") \in running
  \/ /\ phase[c] = "returned"
     /\ delivered[c] # <<>>
     /\ \/ state[t] = "scheduled" /\ pos[t] = 1
        \/ state[t] = "done" /\ Len(started[c]) = Received(c)

ConnectOK == \A c \in Client : ConnectStage(c)

\* The handlers of a client that have begun are its first ones, and each of
\* the others whose event was delivered is queued.
HandlersOf(c) ==
  /\ Len(started[c]) <= Received(c)
  /\ \A i \in 1..Len(started[c]) : started[c][i] = i
  /\ \A n \in 1..MaxEvents[c] : LET t == Handler(c, n) IN
       /\ state[t] = "new" <=> n > Received(c)
       /\ pos[t] = 0 <=> n > Len(started[c])
       /\ pos[t] = 0 => state[t] \in {"new", "scheduled"}

HandlersOK == \A c \in Client : HandlersOf(c)

PosOK ==
  \A t \in Task :
    /\ state[t] = "new" => pos[t] = 0
    /\ state[t] \in {"scheduled", "awaiting", "idle"} => pos[t] <= Len(Script(t))

\* The callbacks whose order matters: a handler that has not begun, and a
\* task of connect that has called Neonize, which comes after every handler.
Due == {t \in Task : OfClient(t) /\ pos[t] = IF t.n = 0 THEN 1 ELSE 0}
Rank(t) == IF t.n = 0 THEN MaxEvents[t.of] + 1 ELSE t.n

Precedes(t, u) == t.of = u.of /\ Rank(t) < Rank(u)

Ordered(q, D) ==
  /\ \A i \in 1..Len(q) : q[i].task \in D => q[i].hops <= 1
  /\ \A i, j \in 1..Len(q) :
       /\ q[i].task \in D
       /\ q[j].task \in D
       /\ Precedes(q[i].task, q[j].task)
       => \/ q[i].hops < q[j].hops
          \/ q[i].hops = q[j].hops /\ i < j

QueueOrder == Ordered(ready, Due)

IInv ==
  /\ TypeOK
  /\ StreamOK
  /\ FlagsOK
  /\ Places
  /\ JobsOK
  /\ ConnectOK
  /\ HandlersOK
  /\ PosOK
  /\ QueueOrder
-----------------------------------------------------------------------------
(***************************************************************************)
(* Queues: what it does to a list, and to its order, to take its head, to  *)
(* append an entry or to put one in front.                                 *)
(***************************************************************************)
LEMMA SeqSubset ==
  ASSUME NEW S, NEW T, \A x \in S : x \in T, NEW q \in Seq(S)
  PROVE  q \in Seq(T)
  OBVIOUS

LEMMA AppendAt ==
  ASSUME NEW E, NEW q \in Seq(E), NEW e \in E
  PROVE  /\ Append(q, e) \in Seq(E)
         /\ Len(Append(q, e)) = Len(q) + 1
         /\ \A i \in 1..Len(q) : Append(q, e)[i] = q[i]
         /\ Append(q, e)[Len(q) + 1] = e
         /\ Len(q) \in Nat
  BY AppendProperties, LenProperties

LEMMA TailAt ==
  ASSUME NEW E, NEW q \in Seq(E), q # <<>>
  PROVE  /\ Tail(q) \in Seq(E)
         /\ Len(q) \in Nat \ {0}
         /\ Len(Tail(q)) = Len(q) - 1
         /\ \A i \in 1..Len(Tail(q)) : Tail(q)[i] = q[i + 1]
         /\ Head(q) = q[1]
         /\ Head(q) \in E
  BY HeadTailProperties, LenProperties, EmptySeq

LEMMA PrependAt ==
  ASSUME NEW E, NEW q \in Seq(E), NEW e \in E
  PROVE  /\ <<e>> \o q \in Seq(E)
         /\ Len(<<e>> \o q) = Len(q) + 1
         /\ (<<e>> \o q)[1] = e
         /\ \A i \in 1..Len(q) : (<<e>> \o q)[i + 1] = q[i]
         /\ Len(q) \in Nat
<1>1. <<e>> \in Seq(E) /\ Len(<<e>>) = 1 /\ <<e>>[1] = e
  OBVIOUS
<1>2. Len(q) \in Nat
  BY LenProperties
<1>3. /\ <<e>> \o q \in Seq(E)
      /\ Len(<<e>> \o q) = Len(<<e>>) + Len(q)
      /\ \A i \in 1..(Len(<<e>>) + Len(q)) :
           (<<e>> \o q)[i] = IF i <= Len(<<e>>) THEN <<e>>[i]
                             ELSE q[i - Len(<<e>>)]
  BY <1>1, ConcatProperties
<1> QED
  BY <1>1, <1>2, <1>3

LEMMA EntryAt ==
  ASSUME NEW q \in Seq(Entry)
  PROVE  \A i \in 1..Len(q) : /\ q[i] \in Entry
                              /\ q[i].task \in Task
                              /\ q[i].hops \in Nat
<1> TAKE i \in 1..Len(q)
<1>1. q[i] \in Entry
  BY ElementOfSeq
<1> QED
  BY <1>1 DEF Entry

LEMMA WithHops ==
  ASSUME NEW T, NEW b \in [task : T, hops : 0..2, ok : BOOLEAN], NEW h \in 0..2
  PROVE  /\ [b EXCEPT !.hops = h] \in [task : T, hops : 0..2, ok : BOOLEAN]
         /\ [b EXCEPT !.hops = h].task = b.task
         /\ [b EXCEPT !.hops = h].hops = h
         /\ [b EXCEPT !.hops = h].ok = b.ok
  OBVIOUS

LEMMA OneHopLess ==
  ASSUME NEW b \in Entry, b.hops > 0
  PROVE  /\ [b EXCEPT !.hops = @ - 1] \in Entry
         /\ [b EXCEPT !.hops = @ - 1].task = b.task
         /\ [b EXCEPT !.hops = @ - 1].hops = b.hops - 1
         /\ [b EXCEPT !.hops = @ - 1].ok = b.ok
<1>1. b.hops - 1 \in 0..2
  BY DEF Entry
<1>2. b \in [task : Task, hops : 0..2, ok : BOOLEAN]
  BY DEF Entry
<1> QED
  BY <1>1, <1>2, WithHops, Zenon DEF Entry

LEMMA ListsAppend ==
  ASSUME NEW E, NEW q \in Seq(E), NEW e \in E, NEW T, Lists(q, T), e.task \notin T
  PROVE  Lists(Append(q, e), T \cup {e.task})
<1> DEFINE r == Append(q, e)
           n == Len(q)
<1>1. /\ Len(r) = n + 1 /\ n \in Nat
      /\ \A i \in 1..n : r[i] = q[i]
      /\ r[n + 1] = e
  BY AppendAt
<1> HIDE DEF r
<1>2. \A i \in 1..(n + 1) : i \in 1..n \/ i = n + 1
  BY <1>1
<1>3. \A i \in 1..(n + 1) : r[i].task \in T \cup {e.task}
  BY <1>1, <1>2 DEF Lists
<1>4. \A t \in T \cup {e.task} : \E i \in 1..(n + 1) : r[i].task = t
  <2>1. \A t \in T : \E i \in 1..n : r[i].task = t
    BY <1>1 DEF Lists
  <2>2. 1..n \subseteq 1..(n + 1) /\ n + 1 \in 1..(n + 1)
    BY <1>1
  <2> QED
    BY <1>1, <2>1, <2>2
<1>5. ASSUME NEW i \in 1..(n + 1), NEW j \in 1..(n + 1), r[i].task = r[j].task
      PROVE  i = j
  <2>1. CASE i \in 1..n /\ j \in 1..n
    BY <1>1, <1>5, <2>1 DEF Lists
  <2>2. ASSUME NEW k \in 1..n, r[k].task = r[n + 1].task PROVE FALSE
    BY <1>1, <2>2 DEF Lists
  <2> QED
    BY <1>2, <1>5, <2>1, <2>2
<1> QED
  BY <1>1, <1>3, <1>4, <1>5 DEF Lists, r

LEMMA ListsTail ==
  ASSUME NEW E, NEW q \in Seq(E), q # <<>>, NEW T, Lists(q, T)
  PROVE  /\ Lists(Tail(q), T \ {Head(q).task})
         /\ Head(q).task \in T
<1> DEFINE r == Tail(q)
           n == Len(q)
<1>1. /\ n \in Nat \ {0} /\ Len(r) = n - 1
      /\ \A i \in 1..(n - 1) : r[i] = q[i + 1]
      /\ Head(q) = q[1]
  BY TailAt
<1> HIDE DEF r
<1>2. \A i \in 1..(n - 1) : i + 1 \in 1..n /\ i + 1 # 1
  BY <1>1
<1>3. 1 \in 1..n /\ Head(q).task \in T
  BY <1>1 DEF Lists
<1>4. ASSUME NEW i \in 1..(n - 1)
      PROVE  r[i].task \in T \ {Head(q).task}
  <2>1. r[i] = q[i + 1] /\ q[i + 1].task \in T
    BY <1>1, <1>2 DEF Lists
  <2>2. q[i + 1].task # q[1].task
    BY <1>2, <1>3, <1>1 DEF Lists
  <2> QED
    BY <1>1, <2>1, <2>2
<1>5. ASSUME NEW t \in T \ {Head(q).task}
      PROVE  \E i \in 1..(n - 1) : r[i].task = t
  <2>1. PICK i \in 1..n : q[i].task = t
    BY DEF Lists
  <2>2. i # 1
    BY <1>1, <2>1
  <2>3. i - 1 \in 1..(n - 1) /\ (i - 1) + 1 = i
    BY <1>1, <2>2
  <2> QED
    BY <1>1, <2>1, <2>3
<1>6. ASSUME NEW i \in 1..(n - 1), NEW j \in 1..(n - 1), r[i].task = r[j].task
      PROVE  i = j
  <2>1. i + 1 \in 1..n /\ j + 1 \in 1..n /\ q[i + 1].task = q[j + 1].task
    BY <1>1, <1>2, <1>6
  <2>2. i + 1 = j + 1
    BY <2>1 DEF Lists
  <2> QED
    BY <2>2
<1> QED
  BY <1>1, <1>3, <1>4, <1>5, <1>6 DEF Lists, r

LEMMA ListsPrepend ==
  ASSUME NEW E, NEW q \in Seq(E), NEW e \in E, NEW T, Lists(q, T), e.task \notin T
  PROVE  Lists(<<e>> \o q, T \cup {e.task})
<1> DEFINE r == <<e>> \o q
           n == Len(q)
<1>1. /\ Len(r) = n + 1 /\ n \in Nat
      /\ r[1] = e
      /\ \A i \in 1..n : r[i + 1] = q[i]
  BY PrependAt
<1> HIDE DEF r
<1>2. \A i \in 1..(n + 1) : i = 1 \/ (i - 1 \in 1..n /\ r[i] = q[i - 1])
  <2> TAKE i \in 1..(n + 1)
  <2>1. i = 1 \/ (i - 1 \in 1..n /\ (i - 1) + 1 = i)
    BY <1>1
  <2> QED
    BY <1>1, <2>1
<1>3. \A i \in 1..(n + 1) : r[i].task \in T \cup {e.task}
  BY <1>1, <1>2 DEF Lists
<1>4. \A t \in T \cup {e.task} : \E i \in 1..(n + 1) : r[i].task = t
  <2>1. \A t \in T : \E i \in 1..n : r[i + 1].task = t
    BY <1>1 DEF Lists
  <2>2. 1 \in 1..(n + 1) /\ \A i \in 1..n : i + 1 \in 1..(n + 1)
    BY <1>1
  <2> QED
    BY <1>1, <2>1, <2>2
<1>5. ASSUME NEW i \in 1..(n + 1), NEW j \in 1..(n + 1), r[i].task = r[j].task
      PROVE  i = j
  <2>0. ASSUME NEW k \in 1..(n + 1), k # 1, r[k].task = r[1].task PROVE FALSE
    BY <1>1, <1>2, <2>0 DEF Lists
  <2>1. CASE i = 1
    BY <1>5, <2>0, <2>1
  <2>2. CASE j = 1
    BY <1>5, <2>0, <2>2
  <2>3. CASE i # 1 /\ j # 1
    <3>1. i - 1 \in 1..n /\ j - 1 \in 1..n /\ q[i - 1].task = q[j - 1].task
      BY <1>2, <1>5, <2>3
    <3>2. i - 1 = j - 1
      BY <3>1 DEF Lists
    <3> QED
      BY <3>2
  <2> QED
    BY <2>1, <2>2, <2>3
<1> QED
  BY <1>1, <1>3, <1>4, <1>5 DEF Lists, r

\* Other callbacks do not matter, and so do those not in the queue.
LEMMA OrderedWeaken ==
  ASSUME NEW q, NEW D, NEW F, Ordered(q, D),
         \A i \in 1..Len(q) : q[i].task \in F => q[i].task \in D
  PROVE  Ordered(q, F)
  BY DEF Ordered

LEMMA OrderedAppend ==
  ASSUME NEW q \in Seq(Entry), NEW e \in Entry, NEW D, Ordered(q, D),
         e.task \in D =>
           /\ e.hops = 1
           /\ ~Precedes(e.task, e.task)
           /\ \A i \in 1..Len(q) :
                q[i].task \in D => ~Precedes(e.task, q[i].task)
  PROVE  Ordered(Append(q, e), D)
<1> DEFINE r == Append(q, e)
           n == Len(q)
<1>1. /\ Len(r) = n + 1 /\ n \in Nat
      /\ \A i \in 1..n : r[i] = q[i]
      /\ r[n + 1] = e
  BY AppendAt
<1>2. \A i \in 1..n : q[i].hops \in Nat
  BY EntryAt
<1> HIDE DEF r
<1>3. \A i \in 1..(n + 1) : i \in 1..n \/ i = n + 1
  BY <1>1
<1>4. \A i \in 1..(n + 1) : r[i].task \in D => r[i].hops <= 1
  BY <1>1, <1>3 DEF Ordered
<1>5. ASSUME NEW i \in 1..(n + 1), NEW j \in 1..(n + 1),
             r[i].task \in D, r[j].task \in D, Precedes(r[i].task, r[j].task)
      PROVE  r[i].hops < r[j].hops \/ (r[i].hops = r[j].hops /\ i < j)
  <2>1. CASE i \in 1..n /\ j \in 1..n
    BY <1>1, <1>5, <2>1 DEF Ordered
  <2>2. CASE i \in 1..n /\ j = n + 1
    <3>1. r[i].hops <= 1 /\ r[i].hops \in Nat /\ r[j].hops = 1 /\ i < j
      BY <1>1, <1>2, <1>4, <1>5, <2>2
    <3> QED
      BY <3>1
  <2>3. CASE i = n + 1
    BY <1>1, <1>3, <1>5, <2>3
  <2> QED
    BY <1>3, <2>1, <2>2, <2>3
<1> QED
  BY <1>1, <1>4, <1>5 DEF Ordered, r

LEMMA OrderedTail ==
  ASSUME NEW q \in Seq(Entry), q # <<>>, NEW D, Ordered(q, D)
  PROVE  Ordered(Tail(q), D)
<1> DEFINE r == Tail(q)
           n == Len(q)
<1>1. /\ n \in Nat \ {0} /\ Len(r) = n - 1
      /\ \A i \in 1..(n - 1) : r[i] = q[i + 1]
  BY TailAt
<1> HIDE DEF r
<1>2. \A i \in 1..(n - 1) : i + 1 \in 1..n
  BY <1>1
<1>3. \A i \in 1..(n - 1) : r[i].task \in D => r[i].hops <= 1
  BY <1>1, <1>2 DEF Ordered
<1>4. ASSUME NEW i \in 1..(n - 1), NEW j \in 1..(n - 1),
             r[i].task \in D, r[j].task \in D, Precedes(r[i].task, r[j].task)
      PROVE  r[i].hops < r[j].hops \/ (r[i].hops = r[j].hops /\ i < j)
  <2>1. \/ q[i + 1].hops < q[j + 1].hops
        \/ q[i + 1].hops = q[j + 1].hops /\ i + 1 < j + 1
    BY <1>1, <1>2, <1>4 DEF Ordered
  <2> QED
    BY <1>1, <2>1
<1> QED
  BY <1>1, <1>3, <1>4 DEF Ordered, r

LEMMA OrderedHop ==
  ASSUME NEW q \in Seq(Entry), q # <<>>, Head(q).hops > 0, NEW D, Ordered(q, D)
  PROVE  Ordered(Append(Tail(q), [Head(q) EXCEPT !.hops = @ - 1]), D)
<1> DEFINE e == [Head(q) EXCEPT !.hops = @ - 1]
           r == Append(Tail(q), e)
           n == Len(q)
<1>1. /\ n \in Nat \ {0} /\ Tail(q) \in Seq(Entry) /\ Len(Tail(q)) = n - 1
      /\ \A i \in 1..(n - 1) : Tail(q)[i] = q[i + 1]
      /\ Head(q) = q[1] /\ Head(q) \in Entry
  BY TailAt
<1>2. e \in Entry /\ e.task = q[1].task /\ e.hops = q[1].hops - 1
  BY <1>1, OneHopLess
<1>3. /\ Len(r) = n
      /\ \A i \in 1..(n - 1) : r[i] = q[i + 1]
      /\ r[n] = e
  BY <1>1, <1>2, AppendAt
<1>4. \A i \in 1..n : q[i].hops \in Nat
  BY EntryAt
<1> HIDE DEF r, e
<1>5. /\ \A i \in 1..n : i \in 1..(n - 1) \/ i = n
      /\ \A i \in 1..(n - 1) : i + 1 \in 1..n
      /\ 1 \in 1..n /\ n \in 1..n
  <2>1. n \in Nat \ {0}
    BY <1>1
  <2> HIDE DEF n
  <2> QED
    BY <2>1
<1>6. \A i \in 1..n : r[i].task \in D => r[i].hops <= 1
  <2>1. \A i \in 1..(n - 1) : r[i].task \in D => r[i].hops <= 1
    BY <1>3, <1>5 DEF Ordered
  <2>2. r[n].task \in D => r[n].hops <= 1
    <3>1. r[n].task \in D => q[1].hops <= 1
      BY <1>2, <1>3, <1>5 DEF Ordered
    <3> QED
      BY <1>2, <1>3, <1>4, <1>5, <3>1
  <2> QED
    BY <1>5, <2>1, <2>2
<1>7. ASSUME NEW i \in 1..n, NEW j \in 1..n,
             r[i].task \in D, r[j].task \in D, Precedes(r[i].task, r[j].task)
      PROVE  r[i].hops < r[j].hops \/ (r[i].hops = r[j].hops /\ i < j)
  <2>1. CASE i \in 1..(n - 1) /\ j \in 1..(n - 1)
    <3>1. \/ q[i + 1].hops < q[j + 1].hops
          \/ q[i + 1].hops = q[j + 1].hops /\ i + 1 < j + 1
      <4>1. /\ i + 1 \in 1..n /\ j + 1 \in 1..n
            /\ r[i] = q[i + 1] /\ r[j] = q[j + 1]
        BY <1>3, <1>5, <2>1
      <4> QED
        BY <1>7, <4>1 DEF Ordered
    <3> QED
      BY <1>1, <1>3, <2>1, <3>1
  <2>2. CASE i \in 1..(n - 1) /\ j = n
    <3>1. \/ q[i + 1].hops < q[1].hops
          \/ q[i + 1].hops = q[1].hops /\ i + 1 < 1
      BY <1>2, <1>3, <1>5, <1>7, <2>2 DEF Ordered
    <3>2. q[i + 1].hops < q[1].hops
      BY <2>2, <3>1
    <3>3. q[i + 1].hops \in Nat /\ q[1].hops \in Nat
      BY <1>4, <1>5, <2>2
    <3>4. r[i].hops = q[i + 1].hops
      BY <1>3, <2>2
    <3>5. r[j].hops = q[1].hops - 1
      BY <1>2, <1>3, <2>2
    <3>6. /\ r[i].hops \in Int /\ r[j].hops \in Int
          /\ r[i].hops <= r[j].hops
      BY <3>2, <3>3, <3>4, <3>5
    <3>7. i < j
      BY <2>2
    <3> QED
      BY <3>6, <3>7
  <2>3. CASE i = n /\ j \in 1..(n - 1)
    <3>1. \/ q[1].hops < q[j + 1].hops
          \/ q[1].hops = q[j + 1].hops /\ 1 < j + 1
      BY <1>2, <1>3, <1>5, <1>7, <2>3 DEF Ordered
    <3>2. q[j + 1].hops \in Nat /\ q[1].hops \in Nat
      BY <1>4, <1>5, <2>3
    <3>3. r[j].hops = q[j + 1].hops /\ r[i].hops = q[1].hops - 1
      BY <1>2, <1>3, <2>3
    <3> QED
      BY <3>1, <3>2, <3>3
  <2>4. CASE i = n /\ j = n
    <3>1. \/ q[1].hops < q[1].hops
          \/ q[1].hops = q[1].hops /\ 1 < 1
      BY <1>2, <1>3, <1>5, <1>7, <2>4 DEF Ordered
    <3>2. q[1].hops \in Nat
      BY <1>4, <1>5
    <3> QED
      BY <3>1, <3>2
  <2> QED
    BY <1>5, <2>1, <2>2, <2>3, <2>4
<1> QED
  BY <1>3, <1>6, <1>7 DEF Ordered, r, e

LEMMA OrderedPrepend ==
  ASSUME NEW q \in Seq(Entry), NEW e \in Entry, NEW D, Ordered(q, D), e.task \notin D
  PROVE  Ordered(<<e>> \o q, D)
<1> DEFINE r == <<e>> \o q
           n == Len(q)
<1>1. /\ Len(r) = n + 1 /\ n \in Nat
      /\ r[1] = e
      /\ \A i \in 1..n : r[i + 1] = q[i]
  BY PrependAt
<1> HIDE DEF r
<1>2. \A i \in 1..(n + 1) : i = 1 \/ (i - 1 \in 1..n /\ r[i] = q[i - 1])
  <2> TAKE i \in 1..(n + 1)
  <2>1. i = 1 \/ (i - 1 \in 1..n /\ (i - 1) + 1 = i)
    BY <1>1
  <2> QED
    BY <1>1, <2>1
<1>3. \A i \in 1..(n + 1) : r[i].task \in D => r[i].hops <= 1
  BY <1>1, <1>2 DEF Ordered
<1>4. ASSUME NEW i \in 1..(n + 1), NEW j \in 1..(n + 1),
             r[i].task \in D, r[j].task \in D, Precedes(r[i].task, r[j].task)
      PROVE  r[i].hops < r[j].hops \/ (r[i].hops = r[j].hops /\ i < j)
  <2>1. i # 1 /\ j # 1
    BY <1>1, <1>4
  <2>2. /\ i - 1 \in 1..n /\ r[i] = q[i - 1]
        /\ j - 1 \in 1..n /\ r[j] = q[j - 1]
    BY <1>2, <2>1
  <2>3. \/ q[i - 1].hops < q[j - 1].hops
        \/ q[i - 1].hops = q[j - 1].hops /\ i - 1 < j - 1
    BY <1>4, <2>2 DEF Ordered
  <2> QED
    BY <2>2, <2>3
<1> QED
  BY <1>1, <1>3, <1>4 DEF Ordered, r
-----------------------------------------------------------------------------
(***************************************************************************)
(* Tasks and their scripts.                                                *)
(***************************************************************************)
LEMMA TaskCases ==
  /\ Main \in Task /\ ~OfClient(Main)
  /\ Signal \in Task /\ ~OfClient(Signal)
  /\ Main # Signal
  /\ \A t \in Task : OfClient(t) => /\ t = Handler(t.of, t.n)
                                   /\ t.n \in 0..MaxEvents[t.of]
  /\ \A t \in Task : OfClient(t) \/ t = Main \/ t = Signal
  BY DEF Task, Main, Signal, OfClient, Handler

LEMMA HandlerFacts ==
  \A c \in Client :
    /\ MaxEvents[c] \in Nat
    /\ ConnectTask(c) = Handler(c, 0)
    /\ \A n \in 0..MaxEvents[c] : Handler(c, n) \in Task
    /\ \A n : /\ Handler(c, n).of = c
             /\ Handler(c, n).n = n
             /\ OfClient(Handler(c, n))
             /\ Handler(c, n) # Main
             /\ Handler(c, n) # Signal
  BY DEF Task, Main, Signal, OfClient, Handler, ConnectTask

LEMMA ConnectFacts ==
  /\ \A c \in Client : /\ ConnectTask(c) \in Task
                       /\ ConnectTask(c).of = c
                       /\ ConnectTask(c).n = 0
                       /\ OfClient(ConnectTask(c))
                       /\ IsConnect(ConnectTask(c))
                       /\ ConnectTask(c) # Main
                       /\ ConnectTask(c) # Signal
  /\ \A t \in Task : IsConnect(t) => t = ConnectTask(t.of) /\ t.of \in Client
  /\ ~IsConnect(Main) /\ ~IsConnect(Signal)
  /\ \A c \in Client : \A n : n # 0 => ~IsConnect(Handler(c, n))
<1>1. \A c \in Client : 0 \in 0..MaxEvents[c]
  OBVIOUS
<1> QED
  <2>1. \A c \in Client : /\ ConnectTask(c).of = c
                          /\ ConnectTask(c).n = 0
    BY DEF ConnectTask
  <2>2. \A t \in Task : IsConnect(t) => t = ConnectTask(t.of) /\ t.of \in Client
    BY TaskCases DEF IsConnect, OfClient, ConnectTask, Handler
  <2>3. \A c \in Client : \A m : m # 0 => ~IsConnect(Handler(c, m))
    BY DEF IsConnect, Handler
  <2>4. ~IsConnect(Main) /\ ~IsConnect(Signal)
    BY TaskCases DEF IsConnect
  <2>5. \A c \in Client : /\ ConnectTask(c) \in Task
                          /\ ConnectTask(c) # Main
                          /\ ConnectTask(c) # Signal
                          /\ OfClient(ConnectTask(c))
    BY <1>1, HandlerFacts
  <2> QED
    BY <2>1, <2>2, <2>3, <2>4, <2>5 DEF IsConnect

LEMMA RankType ==
  \A t \in Task : OfClient(t) => Rank(t) \in Nat
<1> SUFFICES ASSUME NEW t \in Task, OfClient(t) PROVE Rank(t) \in Nat
  OBVIOUS
<1>1. MaxEvents[t.of] \in Nat
  BY DEF OfClient
<1>2. t.n \in Nat
  BY <1>1, TaskCases
<1> QED
  BY <1>1, <1>2 DEF Rank

LEMMA ReceivedType ==
  ASSUME StreamOK, NEW c \in Client
  PROVE  /\ Received(c) \in Nat
         /\ Len(delivered[c]) \in Nat
         /\ delivered[c] = <<>> => Received(c) = 0
         /\ delivered[c] # <<>> => Len(delivered[c]) = Received(c) + 1
         /\ Received(c) <= MaxEvents[c]
<1>1. delivered[c] \in Seq([src : Client, kind : Kind \cup {Me}])
  BY DEF StreamOK
<1>2. /\ Len(delivered[c]) \in Nat
      /\ delivered[c] # <<>> => Len(delivered[c]) # 0
  BY <1>1, EmptySeq, LenProperties
<1>3. Len(sent[c]) \in Nat /\ MaxEvents[c] \in Nat
  BY LenProperties DEF StreamOK
<1> QED
  BY <1>2, <1>3 DEF Received, StreamOK

Op == Call \cup {"neonize", "idle"}

\* A handler has a script once its event was delivered.
Created(t) == OfClient(t) => t.n <= Received(t.of)

LEMMA CreatedTasks ==
  ASSUME StreamOK, HandlersOK, NEW t \in Task, state[t] # "new"
  PROVE  Created(t)
<1> SUFFICES ASSUME OfClient(t) PROVE t.n <= Received(t.of)
  BY DEF Created
<1>1. /\ t.of \in Client /\ t = Handler(t.of, t.n) /\ t.n \in Nat
      /\ t.n = 0 \/ t.n \in 1..MaxEvents[t.of]
      /\ Received(t.of) \in Nat
  BY TaskCases, ReceivedType DEF OfClient
<1>2. CASE t.n = 0
  BY <1>1, <1>2
<1>3. CASE t.n \in 1..MaxEvents[t.of]
  <2>1. state[t] = "new" <=> t.n > Received(t.of)
    BY <1>1, <1>3 DEF HandlersOK, HandlersOf
  <2> QED
    BY <1>1, <2>1
<1> QED
  BY <1>1, <1>2, <1>3

\* What the script of a created task looks like.
ScriptOK(t) ==
  /\ Script(t) \in Seq(Op)
  /\ Len(Script(t)) \in 0..MaxScript
  /\ IsConnect(t) => Len(Script(t)) = 1
  /\ \A i \in 1..Len(Script(t)) :
       /\ Script(t)[i] = "neonize" <=> IsConnect(t)
       /\ Script(t)[i] = "idle" => t = Main

LEMMA UpToMaxScript ==
  ASSUME NEW m \in Nat, m <= MaxScript
  PROVE  m \in 0..MaxScript
  BY DEF MaxScript

LEMMA CallScript ==
  ASSUME NEW k \in Kind
  PROVE  /\ handlerScript[k] \in Seq(Op)
         /\ Len(handlerScript[k]) \in 0..MaxScript
         /\ \A i \in 1..Len(handlerScript[k]) :
              handlerScript[k][i] # "neonize" /\ handlerScript[k][i] # "idle"
<1>1. handlerScript[k] \in Seq(Call) /\ Len(handlerScript[k]) <= MaxScript
  OBVIOUS
<1>2. Len(handlerScript[k]) \in Nat
  BY <1>1, LenProperties
<1>3. \A i \in 1..Len(handlerScript[k]) : handlerScript[k][i] \in Call
  BY <1>1, ElementOfSeq
<1>4. handlerScript[k] \in Seq(Op)
  BY <1>1 DEF Op
<1>5. \A i \in 1..Len(handlerScript[k]) :
        handlerScript[k][i] # "neonize" /\ handlerScript[k][i] # "idle"
  BY <1>3 DEF Call
<1>6. Len(handlerScript[k]) \in 0..MaxScript
  BY <1>1, <1>2, UpToMaxScript
<1> QED
  BY <1>4, <1>5, <1>6

LEMMA ScriptType ==
  ASSUME StreamOK, NEW t \in Task, Created(t)
  PROVE  ScriptOK(t)
<1>1. CASE t = Main
  <2>1. Script(t) = mainScript
    BY <1>1 DEF Script
  <2>2. mainScript \in Seq({"call", "stop_all", "idle"})
    OBVIOUS
  <2>3. mainScript \in Seq(Op) /\ Len(mainScript) \in Nat
    BY <2>2 DEF Op, Call
  <2>4. \A i \in 1..Len(mainScript) : mainScript[i] \in {"call", "stop_all", "idle"}
    BY <2>2, ElementOfSeq
  <2>5. Len(mainScript) \in 0..MaxScript
    BY <2>3, UpToMaxScript
  <2>6. \A i \in 1..Len(mainScript) : mainScript[i] # "neonize"
    BY <2>4
  <2> QED
    BY <1>1, <2>1, <2>3, <2>5, <2>6, ConnectFacts DEF ScriptOK
<1>2. CASE t = Signal
  <2>1. Script(t) = <<"stop_all">>
    BY <1>2, TaskCases DEF Script
  <2>2. <<"stop_all">> \in Seq(Op) /\ Len(<<"stop_all">>) = 1
        /\ \A i \in 1..1 : <<"stop_all">>[i] = "stop_all"
    BY DEF Op, Call
  <2> QED
    BY <1>2, <2>1, <2>2, ConnectFacts DEF ScriptOK, MaxScript
<1>3. CASE IsConnect(t)
  <2>1. Script(t) = <<"neonize">>
    BY <1>3, ConnectFacts DEF Script, IsConnect
  <2>2. <<"neonize">> \in Seq(Op) /\ Len(<<"neonize">>) = 1
        /\ \A i \in 1..1 : <<"neonize">>[i] = "neonize"
    BY DEF Op, Call
  <2> QED
    BY <1>3, <2>1, <2>2 DEF ScriptOK, MaxScript
<1>4. CASE OfClient(t) /\ ~IsConnect(t)
  <2> DEFINE c == t.of
             n == t.n
  <2>1. c \in Client /\ n \in 1..MaxEvents[c] /\ t = Handler(c, n)
    BY <1>4, TaskCases, HandlerFacts DEF IsConnect, OfClient
  <2>2. n <= Received(c)
    BY <2>1, HandlerFacts DEF Created
  <2>3. n + 1 \in 2..Len(delivered[c])
    BY <2>1, <2>2, ReceivedType
  <2>4. delivered[c][n + 1].kind \in Kind
    BY <2>1, <2>3 DEF StreamOK
  <2>5. Script(t) = handlerScript[delivered[c][n + 1].kind]
    BY <1>4, <2>1, HandlerFacts DEF Script, IsConnect
  <2> HIDE DEF c, n
  <2> QED
    BY <1>4, <2>4, <2>5, CallScript, TaskCases DEF ScriptOK
<1> QED
  BY <1>1, <1>2, <1>3, <1>4, TaskCases

-----------------------------------------------------------------------------
LEMMA InitInv == Init => IInv
<1> SUFFICES ASSUME Init PROVE IInv
  OBVIOUS
<1>1. TypeOK
  <2>1. Cardinality(running) <= Workers
    BY FS_EmptySet DEF Init
  <2> QED
    BY <2>1 DEF TypeOK, Init, MaxScript
<1>2. StreamOK
  BY DEF StreamOK, Init, Go!Init, Received, Event
<1>3. FlagsOK
  BY DEF FlagsOK, Init, Go!Init
<1>4. Places
  BY FS_EmptySet DEF Places, Lists, Scheduled, Queued, Init
<1>5. JobsOK
  BY DEF JobsOK, Init
<1>6. ConnectOK
  BY ConnectFacts DEF ConnectOK, ConnectStage, InCall, Init, Go!Init
<1>7. HandlersOK
  BY HandlerFacts DEF HandlersOK, HandlersOf, Received, Init, Go!Init
<1>8. PosOK
  BY DEF PosOK, Init
<1>9. QueueOrder
  BY DEF QueueOrder, Ordered, Init
<1> QED
  BY <1>1, <1>2, <1>3, <1>4, <1>5, <1>6, <1>7, <1>8, <1>9 DEF IInv
-----------------------------------------------------------------------------
(***************************************************************************)
(* The places of the tasks, for each way in which a task moves.            *)
(***************************************************************************)
LEMMA QueueTypes ==
  ASSUME JobsOK
  PROVE  /\ ready \in Seq(OwnEntry)
         /\ ready \in Seq(Entry)
         /\ work \in Seq(OwnJob)
         /\ \A b \in OwnEntry : b \in Entry /\ b.task \in Task
         /\ \A j \in OwnJob : j \in JobType /\ j.task \in Task
<1>1. \A b \in OwnEntry : b \in Entry /\ b.task \in Task
  BY DEF OwnEntry, Entry
<1>2. \A j \in OwnJob : j \in JobType /\ j.task \in Task
  BY DEF OwnJob, JobType, Job
<1>3. ready \in Seq(OwnEntry) /\ work \in Seq(OwnJob)
  BY DEF JobsOK
<1>4. ready \in Seq(Entry)
  BY <1>1, <1>3
<1> QED
  BY <1>1, <1>2, <1>3, <1>4

\* The loop is told of a task.
LEMMA SchedulePlaces ==
  ASSUME JobsOK, Places, state \in [Task -> TaskState],
         NEW b \in Entry, state[b.task] \notin {"scheduled", "awaiting"},
         state' = [state EXCEPT ![b.task] = "scheduled"],
         ready' = Append(ready, b) \/ ready' = <<b>> \o ready,
         UNCHANGED <<work, running>>
  PROVE  Places'
<1>1. b.task \in Task
  BY DEF Entry
<1>2. Scheduled' = Scheduled \cup {b.task} /\ b.task \notin Scheduled
  BY <1>1 DEF Scheduled
<1>3. Queued' = Queued
  BY <1>1 DEF Queued, InCall
<1>4. Lists(ready', Scheduled')
  <2>1. ready \in Seq(Entry) /\ Lists(ready, Scheduled)
    BY QueueTypes DEF Places
  <2>2. Lists(Append(ready, b), Scheduled \cup {b.task})
    BY <1>2, <2>1, ListsAppend
  <2>3. Lists(<<b>> \o ready, Scheduled \cup {b.task})
    BY <1>2, <2>1, ListsPrepend
  <2> QED
    BY <1>2, <2>2, <2>3
<1>5. \A j \in running : state'[j.task] = "awaiting"
  <2> SUFFICES ASSUME NEW j \in running PROVE state'[j.task] = "awaiting"
    OBVIOUS
  <2>1. j.task \in Task /\ state[j.task] = "awaiting"
    BY QueueTypes DEF JobsOK, Places
  <2> QED
    BY <1>1, <2>1
<1> QED
  BY <1>3, <1>4, <1>5 DEF Places

\* The head of the queue goes to its end.
LEMMA HopPlaces ==
  ASSUME JobsOK, Places, ready # <<>>, NEW b \in Entry,
         b.task = Head(ready).task, ready' = Append(Tail(ready), b),
         UNCHANGED <<state, work, running>>
  PROVE  Places'
<1>1. Scheduled' = Scheduled /\ Queued' = Queued
  BY DEF Scheduled, Queued, InCall
<1>2. ready \in Seq(Entry) /\ Tail(ready) \in Seq(Entry)
  BY QueueTypes, TailAt
<1>3. /\ Lists(Tail(ready), Scheduled \ {b.task})
      /\ b.task \in Scheduled
  BY <1>2, ListsTail DEF Places
<1>4. Lists(Append(Tail(ready), b), (Scheduled \ {b.task}) \cup {b.task})
  BY <1>2, <1>3, ListsAppend
<1>5. (Scheduled \ {b.task}) \cup {b.task} = Scheduled
  BY <1>3
<1> QED
  BY <1>1, <1>4, <1>5 DEF Places

\* The head of the queue is run, and its task is not to be resumed.
LEMMA LeavePlaces ==
  ASSUME JobsOK, Places, state \in [Task -> TaskState], ready # <<>>,
         ready' = Tail(ready),
         state' = [state EXCEPT ![Head(ready).task] = "done"]
         \/ state' = [state EXCEPT ![Head(ready).task] = "idle"],
         UNCHANGED <<work, running>>
  PROVE  Places'
<1> DEFINE t == Head(ready).task
<1>1. /\ Lists(Tail(ready), Scheduled \ {t})
      /\ t \in Scheduled
  BY QueueTypes, ListsTail DEF Places
<1>2. t \in Task /\ state[t] = "scheduled"
  BY <1>1 DEF Scheduled
<1>3. Scheduled' = Scheduled \ {t}
  BY <1>2 DEF Scheduled
<1>4. Queued' = Queued
  BY <1>2 DEF Queued, InCall
<1>5. \A j \in running : state'[j.task] = "awaiting"
  <2> SUFFICES ASSUME NEW j \in running PROVE state'[j.task] = "awaiting"
    OBVIOUS
  <2>1. j.task \in Task /\ state[j.task] = "awaiting"
    BY QueueTypes DEF JobsOK, Places
  <2> QED
    BY <1>2, <2>1
<1> QED
  BY <1>1, <1>3, <1>4, <1>5 DEF Places

\* The task of connect ends and wakes the application.
LEMMA WakePlaces ==
  ASSUME JobsOK, Places, state \in [Task -> TaskState], ready # <<>>,
         Head(ready).task # Main, state[Main] = "idle",
         NEW b \in Entry, b.task = Main,
         ready' = Append(Tail(ready), b),
         state' = [state EXCEPT ![Head(ready).task] = "done",
                                ![Main] = "scheduled"],
         UNCHANGED <<work, running>>
  PROVE  Places'
<1> DEFINE t == Head(ready).task
<1>1. ready \in Seq(Entry) /\ Tail(ready) \in Seq(Entry)
  BY QueueTypes, TailAt
<1>2. /\ Lists(Tail(ready), Scheduled \ {t})
      /\ t \in Scheduled
  BY <1>1, ListsTail DEF Places
<1>3. t \in Task /\ state[t] = "scheduled" /\ Main \in Task
  BY <1>2, TaskCases DEF Scheduled
<1>4. Main \notin Scheduled
  BY DEF Scheduled
<1>5. Lists(Append(Tail(ready), b), (Scheduled \ {t}) \cup {Main})
  BY <1>1, <1>2, <1>4, ListsAppend
<1>6. Scheduled' = (Scheduled \ {t}) \cup {Main}
  BY <1>3 DEF Scheduled
<1>7. Queued' = Queued
  BY <1>3 DEF Queued, InCall
<1>8. \A j \in running : state'[j.task] = "awaiting"
  <2> SUFFICES ASSUME NEW j \in running PROVE state'[j.task] = "awaiting"
    OBVIOUS
  <2>1. j.task \in Task /\ state[j.task] = "awaiting"
    BY QueueTypes DEF JobsOK, Places
  <2> QED
    BY <1>3, <2>1
<1> QED
  BY <1>5, <1>6, <1>7, <1>8 DEF Places

\* The head of the queue is run up to its next call.
LEMMA AwaitPlaces ==
  ASSUME JobsOK, Places, state \in [Task -> TaskState], ready # <<>>,
         NEW j \in OwnJob, j.task = Head(ready).task,
         ready' = Tail(ready),
         work' = Append(work, j),
         state' = [state EXCEPT ![j.task] = "awaiting"],
         UNCHANGED running
  PROVE  Places'
<1> DEFINE t == j.task
<1>1. /\ Lists(Tail(ready), Scheduled \ {t})
      /\ t \in Scheduled
  BY QueueTypes, ListsTail DEF Places
<1>2. t \in Task /\ state[t] = "scheduled"
  BY <1>1 DEF Scheduled
<1>3. ~InCall(t)
  BY <1>2 DEF Places, InCall
<1>4. Scheduled' = Scheduled \ {t}
  BY <1>2 DEF Scheduled
<1>5. Queued' = Queued \cup {t} /\ t \notin Queued
  BY <1>2, <1>3 DEF Queued, InCall
<1>6. Lists(work', Queued')
  BY <1>5, QueueTypes, ListsAppend DEF Places
<1>7. \A k \in running : state'[k.task] = "awaiting"
  <2> SUFFICES ASSUME NEW k \in running PROVE state'[k.task] = "awaiting"
    OBVIOUS
  <2>1. k.task \in Task /\ state[k.task] = "awaiting"
    BY QueueTypes DEF JobsOK, Places
  <2> QED
    BY <1>2, <2>1
<1> QED
  BY <1>1, <1>4, <1>6, <1>7 DEF Places

\* A worker takes the next call.
LEMMA TakePlaces ==
  ASSUME JobsOK, Places, work # <<>>,
         work' = Tail(work),
         running' = running \cup {Head(work)},
         UNCHANGED <<ready, state>>
  PROVE  Places'
<1> DEFINE h == Head(work)
<1>1. /\ Lists(Tail(work), Queued \ {h.task})
      /\ h.task \in Queued
  BY QueueTypes, ListsTail DEF Places
<1>2. state[h.task] = "awaiting" /\ ~InCall(h.task)
  BY <1>1 DEF Queued
<1>3. Scheduled' = Scheduled
  BY DEF Scheduled
<1>4. Queued' = Queued \ {h.task}
  BY <1>2 DEF Queued, InCall
<1>5. \A j \in running' : state'[j.task] = "awaiting"
  BY <1>2 DEF Places
<1>6. \A j, k \in running' : j.task = k.task => j = k
  BY <1>2 DEF Places, InCall
<1>7. IsFiniteSet(running')
  BY FS_AddElement DEF Places
<1> QED
  BY <1>1, <1>3, <1>4, <1>5, <1>6, <1>7 DEF Places

\* A call ends and its task is handed to the loop.
LEMMA EndPlaces ==
  ASSUME JobsOK, Places, state \in [Task -> TaskState],
         NEW j \in running, NEW b \in Entry, b.task = j.task,
         running' = running \ {j},
         ready' = Append(ready, b),
         state' = [state EXCEPT ![j.task] = "scheduled"],
         UNCHANGED work
  PROVE  Places'
<1> DEFINE t == j.task
<1>1. t \in Task /\ state[t] = "awaiting" /\ InCall(t)
  BY QueueTypes DEF JobsOK, Places, InCall
<1>2. Scheduled' = Scheduled \cup {t} /\ t \notin Scheduled
  BY <1>1 DEF Scheduled
<1>3. Lists(ready', Scheduled')
  BY <1>2, QueueTypes, ListsAppend DEF Places
<1>4. Queued' = Queued
  <2>1. \A u \in Task \ {t} : InCall(u)' <=> InCall(u)
    BY DEF InCall
  <2>2. \A u \in Task \ {t} : state'[u] = state[u]
    BY <1>1
  <2>3. state'[t] = "scheduled"
    BY <1>1
  <2> HIDE DEF t
  <2> QED
    BY <1>1, <2>1, <2>2, <2>3 DEF Queued
<1>5. \A k \in running' : state'[k.task] = "awaiting"
  <2> SUFFICES ASSUME NEW k \in running, k # j
               PROVE  state'[k.task] = "awaiting"
    OBVIOUS
  <2>1. k.task \in Task /\ state[k.task] = "awaiting" /\ k.task # t
    BY QueueTypes DEF JobsOK, Places
  <2> QED
    BY <1>1, <2>1
<1>6. IsFiniteSet(running')
  BY FS_RemoveElement DEF Places
<1> QED
  BY <1>3, <1>4, <1>5, <1>6 DEF Places
-----------------------------------------------------------------------------
(***************************************************************************)
(* What is left of the invariant when a step does not touch it.            *)
(***************************************************************************)
LEMMA SameStream ==
  ASSUME StreamOK, FlagsOK, UNCHANGED <<sent, delivered, me, connected>>
  PROVE  StreamOK' /\ FlagsOK'
  BY DEF StreamOK, FlagsOK, Received

LEMMA SameScript ==
  ASSUME UNCHANGED delivered, NEW t
  PROVE  Script(t)' = Script(t)
  BY DEF Script

LEMMA SameQueues ==
  ASSUME Places, JobsOK, UNCHANGED <<state, ready, work, running>>
  PROVE  Places' /\ JobsOK'
  BY DEF Places, Lists, Scheduled, Queued, InCall, JobsOK

LEMMA SameTasks ==
  ASSUME HandlersOK, PosOK, QueueOrder,
         UNCHANGED <<delivered, started, state, pos, ready>>
  PROVE  HandlersOK' /\ PosOK' /\ QueueOrder'
<1>1. HandlersOK'
  BY DEF HandlersOK, HandlersOf, Received
<1>2. PosOK'
  BY SameScript DEF PosOK
<1>3. QueueOrder'
  BY DEF QueueOrder, Ordered, Due
<1> QED
  BY <1>1, <1>2, <1>3

\* The queues' types follow from what their entries are.
LEMMA TypeFrame ==
  ASSUME JobsOK', Places', Cardinality(running') <= Workers
  PROVE  /\ ready' \in Seq([task : Task, hops : 0..2, ok : BOOLEAN])
         /\ work' \in Seq(JobType)
         /\ running' \subseteq JobType
<1>1. \A b \in OwnEntry : b \in [task : Task, hops : 0..2, ok : BOOLEAN]
  BY DEF OwnEntry, Entry
<1>2. \A j \in OwnJob : j \in JobType
  BY DEF OwnJob
<1>3. /\ ready' \in Seq(OwnEntry)
      /\ work' \in Seq(OwnJob)
      /\ running' \subseteq OwnJob
  BY DEF JobsOK
<1> HIDE DEF JobsOK, Places
<1>4. ready' \in Seq([task : Task, hops : 0..2, ok : BOOLEAN])
  BY <1>1, <1>3, SeqSubset
<1>5. work' \in Seq(JobType)
  BY <1>2, <1>3, SeqSubset
<1> QED
  BY <1>2, <1>3, <1>4, <1>5

-----------------------------------------------------------------------------
(***************************************************************************)
(* The application.                                                        *)
(***************************************************************************)

\* The loop is told of a task that has not run and whose order is free.
LEMMA NewTask ==
  ASSUME IInv, NEW b \in OwnEntry, ~OfClient(b.task) \/ IsConnect(b.task),
         state[b.task] = "new",
         state' = [state EXCEPT ![b.task] = "scheduled"],
         ready' = Append(ready, b) \/ ready' = <<b>> \o ready,
         UNCHANGED <<goVars, phase, me, connected, pos, work, running, started>>
  PROVE  /\ StreamOK' /\ FlagsOK' /\ Places' /\ JobsOK' /\ ConnectOK'
         /\ HandlersOK' /\ PosOK' /\ QueueOrder'
<1> DEFINE t == b.task
<1>1. StreamOK /\ FlagsOK /\ Places /\ JobsOK /\ ConnectOK
      /\ HandlersOK /\ PosOK /\ QueueOrder /\ state \in [Task -> TaskState]
  BY DEF IInv, TypeOK, TaskState
<1>2. /\ b \in Entry /\ t \in Task
      /\ ready \in Seq(Entry) /\ ready \in Seq(OwnEntry)
      /\ pos[t] = 0
  BY <1>1, QueueTypes DEF PosOK
<1>3. UNCHANGED <<sent, delivered>>
  BY DEF goVars
<1>4. StreamOK' /\ FlagsOK'
  BY <1>1, <1>3, SameStream
<1>5. Places'
  BY <1>1, <1>2, SchedulePlaces
<1>6. JobsOK'
  <2>1. Append(ready, b) \in Seq(OwnEntry) /\ <<b>> \o ready \in Seq(OwnEntry)
    BY <1>2, AppendAt, PrependAt
  <2> QED
    BY <1>1, <2>1 DEF JobsOK
<1>7. \A u \in Task : state'[u] = IF u = t THEN "scheduled" ELSE state[u]
  BY <1>1, <1>2
<1> HIDE DEF t
<1>8. ConnectOK'
  <2> SUFFICES ASSUME NEW c \in Client PROVE ConnectStage(c)'
    BY DEF ConnectOK
  <2> QED
    BY <1>1, <1>2, <1>3, <1>7, ConnectFacts DEF ConnectOK, ConnectStage, InCall, Received
<1>9. HandlersOK'
  <2>1. \A c \in Client : \A n \in 1..MaxEvents[c] :
          Handler(c, n) \in Task /\ Handler(c, n) # t
    BY HandlerFacts, ConnectFacts DEF t
  <2> QED
    BY <1>1, <1>3, <1>7, <2>1 DEF HandlersOK, HandlersOf, Received
<1>10. PosOK'
  <2> SUFFICES ASSUME NEW u \in Task
               PROVE  /\ state'[u] = "new" => pos[u] = 0
                      /\ state'[u] \in {"scheduled", "awaiting", "idle"}
                           => pos[u] <= Len(Script(u))
    BY <1>3, SameScript DEF PosOK
  <2>1. CASE u = t
    <3>1. Created(t)
      BY <1>1, <1>2, ReceivedType DEF Created, IsConnect, OfClient, t
    <3>2. Len(Script(t)) \in Nat
      BY <1>1, <1>2, <3>1, ScriptType DEF ScriptOK, MaxScript
    <3> QED
      BY <1>2, <1>7, <2>1, <3>2
  <2>2. CASE u # t
    BY <1>1, <1>7, <2>2 DEF PosOK
  <2> QED
    BY <2>1, <2>2
<1>11. QueueOrder'
  <2>1. Due' = Due
    BY DEF Due
  <2>2. t \notin Due
    BY <1>2 DEF Due, IsConnect, t
  <2>3. Ordered(Append(ready, b), Due) /\ Ordered(<<b>> \o ready, Due)
    BY <1>1, <1>2, <2>2, OrderedAppend, OrderedPrepend DEF QueueOrder, t
  <2> QED
    BY <2>1, <2>3 DEF QueueOrder
<1> QED
  BY <1>4, <1>5, <1>6, <1>8, <1>9, <1>10, <1>11
LEMMA ConnectInv ==
  ASSUME IInv, NEW c \in Client, Connect(c)
  PROVE  IInv'
<1> DEFINE b == Callback(ConnectTask(c), 0, TRUE)
<1>1. /\ b.task = ConnectTask(c)
      /\ b \in OwnEntry
      /\ IsConnect(b.task)
  BY ConnectFacts DEF Callback, OwnEntry, Entry
<1>2. /\ StreamOK' /\ FlagsOK' /\ Places' /\ JobsOK' /\ ConnectOK'
      /\ HandlersOK' /\ PosOK' /\ QueueOrder'
  <2> HIDE DEF b
  <2> QED
    BY <1>1, NewTask DEF Connect, Connects, clientVars, b
<1>3. TypeOK'
  BY <1>2, TypeFrame, ConnectFacts
  DEF IInv, TypeOK, Connect, goVars, stopVars
<1> QED
  BY <1>2, <1>3 DEF IInv

LEMMA GoOnInv ==
  ASSUME IInv, GoOn
  PROVE  IInv'
<1> DEFINE b == Callback(Main, 0, TRUE)
<1>1. /\ b.task = Main
      /\ b \in OwnEntry
      /\ ~OfClient(b.task)
  BY TaskCases DEF Callback, OwnEntry, Entry
<1>2. /\ StreamOK' /\ FlagsOK' /\ Places' /\ JobsOK' /\ ConnectOK'
      /\ HandlersOK' /\ PosOK' /\ QueueOrder'
  <2> HIDE DEF b
  <2> QED
    BY <1>1, NewTask DEF GoOn, clientVars, b
<1>3. TypeOK'
  BY <1>2, TypeFrame, TaskCases
  DEF IInv, TypeOK, GoOn, goVars, stopVars, clientVars
<1> QED
  BY <1>2, <1>3 DEF IInv

LEMMA InterruptInv ==
  ASSUME IInv, Interrupt
  PROVE  IInv'
<1> DEFINE b == Callback(Signal, 1, TRUE)
<1>1. /\ b.task = Signal
      /\ b \in OwnEntry
      /\ ~OfClient(b.task)
  BY TaskCases DEF Callback, OwnEntry, Entry
<1>2. /\ StreamOK' /\ FlagsOK' /\ Places' /\ JobsOK' /\ ConnectOK'
      /\ HandlersOK' /\ PosOK' /\ QueueOrder'
  <2> HIDE DEF b
  <2> QED
    BY <1>1, NewTask DEF Interrupt, clientVars, b
<1>3. TypeOK'
  BY <1>2, TypeFrame, TaskCases
  DEF IInv, TypeOK, Interrupt, goVars, stopVars, clientVars
<1> QED
  BY <1>2, <1>3 DEF IInv

LEMMA SubscribeInv ==
  ASSUME IInv, NEW k \in Late, Subscribe(k)
  PROVE  IInv'
<1>1. /\ UNCHANGED <<goVars, sent, delivered, phase, stopped, toStop, subscribed, me,
                     connected, state, pos, ready, work, running, started>>
      /\ listFunc' = listFunc \cup {k}
  BY DEF Subscribe, goVars, stopVars
<1>2. StreamOK' /\ FlagsOK' /\ Places' /\ JobsOK'
  BY <1>1, SameStream, SameQueues DEF IInv
<1>3. HandlersOK' /\ PosOK' /\ QueueOrder'
  BY <1>1, SameTasks DEF IInv
<1>4. ConnectOK'
  BY <1>1 DEF IInv, ConnectOK, ConnectStage, InCall, Received
<1>5. TypeOK'
  BY <1>1 DEF IInv, TypeOK
<1> QED
  BY <1>2, <1>3, <1>4, <1>5 DEF IInv

-----------------------------------------------------------------------------
(***************************************************************************)
(* The loop.                                                               *)
(***************************************************************************)
LEMMA HopInv ==
  ASSUME IInv, Hop
  PROVE  IInv'
<1> DEFINE h == Head(ready)
           b == [h EXCEPT !.hops = @ - 1]
<1>1. /\ ready # <<>> /\ h.hops > 0
      /\ ready' = Append(Tail(ready), b)
      /\ UNCHANGED <<sent, delivered, phase, stopped, toStop, listFunc, subscribed, me,
                     connected, state, pos, work, running, started>>
  BY DEF Hop, goVars, stopVars, clientVars
<1>2. /\ ready \in Seq(OwnEntry) /\ ready \in Seq(Entry)
      /\ Tail(ready) \in Seq(OwnEntry)
      /\ h \in OwnEntry /\ h \in Entry
  BY <1>1, QueueTypes, TailAt DEF IInv
<1>3. b \in Entry /\ b.task = h.task /\ b.ok = h.ok
  BY <1>1, <1>2, OneHopLess
<1>4. b \in OwnEntry
  BY <1>2, <1>3 DEF OwnEntry
<1>5. QueueOrder'
  <2>1. Ordered(Append(Tail(ready), b), Due)
    BY <1>1, <1>2, OrderedHop DEF IInv, QueueOrder
  <2>2. Due' = Due
    BY <1>1 DEF Due
  <2> QED
    BY <1>1, <2>1, <2>2 DEF QueueOrder
<1> HIDE DEF b, h
<1>6. Places'
  BY <1>1, <1>3, HopPlaces DEF IInv, h
<1>7. JobsOK'
  <2>1. Append(Tail(ready), b) \in Seq(OwnEntry)
    BY <1>2, <1>4, AppendAt
  <2> QED
    BY <1>1, <2>1 DEF IInv, JobsOK
<1>8. StreamOK' /\ FlagsOK'
  BY <1>1, SameStream DEF IInv
<1>9. HandlersOK' /\ ConnectOK'
  BY <1>1 DEF IInv, HandlersOK, HandlersOf, ConnectOK, ConnectStage, InCall,
              Received
<1>10. PosOK'
  BY <1>1, SameScript DEF IInv, PosOK
<1>11. TypeOK'
  <2>1. Cardinality(running') <= Workers
    BY <1>1 DEF IInv, TypeOK
  <2> QED
    BY <1>1, <1>6, <1>7, <2>1, TypeFrame DEF IInv, TypeOK
<1> QED
  BY <1>5, <1>6, <1>7, <1>8, <1>9, <1>10, <1>11 DEF IInv
\* Nothing that must come before the head of the queue is still queued.
LEMMA HeadIsFirst ==
  ASSUME IInv, ready # <<>>, Head(ready).hops = 0, Head(ready).task \in Due,
         NEW u \in Due, state[u] = "scheduled"
  PROVE  ~Precedes(u, Head(ready).task)
<1>1. SUFFICES ASSUME Precedes(u, Head(ready).task) PROVE FALSE
  OBVIOUS
<1>2. u \in Scheduled
  BY DEF Scheduled, Due
<1>3. PICK i \in 1..Len(ready) : ready[i].task = u
  BY <1>2 DEF IInv, Places, Lists
<1>4. /\ ready \in Seq(Entry) /\ Head(ready) = ready[1] /\ 1 \in 1..Len(ready)
  BY QueueTypes, TailAt DEF IInv
<1>5. \/ ready[i].hops < ready[1].hops
      \/ ready[i].hops = ready[1].hops /\ i < 1
  BY <1>1, <1>3, <1>4 DEF IInv, QueueOrder, Ordered
<1>6. ready[i].hops \in Nat /\ ready[1].hops = 0
  BY <1>4, EntryAt
<1> QED
  BY <1>3, <1>5, <1>6

LEMMA NextNumber ==
  ASSUME NEW a \in Nat, NEW n \in Nat, NEW r \in Nat, NEW x \in Nat,
         a < n, n <= r, n <= x, n # a + 1
  PROVE  a + 1 < n /\ a + 1 \in 1..x /\ a + 1 <= r
  OBVIOUS

LEMMA RunFacts ==
  ASSUME IInv, NEW t \in Task, Runs(t)
  PROVE  /\ t = Head(ready).task
         /\ state[t] = "scheduled"
         /\ ScriptOK(t)
         /\ pos[t] \in Nat /\ pos[t] <= Len(Script(t))
         /\ OfClient(t) /\ t.n > 0 =>
              /\ t.n <= Received(t.of)
              /\ pos[t] = 0 => t.n = Len(started[t.of]) + 1
         /\ IsConnect(t) =>
              /\ Head(ready).ok
              /\ pos[t] = 0 \/ pos[t] = 1
              /\ pos[t] = 0 => phase[t.of] = "none"
              /\ pos[t] = 1 => /\ phase[t.of] = "returned"
                               /\ Len(started[t.of]) = Received(t.of)
<1>1. /\ t = Head(ready).task /\ ready # <<>> /\ Head(ready).hops = 0
      /\ Head(ready) \in OwnEntry
  BY QueueTypes, TailAt DEF IInv, Runs
<1>2. t \in Scheduled /\ state[t] = "scheduled"
  <2>1. Lists(ready, Scheduled) /\ ready \in Seq(Entry)
    BY QueueTypes DEF IInv, Places
  <2>2. t \in Scheduled
    BY <1>1, <2>1, ListsTail
  <2> QED
    BY <2>2 DEF Scheduled
<1>3. Created(t)
  BY <1>2, CreatedTasks DEF IInv
<1>4. ScriptOK(t)
  BY <1>3, ScriptType DEF IInv
<1>5. pos[t] \in Nat /\ pos[t] <= Len(Script(t))
  BY <1>2 DEF IInv, TypeOK, PosOK
<1>6. ASSUME OfClient(t), t.n > 0
      PROVE  /\ t.n <= Received(t.of)
             /\ pos[t] = 0 => t.n = Len(started[t.of]) + 1
  <2> DEFINE c == t.of
             n == t.n
             m == Len(started[c]) + 1
  <2>1. c \in Client /\ n \in 1..MaxEvents[c] /\ t = Handler(c, n)
    BY <1>6, TaskCases DEF OfClient
  <2>2. n <= Received(c)
    BY <1>3, <1>6 DEF Created
  <2>3. ASSUME pos[t] = 0
        PROVE  n = m
    <3>1. /\ Len(started[c]) \in Nat /\ Received(c) \in Nat
          /\ n > Len(started[c]) /\ MaxEvents[c] \in Nat
      BY <2>1, <2>3, ReceivedType, LenProperties
      DEF IInv, TypeOK, HandlersOK, HandlersOf
    <3>2. SUFFICES ASSUME n # m PROVE FALSE
      OBVIOUS
    <3>3. m < n /\ m \in 1..MaxEvents[c] /\ m <= Received(c)
      <4>1. n \in Nat /\ n <= MaxEvents[c]
        BY <2>1, <3>1
      <4> HIDE DEF n
      <4> QED
        BY <2>2, <3>1, <3>2, <4>1, NextNumber
    <3> DEFINE u == Handler(c, m)
    <3>4. /\ u \in Task /\ u.of = c /\ u.n = m /\ OfClient(u)
      BY <2>1, <3>3, HandlerFacts
    <3>5. pos[u] = 0
      BY <2>1, <3>1, <3>3 DEF IInv, HandlersOK, HandlersOf
    <3>6. state[u] = "scheduled"
      BY <2>1, <3>1, <3>3, <3>5 DEF IInv, HandlersOK, HandlersOf
    <3>7. u \in Due /\ t \in Due
      BY <1>6, <2>3, <3>1, <3>3, <3>4, <3>5 DEF Due
    <3>8. Precedes(u, t)
      BY <3>1, <3>3, <3>4, <1>6 DEF Precedes, Rank
    <3> QED
      BY <1>1, <3>6, <3>7, <3>8, HeadIsFirst
  <2> QED
    BY <2>2, <2>3
<1>7. ASSUME IsConnect(t)
      PROVE  /\ Head(ready).ok
             /\ pos[t] = 0 \/ pos[t] = 1
             /\ pos[t] = 0 => phase[t.of] = "none"
             /\ pos[t] = 1 => /\ phase[t.of] = "returned"
                              /\ Len(started[t.of]) = Received(t.of)
  <2> DEFINE c == t.of
             m == Len(started[c]) + 1
  <2>1. Head(ready).ok
    BY <1>1, <1>7 DEF OwnEntry
  <2>2. t = ConnectTask(c) /\ c \in Client /\ t.n = 0 /\ OfClient(t)
    BY <1>7, ConnectFacts DEF IsConnect
  <2>3. ConnectStage(c)
    BY <2>2 DEF IInv, ConnectOK
  <2>4. \/ phase[c] = "none" /\ pos[t] = 0
        \/ phase[c] = "returned" /\ pos[t] = 1
    BY <1>2, <2>2, <2>3 DEF ConnectStage
  <2>5. ASSUME pos[t] = 1
        PROVE  Len(started[c]) = Received(c)
    <3>1. /\ Len(started[c]) \in Nat /\ Received(c) \in Nat
          /\ Len(started[c]) <= Received(c)
          /\ Received(c) <= MaxEvents[c] /\ MaxEvents[c] \in Nat
      BY <2>2, ReceivedType, LenProperties
      DEF IInv, TypeOK, HandlersOK, HandlersOf
    <3>2. SUFFICES ASSUME Len(started[c]) # Received(c) PROVE FALSE
      OBVIOUS
    <3>3. m \in 1..MaxEvents[c] /\ m <= Received(c) /\ m \in 0..MaxEvents[c]
      BY <3>1, <3>2
    <3> DEFINE u == Handler(c, m)
    <3>4. /\ u \in Task /\ u.of = c /\ u.n = m /\ OfClient(u)
      BY <2>2, <3>3, HandlerFacts
    <3>5. pos[u] = 0
      BY <2>2, <3>1, <3>3 DEF IInv, HandlersOK, HandlersOf
    <3>6. state[u] = "scheduled"
      BY <2>2, <3>1, <3>3, <3>5 DEF IInv, HandlersOK, HandlersOf
    <3>7. u \in Due /\ t \in Due
      BY <2>2, <2>5, <3>1, <3>4, <3>5 DEF Due
    <3>8. Precedes(u, t)
      BY <2>2, <3>1, <3>3, <3>4 DEF Precedes, Rank
    <3> QED
      BY <1>1, <3>6, <3>7, <3>8, HeadIsFirst
  <2> QED
    BY <2>1, <2>4, <2>5
<1> QED
  BY <1>1, <1>2, <1>4, <1>5, <1>6, <1>7
\* The handlers of a client of which no handler begins.
LEMMA SameHandlers ==
  ASSUME NEW c \in Client, HandlersOf(c), started'[c] = started[c],
         Received(c)' = Received(c),
         \A n \in 1..MaxEvents[c] :
           /\ state'[Handler(c, n)] = "new" <=> state[Handler(c, n)] = "new"
           /\ pos'[Handler(c, n)] = 0 <=> pos[Handler(c, n)] = 0
           /\ pos'[Handler(c, n)] = 0 =>
                state'[Handler(c, n)] = state[Handler(c, n)]
  PROVE  HandlersOf(c)'
<1>1. \A n \in 1..MaxEvents[c] :
        /\ state'[Handler(c, n)] = "new" <=> n > Received(c)'
        /\ pos'[Handler(c, n)] = 0 <=> n > Len(started'[c])
        /\ pos'[Handler(c, n)] = 0 =>
             state'[Handler(c, n)] \in {"new", "scheduled"}
  BY DEF HandlersOf
<1> QED
  BY <1>1 DEF HandlersOf

\* What holds after any callback, however it ends.
LEMMA RunHandlers ==
  ASSUME IInv, NEW t \in Task, Runs(t),
         state' \in [Task -> TaskState],
         \A u \in Task : u # t /\ u # Main => state'[u] = state[u],
         t # Main => state'[t] # "new"
  PROVE  HandlersOK' /\ started' \in [Client -> Seq(Nat)]
         /\ \A c \in Client : Len(started[c]) <= Len(started'[c])
<1>1. /\ UNCHANGED delivered
      /\ pos' = [pos EXCEPT ![t] = @ + 1]
      /\ started' = IF t.n > 0 /\ t # Signal /\ pos[t] = 0
                    THEN [started EXCEPT ![t.of] = Append(@, t.n)]
                    ELSE started
  BY DEF Runs, goVars
<1>2. /\ pos \in [Task -> Nat] /\ started \in [Client -> Seq(Nat)]
      /\ HandlersOK /\ StreamOK
  BY DEF IInv, TypeOK
<1>3. \A u \in Task : pos'[u] = IF u = t THEN pos[u] + 1 ELSE pos[u]
  BY <1>1, <1>2
<1>4. \A c \in Client : \A n \in 1..MaxEvents[c] :
        /\ Handler(c, n) \in Task /\ Handler(c, n) # Main
        /\ Handler(c, n) # Signal
        /\ Handler(c, n).of = c /\ Handler(c, n).n = n
        /\ OfClient(Handler(c, n))
  BY HandlerFacts
<1>5. \A c \in Client : Received(c)' = Received(c)
  BY <1>1 DEF Received
<1>6. CASE OfClient(t) /\ t.n > 0 /\ pos[t] = 0
  <2> DEFINE d == t.of
             m == t.n
  <2>1. /\ d \in Client /\ m <= Received(d) /\ m = Len(started[d]) + 1
        /\ m \in 1..MaxEvents[d] /\ m \in Nat /\ t = Handler(d, m)
        /\ t # Signal
    BY <1>6, RunFacts, TaskCases DEF OfClient
  <2>2. started' = [started EXCEPT ![d] = Append(@, m)]
    BY <1>1, <1>6, <2>1
  <2> HIDE DEF d, m
  <2>3. /\ Append(started[d], m) \in Seq(Nat)
        /\ Len(Append(started[d], m)) = m
        /\ \A i \in 1..Len(started[d]) : Append(started[d], m)[i] = started[d][i]
        /\ Append(started[d], m)[m] = m
        /\ Len(started[d]) \in Nat
    BY <1>2, <2>1, AppendAt
  <2>4. started' \in [Client -> Seq(Nat)]
    BY <1>2, <2>1, <2>2, <2>3
  <2>5. \A c \in Client : Len(started[c]) <= Len(started'[c])
    BY <1>2, <2>1, <2>2, <2>3, LenProperties
  <2>6. ASSUME NEW c \in Client
        PROVE  HandlersOf(c)'
    <3>1. CASE c = d
      <4>1. started'[c] = Append(started[d], m)
        BY <1>2, <2>1, <2>2, <3>1
      <4>2. Len(started'[c]) <= Received(c)'
        BY <1>5, <2>1, <2>3, <3>1, <4>1
      <4>3. \A i \in 1..Len(started'[c]) : started'[c][i] = i
        <5> TAKE i \in 1..Len(started'[c])
        <5>1. i \in 1..Len(started[d]) \/ i = m
          BY <2>1, <2>3, <4>1
        <5> QED
          BY <1>2, <2>3, <3>1, <4>1, <5>1 DEF HandlersOK, HandlersOf
      <4>4. ASSUME NEW n \in 1..MaxEvents[c]
            PROVE  LET u == Handler(c, n) IN
                     /\ state'[u] = "new" <=> n > Received(c)'
                     /\ pos'[u] = 0 <=> n > Len(started'[c])
                     /\ pos'[u] = 0 => state'[u] \in {"new", "scheduled"}
        <5> DEFINE u == Handler(c, n)
        <5>1. /\ state[u] = "new" <=> n > Received(c)
              /\ pos[u] = 0 <=> n > Len(started[c])
              /\ pos[u] = 0 => state[u] \in {"new", "scheduled"}
          BY <1>2 DEF HandlersOK, HandlersOf
        <5>2. CASE n = m
          <6>1. u = t /\ t \in Task
            BY <2>1, <3>1, <5>2
          <6>2. pos'[u] # 0 /\ state'[u] # "new"
            BY <1>2, <1>3, <1>4, <6>1
          <6>3. ~(n > Received(c)) /\ ~(n > Len(started'[c]))
            BY <2>1, <2>3, <3>1, <4>1, <5>2, <1>2, ReceivedType
          <6> QED
            BY <1>5, <6>2, <6>3
        <5>3. CASE n # m
          <6>1. u # t /\ u # Main /\ u \in Task
            BY <1>4, <2>1, <3>1, <5>3
          <6>2. pos'[u] = pos[u] /\ state'[u] = state[u]
            BY <1>3, <6>1
          <6>3. n > Len(started'[c]) <=> n > Len(started[c])
            BY <2>1, <2>3, <3>1, <4>1, <5>3
          <6> QED
            BY <1>5, <5>1, <6>2, <6>3
        <5> QED
          BY <5>2, <5>3
      <4> QED
        BY <4>2, <4>3, <4>4 DEF HandlersOf
    <3>2. CASE c # d
      <4>1. started'[c] = started[c]
        BY <1>2, <2>1, <2>2, <3>2
      <4>2. ASSUME NEW n \in 1..MaxEvents[c]
            PROVE  /\ state'[Handler(c, n)] = state[Handler(c, n)]
                   /\ pos'[Handler(c, n)] = pos[Handler(c, n)]
        <5>1. Handler(c, n) # t
          BY <1>4, <3>2 DEF d
        <5> QED
          BY <1>3, <1>4, <5>1
      <4>3. HandlersOf(c)
        BY <1>2 DEF HandlersOK
      <4> QED
        BY <1>5, <4>1, <4>2, <4>3, SameHandlers
    <3> QED
      BY <3>1, <3>2
  <2> QED
    BY <2>4, <2>5, <2>6 DEF HandlersOK
<1>7. CASE ~(OfClient(t) /\ t.n > 0 /\ pos[t] = 0)
  <2>1. started' = started
    <3>1. ~(t.n > 0 /\ t # Signal /\ pos[t] = 0)
      BY <1>7, TaskCases DEF Main
    <3> QED
      BY <1>1, <3>1
  <2>2. \A c \in Client : Len(started[c]) <= Len(started'[c])
    BY <1>2, <2>1, LenProperties
  <2>3. ASSUME NEW c \in Client, NEW n \in 1..MaxEvents[c]
        PROVE  LET u == Handler(c, n) IN
                 /\ state'[u] = "new" <=> state[u] = "new"
                 /\ pos'[u] = 0 <=> pos[u] = 0
                 /\ pos'[u] = 0 => state'[u] = state[u]
    <3> DEFINE u == Handler(c, n)
    <3>1. CASE u = t
      <4>1. OfClient(t) /\ t.n > 0 /\ t # Main
        BY <1>4, <3>1
      <4>2. pos[t] # 0
        BY <1>7, <4>1
      <4>3. pos'[t] # 0 /\ state'[t] # "new" /\ state[t] # "new"
        BY <1>2, <1>3, <4>1, <4>2, RunFacts
      <4> QED
        BY <3>1, <4>2, <4>3
    <3>2. CASE u # t
      <4>1. u \in Task /\ u # Main
        BY <1>4
      <4>2. pos'[u] = pos[u] /\ state'[u] = state[u]
        BY <1>3, <3>2, <4>1
      <4> QED
        BY <4>2
    <3> QED
      BY <3>1, <3>2
  <2>4. HandlersOK'
    <3> SUFFICES ASSUME NEW c \in Client PROVE HandlersOf(c)'
      BY DEF HandlersOK
    <3>1. HandlersOf(c)
      BY <1>2 DEF HandlersOK
    <3> QED
      BY <1>5, <2>1, <2>3, <3>1, SameHandlers
  <2> QED
    BY <1>2, <2>1, <2>2, <2>4
<1> QED
  BY <1>6, <1>7

\* What is left in the queue keeps its order, whatever the callback did.
LEMMA RunOrder ==
  ASSUME IInv, NEW t \in Task, Runs(t),
         \/ ready' = Tail(ready)
         \/ \E b \in OwnEntry : /\ b.task = Main
                               /\ ready' = Append(Tail(ready), b)
         \/ t = Main /\ ready' = ready
  PROVE  QueueOrder'
<1>1. /\ t = Head(ready).task /\ ready # <<>>
      /\ ready \in Seq(Entry) /\ Tail(ready) \in Seq(Entry)
  BY QueueTypes, TailAt DEF IInv, Runs
<1>2. pos \in [Task -> Nat] /\ pos' = [pos EXCEPT ![t] = @ + 1]
  BY DEF IInv, TypeOK, Runs
<1>3. \A u \in Task : u # t => (u \in Due' <=> u \in Due)
  BY <1>2 DEF Due
<1>4. Main \notin Due /\ Main \notin Due'
  BY TaskCases DEF Due
<1>5. Ordered(ready, Due) /\ Ordered(Tail(ready), Due)
  BY <1>1, OrderedTail DEF IInv, QueueOrder
<1>6. Ordered(Tail(ready), Due')
  <2>1. Lists(ready, Scheduled)
    BY DEF IInv, Places
  <2>2. Lists(Tail(ready), Scheduled \ {t})
    BY <1>1, <2>1, ListsTail
  <2>3. \A i \in 1..Len(Tail(ready)) :
          Tail(ready)[i].task \in Task /\ Tail(ready)[i].task # t
    BY <2>2 DEF Lists, Scheduled
  <2>4. \A i \in 1..Len(Tail(ready)) :
          Tail(ready)[i].task \in Due' => Tail(ready)[i].task \in Due
    BY <1>3, <2>3
  <2> QED
    BY <1>5, <2>4, OrderedWeaken
<1>7. CASE ready' = Tail(ready)
  BY <1>6, <1>7 DEF QueueOrder
<1>8. ASSUME NEW b \in OwnEntry, b.task = Main, ready' = Append(Tail(ready), b)
      PROVE  QueueOrder'
  <2>1. b \in Entry
    BY DEF OwnEntry
  <2>2. Ordered(Append(Tail(ready), b), Due')
    BY <1>1, <1>4, <1>6, <1>8, <2>1, OrderedAppend
  <2> QED
    BY <1>8, <2>2 DEF QueueOrder
<1>9. CASE t = Main /\ ready' = ready
  <2>1. \A i \in 1..Len(ready) : ready[i].task \in Task
    BY <1>1, EntryAt
  <2>2. \A i \in 1..Len(ready) : ready[i].task \in Due' => ready[i].task \in Due
    BY <1>3, <1>4, <1>9, <2>1
  <2>3. Ordered(ready, Due')
    BY <1>5, <2>2, OrderedWeaken
  <2> QED
    BY <1>9, <2>3 DEF QueueOrder
<1> QED
  BY <1>7, <1>8, <1>9
\* The task of connect of a client, when the loop runs another task.
LEMMA SameStage ==
  ASSUME NEW c \in Client, ConnectStage(c), StreamOK, HandlersOK',
         started \in [Client -> Seq(Nat)], started' \in [Client -> Seq(Nat)],
         Len(started[c]) <= Len(started'[c]),
         UNCHANGED <<delivered, phase, running>>,
         state'[ConnectTask(c)] = state[ConnectTask(c)],
         pos'[ConnectTask(c)] = pos[ConnectTask(c)]
  PROVE  ConnectStage(c)'
<1>1. /\ Received(c)' = Received(c) /\ Received(c) \in Nat
      /\ Len(started[c]) \in Nat /\ Len(started'[c]) \in Nat
  BY ReceivedType, LenProperties DEF Received
<1>2. Len(started'[c]) <= Received(c)
  BY <1>1 DEF HandlersOK, HandlersOf
<1>3. Len(started[c]) = Received(c) => Len(started'[c]) = Received(c)
  BY <1>1, <1>2
<1>4. InCall(ConnectTask(c))' <=> InCall(ConnectTask(c))
  BY DEF InCall
<1> QED
  BY <1>1, <1>3, <1>4 DEF ConnectStage

\* Where a task gets to in its script.
LEMMA NextPos ==
  ASSUME NEW m \in 0..MaxScript, NEW p \in Nat, p <= m
  PROVE  /\ p + 1 \in 0..(MaxScript + 1)
         /\ m \in Nat
         /\ p # m => p + 1 \in 1..m /\ p + 1 <= m
  BY DEF MaxScript

LEMMA JobFacts ==
  ASSUME NEW t \in Task, NEW op \in Op, op # "idle"
  PROVE  /\ Job(t, op) \in JobType
         /\ Job(t, op).task = t
         /\ Job(t, op).op = op
<1>1. op \in Call \cup {"neonize"}
  BY DEF Op
<1> QED
  BY <1>1 DEF JobType, Job

LEMMA JobParts ==
  ASSUME NEW j \in JobType
  PROVE  j = Job(j.task, j.op)
<1>1. PICK t \in Task, op \in Call \cup {"neonize"} : j = Job(t, op)
  BY DEF JobType
<1> QED
  BY <1>1 DEF Job

LEMMA AwaitCallInv ==
  ASSUME IInv, NEW t \in Task, AwaitCall(t)
  PROVE  IInv'
<1> DEFINE op == Script(t)[pos[t] + 1]
           j == Job(t, op)
<1>1. /\ Runs(t)
      /\ ~Finishes(t)
      /\ op # "idle"
      /\ work' = Append(work, j)
      /\ state' = [state EXCEPT ![t] = "awaiting"]
      /\ ready' = Tail(ready)
  BY DEF AwaitCall
<1>2. /\ ready # <<>>
      /\ pos' = [pos EXCEPT ![t] = @ + 1]
      /\ UNCHANGED <<sent, delivered, phase, stopped, toStop, listFunc, subscribed,
                     me, connected, running>>
  BY <1>1 DEF Runs, goVars, stopVars, clientVars
<1>3. /\ StreamOK /\ FlagsOK /\ Places /\ JobsOK /\ ConnectOK /\ HandlersOK
      /\ PosOK
      /\ state \in [Task -> TaskState] /\ pos \in [Task -> Nat]
      /\ started \in [Client -> Seq(Nat)]
  BY DEF IInv, TypeOK, TaskState
<1>4. /\ t = Head(ready).task /\ state[t] = "scheduled" /\ ScriptOK(t)
      /\ pos[t] \in Nat /\ pos[t] <= Len(Script(t))
      /\ IsConnect(t) => pos[t] \in {0, 1} /\ (pos[t] = 0 => phase[t.of] = "none")
  BY <1>1, RunFacts
<1>5. pos[t] # Len(Script(t))
  BY <1>1 DEF Finishes
<1>6. /\ pos[t] + 1 \in 1..Len(Script(t)) /\ pos[t] + 1 <= Len(Script(t))
      /\ pos[t] + 1 \in 0..(MaxScript + 1)
  BY <1>4, <1>5, NextPos DEF ScriptOK
<1>7. j \in OwnJob /\ j.task = t
  <2>1. op \in Op /\ (op = "neonize" <=> IsConnect(t))
    BY <1>4, <1>6, ElementOfSeq DEF ScriptOK
  <2> HIDE DEF op
  <2> QED
    BY <1>1, <2>1, JobFacts DEF OwnJob
<1> HIDE DEF op, j
<1>8. /\ state' \in [Task -> TaskState]
      /\ \A u \in Task : state'[u] = IF u = t THEN "awaiting" ELSE state[u]
      /\ \A u \in Task : pos'[u] = IF u = t THEN pos[u] + 1 ELSE pos[u]
  BY <1>1, <1>2, <1>3 DEF TaskState
<1>9. StreamOK' /\ FlagsOK'
  BY <1>2, <1>3, SameStream
<1>10. Places'
  BY <1>1, <1>2, <1>3, <1>4, <1>7, AwaitPlaces
<1>11. JobsOK'
  <2>1. Tail(ready) \in Seq(OwnEntry) /\ Append(work, j) \in Seq(OwnJob)
    BY <1>2, <1>3, <1>7, QueueTypes, TailAt, AppendAt
  <2> QED
    BY <1>1, <1>2, <1>3, <2>1 DEF JobsOK
<1>12. /\ HandlersOK' /\ started' \in [Client -> Seq(Nat)]
       /\ \A c \in Client : Len(started[c]) <= Len(started'[c])
  BY <1>1, <1>8, RunHandlers
<1>13. QueueOrder'
  BY <1>1, RunOrder
<1>14. PosOK'
  <2> SUFFICES ASSUME NEW u \in Task
               PROVE  /\ state'[u] = "new" => pos'[u] = 0
                      /\ state'[u] \in {"scheduled", "awaiting", "idle"}
                           => pos'[u] <= Len(Script(u))
    BY <1>2, SameScript DEF PosOK
  <2>1. CASE u = t
    BY <1>4, <1>6, <1>8, <2>1
  <2>2. CASE u # t
    BY <1>3, <1>8, <2>2 DEF PosOK
  <2> QED
    BY <2>1, <2>2
<1>15. ConnectOK'
  <2> SUFFICES ASSUME NEW c \in Client PROVE ConnectStage(c)'
    BY DEF ConnectOK
  <2>1. ConnectStage(c) /\ ConnectTask(c) \in Task
    BY <1>3, ConnectFacts DEF ConnectOK
  <2>2. CASE t = ConnectTask(c)
    <3>1. /\ IsConnect(t) /\ t.of = c /\ Len(Script(t)) = 1
      BY <1>4, <2>2, ConnectFacts DEF ScriptOK
    <3>2. pos[t] = 0 /\ phase[c] = "none"
      BY <1>4, <1>5, <3>1
    <3>3. delivered[c] = <<>> /\ ~InCall(t)
      BY <2>1, <2>2, <3>2 DEF ConnectStage
    <3>4. ~InCall(t)'
      BY <1>2, <3>3 DEF InCall
    <3>5. state'[t] = "awaiting" /\ pos'[t] = 1
      BY <1>8, <3>2
    <3> QED
      BY <1>2, <2>2, <3>2, <3>3, <3>4, <3>5 DEF ConnectStage
  <2>3. CASE t # ConnectTask(c)
    BY <1>2, <1>3, <1>8, <1>12, <2>1, <2>3, SameStage
  <2> QED
    BY <2>2, <2>3
<1>16. TypeOK'
  <2>1. pos' \in [Task -> 0..(MaxScript + 1)]
    <3>1. pos \in [Task -> 0..(MaxScript + 1)]
      BY DEF IInv, TypeOK
    <3> QED
      BY <1>2, <1>6, <3>1
  <2>2. Cardinality(running') <= Workers
    BY <1>2 DEF IInv, TypeOK
  <2> QED
    BY <1>2, <1>8, <1>10, <1>11, <1>12, <2>1, <2>2, TypeFrame
    DEF IInv, TypeOK, TaskState
<1> QED
  BY <1>9, <1>10, <1>11, <1>12, <1>13, <1>14, <1>15, <1>16 DEF IInv
LEMMA AwaitIdleInv ==
  ASSUME IInv, AwaitIdle
  PROVE  IInv'
<1>1. /\ Runs(Main)
      /\ ~Finishes(Main)
      /\ \/ ready' = ready /\ state' = state
         \/ /\ \E h \in IdleHops :
                 ready' = Append(Tail(ready), Callback(Main, h, TRUE))
            /\ state' = state
         \/ ready' = Tail(ready) /\ state' = [state EXCEPT ![Main] = "idle"]
      /\ UNCHANGED work
  BY DEF AwaitIdle
<1>2. /\ ready # <<>>
      /\ pos' = [pos EXCEPT ![Main] = @ + 1]
      /\ UNCHANGED <<sent, delivered, phase, stopped, toStop, listFunc, subscribed,
                     me, connected, running>>
  BY <1>1 DEF Runs, goVars, stopVars, clientVars
<1>3. /\ StreamOK /\ FlagsOK /\ Places /\ JobsOK /\ ConnectOK /\ HandlersOK
      /\ PosOK
      /\ state \in [Task -> TaskState] /\ pos \in [Task -> Nat]
      /\ started \in [Client -> Seq(Nat)]
  BY DEF IInv, TypeOK, TaskState
<1>4. /\ Main \in Task /\ Main = Head(ready).task
      /\ state[Main] = "scheduled" /\ ScriptOK(Main)
      /\ pos[Main] \in Nat /\ pos[Main] <= Len(Script(Main))
  BY <1>1, RunFacts, TaskCases
<1>5. pos[Main] # Len(Script(Main))
  BY <1>1 DEF Finishes
<1>6. /\ pos[Main] + 1 <= Len(Script(Main))
      /\ pos[Main] + 1 \in 0..(MaxScript + 1)
  BY <1>4, <1>5, NextPos DEF ScriptOK
<1>7. \A h \in IdleHops : /\ Callback(Main, h, TRUE) \in OwnEntry
                          /\ Callback(Main, h, TRUE).task = Main
  BY <1>4, ConnectFacts DEF OwnEntry, Entry, Callback, IdleHops
<1>8. /\ state' \in [Task -> TaskState]
      /\ \A u \in Task : u # Main => state'[u] = state[u]
      /\ state'[Main] \in {"scheduled", "idle"}
      /\ \A u \in Task : pos'[u] = IF u = Main THEN pos[u] + 1 ELSE pos[u]
  BY <1>1, <1>2, <1>3, <1>4 DEF TaskState
<1>9. StreamOK' /\ FlagsOK'
  BY <1>2, <1>3, SameStream
<1>10. Places' /\ JobsOK'
  <2>1. CASE ready' = ready /\ state' = state
    BY <1>1, <1>2, <1>3, <2>1, SameQueues
  <2>2. ASSUME NEW h \in IdleHops,
               ready' = Append(Tail(ready), Callback(Main, h, TRUE)),
               state' = state
        PROVE  Places' /\ JobsOK'
    <3> DEFINE b == Callback(Main, h, TRUE)
    <3>1. b \in OwnEntry /\ b \in Entry /\ b.task = Head(ready).task
      BY <1>3, <1>4, <1>7, QueueTypes
    <3> HIDE DEF b
    <3>2. Places'
      BY <1>1, <1>2, <1>3, <2>2, <3>1, HopPlaces DEF b
    <3>3. Append(Tail(ready), b) \in Seq(OwnEntry)
      BY <1>2, <1>3, <3>1, QueueTypes, TailAt, AppendAt
    <3> QED
      BY <1>1, <1>2, <1>3, <2>2, <3>2, <3>3 DEF JobsOK, b
  <2>3. CASE ready' = Tail(ready) /\ state' = [state EXCEPT ![Main] = "idle"]
    <3>1. Places'
      BY <1>1, <1>2, <1>3, <1>4, <2>3, LeavePlaces
    <3>2. Tail(ready) \in Seq(OwnEntry)
      BY <1>2, <1>3, QueueTypes, TailAt
    <3> QED
      BY <1>1, <1>2, <1>3, <2>3, <3>1, <3>2 DEF JobsOK
  <2> QED
    BY <1>1, <2>1, <2>2, <2>3
<1>11. /\ HandlersOK' /\ started' \in [Client -> Seq(Nat)]
       /\ \A c \in Client : Len(started[c]) <= Len(started'[c])
  BY <1>1, <1>4, <1>8, RunHandlers
<1>12. QueueOrder'
  BY <1>1, <1>4, <1>7, RunOrder
<1>13. PosOK'
  <2> SUFFICES ASSUME NEW u \in Task
               PROVE  /\ state'[u] = "new" => pos'[u] = 0
                      /\ state'[u] \in {"scheduled", "awaiting", "idle"}
                           => pos'[u] <= Len(Script(u))
    BY <1>2, SameScript DEF PosOK
  <2>1. CASE u = Main
    BY <1>4, <1>6, <1>8, <2>1
  <2>2. CASE u # Main
    BY <1>3, <1>8, <2>2 DEF PosOK
  <2> QED
    BY <2>1, <2>2
<1>14. ConnectOK'
  <2> SUFFICES ASSUME NEW c \in Client PROVE ConnectStage(c)'
    BY DEF ConnectOK
  <2>1. /\ ConnectStage(c) /\ ConnectTask(c) \in Task
        /\ ConnectTask(c) # Main
    BY <1>3, ConnectFacts DEF ConnectOK
  <2> QED
    BY <1>2, <1>3, <1>8, <1>11, <2>1, SameStage
<1>15. TypeOK'
  <2>1. pos' \in [Task -> 0..(MaxScript + 1)]
    <3>1. pos \in [Task -> 0..(MaxScript + 1)]
      BY DEF IInv, TypeOK
    <3> QED
      BY <1>2, <1>6, <3>1
  <2>2. Cardinality(running') <= Workers
    BY <1>2 DEF IInv, TypeOK
  <2> QED
    BY <1>2, <1>8, <1>10, <1>11, <2>1, <2>2, TypeFrame
    DEF IInv, TypeOK, TaskState
<1> QED
  BY <1>9, <1>10, <1>11, <1>12, <1>13, <1>14, <1>15 DEF IInv

LEMMA FinishInv ==
  ASSUME IInv, NEW t \in Task, Finish(t)
  PROVE  IInv'
<1> DEFINE wakes == /\ state[Main] = "idle"
                    /\ IsConnect(t)
                    /\ \E h \in IdleHops :
                         ready' = Append(Tail(ready), Callback(Main, h, TRUE))
                    /\ state' = [state EXCEPT ![t] = "done",
                                              ![Main] = "scheduled"]
           ends == /\ ready' = Tail(ready)
                   /\ state' = [state EXCEPT ![t] = "done"]
<1>1. /\ Runs(t)
      /\ Finishes(t)
      /\ wakes \/ ends
      /\ UNCHANGED work
  BY ConnectFacts DEF Finish
<1>2. /\ ready # <<>>
      /\ pos' = [pos EXCEPT ![t] = @ + 1]
      /\ UNCHANGED <<sent, delivered, phase, stopped, toStop, listFunc, subscribed,
                     me, connected, running>>
  BY <1>1 DEF Runs, goVars, stopVars, clientVars
<1>3. /\ StreamOK /\ FlagsOK /\ Places /\ JobsOK /\ ConnectOK /\ HandlersOK
      /\ PosOK
      /\ state \in [Task -> TaskState] /\ pos \in [Task -> Nat]
      /\ started \in [Client -> Seq(Nat)]
  BY DEF IInv, TypeOK, TaskState
<1>4. /\ t = Head(ready).task
      /\ state[t] = "scheduled" /\ ScriptOK(t)
      /\ pos[t] \in Nat /\ pos[t] <= Len(Script(t))
      /\ IsConnect(t) =>
           /\ Head(ready).ok
           /\ pos[t] = 1 => /\ phase[t.of] = "returned"
                            /\ Len(started[t.of]) = Received(t.of)
  BY <1>1, RunFacts
<1>5. pos[t] + 1 \in 0..(MaxScript + 1)
  BY <1>4, NextPos DEF ScriptOK
<1>6. Main \in Task /\ (wakes => t # Main)
  BY TaskCases, ConnectFacts
<1>7. \A h \in IdleHops : /\ Callback(Main, h, TRUE) \in OwnEntry
                          /\ Callback(Main, h, TRUE).task = Main
  BY <1>6, ConnectFacts DEF OwnEntry, Entry, Callback, IdleHops
<1>8. /\ state' \in [Task -> TaskState]
      /\ state'[t] = "done"
      /\ \A u \in Task : u # t /\ u # Main => state'[u] = state[u]
      /\ t # Main => \/ state'[Main] = state[Main]
                     \/ state[Main] = "idle" /\ state'[Main] = "scheduled"
      /\ \A u \in Task : pos'[u] = IF u = t THEN pos[u] + 1 ELSE pos[u]
  BY <1>1, <1>2, <1>3, <1>6 DEF TaskState
<1>9. StreamOK' /\ FlagsOK'
  BY <1>2, <1>3, SameStream
<1>10. Places' /\ JobsOK'
  <2>1. CASE ends
    <3>1. Places'
      BY <1>1, <1>2, <1>3, <1>4, <2>1, LeavePlaces
    <3>2. Tail(ready) \in Seq(OwnEntry)
      BY <1>2, <1>3, QueueTypes, TailAt
    <3> QED
      BY <1>1, <1>2, <1>3, <2>1, <3>1, <3>2 DEF JobsOK
  <2>2. CASE wakes
    <3>1. PICK h \in IdleHops :
            ready' = Append(Tail(ready), Callback(Main, h, TRUE))
      BY <2>2
    <3> DEFINE b == Callback(Main, h, TRUE)
    <3>2. b \in OwnEntry /\ b \in Entry /\ b.task = Main
      BY <1>3, <1>7, QueueTypes
    <3> HIDE DEF b
    <3>3. Places'
      BY <1>1, <1>2, <1>3, <1>4, <1>6, <2>2, <3>1, <3>2, WakePlaces DEF b
    <3>4. Append(Tail(ready), b) \in Seq(OwnEntry)
      BY <1>2, <1>3, <3>2, QueueTypes, TailAt, AppendAt
    <3> QED
      BY <1>1, <1>2, <1>3, <3>1, <3>3, <3>4 DEF JobsOK, b
  <2> QED
    BY <1>1, <2>1, <2>2
<1>11. /\ HandlersOK' /\ started' \in [Client -> Seq(Nat)]
       /\ \A c \in Client : Len(started[c]) <= Len(started'[c])
  BY <1>1, <1>8, RunHandlers
<1>12. QueueOrder'
  BY <1>1, <1>7, RunOrder
<1>13. PosOK'
  <2> SUFFICES ASSUME NEW u \in Task
               PROVE  /\ state'[u] = "new" => pos'[u] = 0
                      /\ state'[u] \in {"scheduled", "awaiting", "idle"}
                           => pos'[u] <= Len(Script(u))
    BY <1>2, SameScript DEF PosOK
  <2>1. CASE u = t
    BY <1>8, <2>1
  <2>2. CASE u # t /\ u # Main
    BY <1>3, <1>8, <2>2 DEF PosOK
  <2>3. CASE u # t /\ u = Main
    BY <1>3, <1>6, <1>8, <2>3 DEF PosOK
  <2> QED
    BY <2>1, <2>2, <2>3
<1> HIDE DEF wakes, ends
<1>14. ConnectOK'
  <2> SUFFICES ASSUME NEW c \in Client PROVE ConnectStage(c)'
    BY DEF ConnectOK
  <2>1. /\ ConnectStage(c) /\ ConnectTask(c) \in Task
        /\ ConnectTask(c) # Main
    BY <1>3, ConnectFacts DEF ConnectOK
  <2>2. CASE t = ConnectTask(c)
    <3>1. /\ IsConnect(t) /\ t.of = c /\ Len(Script(t)) = 1
      BY <1>4, <2>2, ConnectFacts DEF ScriptOK
    <3>2. pos[t] = 1
      BY <1>1, <1>4, <3>1 DEF Finishes
    <3>3. phase[c] = "returned" /\ Len(started[c]) = Received(c)
      BY <1>4, <3>1, <3>2
    <3>4. delivered[c] # <<>>
      BY <2>1, <3>3 DEF ConnectStage
    <3>5. Received(c)' = Received(c)
      BY <1>2 DEF Received
    <3>6. Len(started'[c]) = Received(c)'
      <4>1. /\ Len(started'[c]) <= Received(c)'
            /\ Len(started[c]) <= Len(started'[c])
        BY <1>11 DEF HandlersOK, HandlersOf
      <4>2. /\ Len(started'[c]) \in Nat /\ Len(started[c]) \in Nat
            /\ Received(c) \in Nat
        BY <1>3, <1>11, ReceivedType, LenProperties
      <4> QED
        BY <3>3, <3>5, <4>1, <4>2
    <3> QED
      BY <1>2, <1>8, <2>2, <3>3, <3>4, <3>6 DEF ConnectStage
  <2>3. CASE t # ConnectTask(c)
    BY <1>2, <1>3, <1>8, <1>11, <2>1, <2>3, SameStage
  <2> QED
    BY <2>2, <2>3
<1>15. TypeOK'
  <2>1. pos' \in [Task -> 0..(MaxScript + 1)]
    <3>1. pos \in [Task -> 0..(MaxScript + 1)]
      BY DEF IInv, TypeOK
    <3> QED
      BY <1>2, <1>5, <3>1
  <2>2. Cardinality(running') <= Workers
    BY <1>2 DEF IInv, TypeOK
  <2> QED
    BY <1>2, <1>8, <1>10, <1>11, <2>1, <2>2, TypeFrame
    DEF IInv, TypeOK, TaskState
<1> QED
  BY <1>9, <1>10, <1>11, <1>12, <1>13, <1>14, <1>15 DEF IInv
-----------------------------------------------------------------------------
(***************************************************************************)
(* The workers.                                                            *)
(***************************************************************************)
LEMMA ConnectIsLast ==
  ASSUME NEW t \in Task, IsConnect(t), NEW u \in Task
  PROVE  ~Precedes(t, u)
<1> SUFFICES ASSUME Precedes(t, u) PROVE FALSE
  OBVIOUS
<1>1. t.of \in Client /\ u.of = t.of /\ t.n = 0
  BY DEF Precedes, IsConnect, OfClient
<1>2. u.n \in 0..MaxEvents[t.of] /\ MaxEvents[t.of] \in Nat
  BY <1>1, TaskCases DEF OfClient
<1>3. Rank(t) = MaxEvents[t.of] + 1
  BY <1>1 DEF Rank
<1>4. Rank(u) <= MaxEvents[t.of] + 1 /\ Rank(u) \in Nat
  BY <1>1, <1>2 DEF Rank
<1> QED
  BY <1>2, <1>3, <1>4 DEF Precedes

LEMMA TakeCallInv ==
  ASSUME IInv, TakeCall
  PROVE  IInv'
<1> DEFINE h == Head(work)
           c == h.task.of
<1>1. /\ work # <<>> /\ Cardinality(running) < Workers
      /\ running' = running \cup {h}
      /\ work' = Tail(work)
      /\ phase' = IF h.op = "neonize" THEN [phase EXCEPT ![c] = "entered"]
                  ELSE phase
      /\ toStop' = [toStop EXCEPT ![h.task] = Finds(h)]
      /\ UNCHANGED <<sent, delivered, stopped, listFunc, subscribed, me,
                     connected, state, pos, ready, started>>
  BY DEF TakeCall, goVars, clientVars
<1>2. StreamOK /\ FlagsOK /\ Places /\ JobsOK /\ ConnectOK /\ HandlersOK
      /\ PosOK /\ QueueOrder
  BY DEF IInv
<1>3. h \in OwnJob /\ Tail(work) \in Seq(OwnJob)
  BY <1>1, <1>2, QueueTypes, TailAt
<1>4. Places'
  BY <1>1, <1>2, TakePlaces
<1>5. JobsOK'
  BY <1>1, <1>2, <1>3 DEF JobsOK
<1>6. StreamOK' /\ FlagsOK'
  BY <1>1, <1>2, SameStream
<1>7. HandlersOK' /\ PosOK' /\ QueueOrder'
  BY <1>1, <1>2, SameTasks
<1>8. /\ h.task \in Task /\ state[h.task] = "awaiting" /\ ~InCall(h.task)
      /\ h.op = "neonize" <=> IsConnect(h.task)
      /\ h = Job(h.task, h.op)
  <2>1. Lists(work, Queued) /\ work \in Seq(OwnJob)
    BY <1>2, QueueTypes DEF Places
  <2>2. h.task \in Queued
    BY <1>1, <2>1, ListsTail
  <2>3. h \in JobType /\ (h.op = "neonize" <=> IsConnect(h.task))
    BY <1>3 DEF OwnJob
  <2>4. h = Job(h.task, h.op)
    BY <2>3, JobParts
  <2> QED
    BY <2>2, <2>3, <2>4 DEF Queued
<1> HIDE DEF h
<1>9. ASSUME h.op = "neonize"
      PROVE  /\ c \in Client /\ h.task = ConnectTask(c)
             /\ phase[c] = "none" /\ delivered[c] = <<>> /\ pos[h.task] = 1
  <2>1. c \in Client /\ h.task = ConnectTask(c)
    BY <1>8, <1>9, ConnectFacts
  <2>2. ConnectStage(c)
    BY <1>2, <2>1 DEF ConnectOK
  <2>3. Job(h.task, "neonize").task = h.task
    BY DEF Job
  <2> QED
    BY <1>8, <2>1, <2>2, <2>3 DEF ConnectStage, InCall
<1>10. ConnectOK'
  <2> SUFFICES ASSUME NEW d \in Client PROVE ConnectStage(d)'
    BY DEF ConnectOK
  <2>1. ConnectStage(d) /\ IsConnect(ConnectTask(d)) /\ ConnectTask(d).of = d
    BY <1>2, ConnectFacts DEF ConnectOK
  <2>2. CASE h.task = ConnectTask(d)
    <3>1. /\ c = d /\ h = Job(ConnectTask(d), "neonize") /\ h.op = "neonize"
      BY <1>8, <2>1, <2>2
    <3>2. phase'[d] = "entered"
      BY <1>1, <1>9, <3>1 DEF IInv, TypeOK
    <3> QED
      BY <1>1, <1>8, <1>9, <2>2, <3>1, <3>2 DEF ConnectStage
  <2>3. CASE h.task # ConnectTask(d)
    <3>1. phase'[d] = phase[d]
      BY <1>1, <1>9, <2>3 DEF IInv, TypeOK
    <3>2. InCall(ConnectTask(d))' <=> InCall(ConnectTask(d))
      BY <1>1, <2>3 DEF InCall
    <3>3. Received(d)' = Received(d)
      BY <1>1 DEF Received
    <3> QED
      BY <1>1, <2>1, <3>1, <3>2, <3>3 DEF ConnectStage
  <2> QED
    BY <2>2, <2>3
<1>11. TypeOK'
  <2>1. Cardinality(running') <= Workers
    <3>1. IsFiniteSet(running)
      BY <1>2 DEF Places
    <3>2. /\ Cardinality(running) \in Nat
          /\ Cardinality(running') = Cardinality(running)
             \/ Cardinality(running') = Cardinality(running) + 1
      BY <1>1, <3>1, FS_AddElement, FS_CardinalityType
    <3> QED
      BY <1>1, <3>2
  <2>2. phase' \in [Client -> {"none", "entered", "up", "returned"}]
    BY <1>1, <1>9 DEF IInv, TypeOK
  <2>3. toStop' \in [Task -> SUBSET Client]
    <3>1. Finds(h) \in SUBSET Client
      BY DEF Finds
    <3> QED
      BY <1>1, <3>1 DEF IInv, TypeOK
  <2> QED
    BY <1>1, <1>4, <1>5, <2>1, <2>2, <2>3, TypeFrame DEF IInv, TypeOK
<1> QED
  BY <1>4, <1>5, <1>6, <1>7, <1>10, <1>11 DEF IInv

\* A call ends: the task it was made for is queued, as due as it was.
LEMMA CallEndsKeeps ==
  ASSUME IInv, NEW j \in running, NEW ok \in BOOLEAN, CallEnds(j, ok),
         IsConnect(j.task) => ok,
         UNCHANGED <<sent, delivered, me, connected, pos, work, started>>
  PROVE  /\ StreamOK' /\ FlagsOK' /\ Places' /\ JobsOK' /\ HandlersOK'
         /\ PosOK' /\ QueueOrder'
         /\ Cardinality(running') <= Workers
         /\ j.task \in Task
         /\ state' = [state EXCEPT ![j.task] = "scheduled"]
         /\ running' = running \ {j}
<1> DEFINE t == j.task
           b == Callback(t, 1, ok)
<1>1. /\ running' = running \ {j}
      /\ ready' = Append(ready, b)
      /\ state' = [state EXCEPT ![t] = "scheduled"]
  BY DEF CallEnds
<1>2. /\ StreamOK /\ FlagsOK /\ Places /\ JobsOK /\ ConnectOK /\ HandlersOK
      /\ PosOK /\ QueueOrder
      /\ state \in [Task -> TaskState] /\ pos \in [Task -> Nat]
  BY DEF IInv, TypeOK, TaskState
<1>3. /\ t \in Task /\ state[t] = "awaiting"
      /\ ready \in Seq(Entry) /\ ready \in Seq(OwnEntry)
  BY <1>2, QueueTypes DEF JobsOK, Places
<1>4. b \in OwnEntry /\ b \in Entry /\ b.task = t /\ b.hops = 1
  BY <1>3 DEF Callback, OwnEntry, Entry
<1> HIDE DEF b
<1>5. StreamOK' /\ FlagsOK'
  BY <1>2, SameStream
<1>6. Places'
  BY <1>1, <1>2, <1>4, EndPlaces
<1>7. JobsOK'
  <2>1. Append(ready, b) \in Seq(OwnEntry)
    BY <1>3, <1>4, AppendAt
  <2> QED
    BY <1>1, <1>2, <2>1 DEF JobsOK
<1>8. \A u \in Task : state'[u] = IF u = t THEN "scheduled" ELSE state[u]
  BY <1>1, <1>2, <1>3
<1>9. HandlersOK'
  <2> SUFFICES ASSUME NEW c \in Client PROVE HandlersOf(c)'
    BY DEF HandlersOK
  <2>1. HandlersOf(c) /\ Received(c)' = Received(c)
    BY <1>2 DEF HandlersOK, Received
  <2>2. ASSUME NEW n \in 1..MaxEvents[c]
        PROVE  /\ state'[Handler(c, n)] = "new" <=> state[Handler(c, n)] = "new"
               /\ pos'[Handler(c, n)] = 0 <=> pos[Handler(c, n)] = 0
               /\ pos'[Handler(c, n)] = 0 =>
                    state'[Handler(c, n)] = state[Handler(c, n)]
    <3>1. Handler(c, n) \in Task
      BY HandlerFacts
    <3>2. pos[Handler(c, n)] = 0 => state[Handler(c, n)] \in {"new", "scheduled"}
      BY <2>1 DEF HandlersOf
    <3> QED
      BY <1>3, <1>8, <3>1, <3>2
  <2> QED
    BY <2>1, <2>2, SameHandlers
<1>10. PosOK'
  <2> SUFFICES ASSUME NEW u \in Task
               PROVE  /\ state'[u] = "new" => pos[u] = 0
                      /\ state'[u] \in {"scheduled", "awaiting", "idle"}
                           => pos[u] <= Len(Script(u))
    BY SameScript DEF PosOK
  <2> QED
    BY <1>2, <1>3, <1>8 DEF PosOK
<1>11. QueueOrder'
  <2>1. Due' = Due
    BY DEF Due
  <2>2. t \in Due => IsConnect(t)
    <3> SUFFICES ASSUME t \in Due, ~IsConnect(t) PROVE FALSE
      OBVIOUS
    <3>1. OfClient(t) /\ t.n # 0 /\ pos[t] = 0
      BY DEF Due, IsConnect
    <3>2. /\ t.of \in Client /\ t.n \in 1..MaxEvents[t.of]
          /\ t = Handler(t.of, t.n)
      BY <1>3, <3>1, TaskCases DEF OfClient
    <3>3. state[t] \in {"new", "scheduled"}
      BY <1>2, <3>1, <3>2 DEF HandlersOK, HandlersOf
    <3> QED
      BY <1>3, <3>3
  <2>3. \A i \in 1..Len(ready) : ready[i].task \in Task
    BY <1>3, EntryAt
  <2>4. Ordered(Append(ready, b), Due)
    BY <1>2, <1>3, <1>4, <2>2, <2>3, ConnectIsLast, OrderedAppend
    DEF QueueOrder
  <2> QED
    BY <1>1, <2>1, <2>4 DEF QueueOrder
<1>12. Cardinality(running') <= Workers
  <2>1. IsFiniteSet(running) /\ Cardinality(running) <= Workers
    BY <1>2 DEF Places, IInv, TypeOK
  <2>2. /\ Cardinality(running) \in Nat
        /\ Cardinality(running') = Cardinality(running) - 1
    BY <1>1, <2>1, FS_RemoveElement, FS_CardinalityType
  <2> QED
    BY <2>1, <2>2
<1> QED
  BY <1>1, <1>3, <1>5, <1>6, <1>7, <1>9, <1>10, <1>11, <1>12

\* The calls of other tasks than that of connect.
LEMMA OtherCallEnds ==
  ASSUME IInv, NEW j \in running, NEW ok \in BOOLEAN, CallEnds(j, ok),
         j.op # "neonize",
         UNCHANGED <<goVars, phase, stopVars, clientVars, pos, work, started>>
  PROVE  IInv'
<1>1. ~IsConnect(j.task)
  BY DEF IInv, JobsOK, OwnJob
<1>2. UNCHANGED <<sent, delivered, stopped, toStop, listFunc, subscribed, me,
                 connected>>
  BY DEF goVars, stopVars, clientVars
<1>3. /\ StreamOK' /\ FlagsOK' /\ Places' /\ JobsOK' /\ HandlersOK'
      /\ PosOK' /\ QueueOrder'
      /\ Cardinality(running') <= Workers
      /\ j.task \in Task
      /\ state' = [state EXCEPT ![j.task] = "scheduled"]
      /\ running' = running \ {j}
  BY <1>1, <1>2, CallEndsKeeps
<1>4. ConnectOK'
  <2> SUFFICES ASSUME NEW c \in Client PROVE ConnectStage(c)'
    BY DEF ConnectOK
  <2>1. /\ ConnectStage(c) /\ ConnectTask(c) \in Task
        /\ j.task # ConnectTask(c)
    BY <1>1, ConnectFacts DEF IInv, ConnectOK
  <2>2. state'[ConnectTask(c)] = state[ConnectTask(c)]
    BY <1>3, <2>1 DEF IInv, TypeOK
  <2>3. InCall(ConnectTask(c))' <=> InCall(ConnectTask(c))
    BY <1>3, <2>1 DEF InCall
  <2>4. Job(ConnectTask(c), "neonize") # j
    BY <2>1 DEF Job
  <2>5. Received(c)' = Received(c)
    BY <1>2 DEF Received
  <2> QED
    BY <1>2, <1>3, <2>1, <2>2, <2>3, <2>4, <2>5 DEF ConnectStage
<1>5. TypeOK'
  <2>1. state' \in [Task -> {"new", "scheduled", "awaiting", "idle", "done"}]
    BY <1>3 DEF IInv, TypeOK
  <2> QED
    BY <1>2, <1>3, <2>1, TypeFrame DEF IInv, TypeOK
<1> QED
  BY <1>3, <1>4, <1>5 DEF IInv

LEMMA CallReturnsInv ==
  ASSUME IInv, NEW j \in running, CallReturns(j)
  PROVE  IInv'
<1>1. PICK ok \in BOOLEAN : CallEnds(j, ok)
  BY DEF CallReturns
<1> QED
  BY <1>1, OtherCallEnds DEF CallReturns

LEMMA StopReturnsInv ==
  ASSUME IInv, NEW j \in running, StopReturns(j)
  PROVE  IInv'
<1>1. CallEnds(j, TRUE)
  BY DEF StopReturns
<1>2. j.op # "neonize"
  BY DEF StopReturns
<1> QED
  BY <1>1, <1>2, OtherCallEnds DEF StopReturns

\* A Stop that cancels a session touches nothing the invariant is about.
LEMMA StopSessionInv ==
  ASSUME IInv, NEW j \in running, NEW c \in Client, StopSession(j, c)
  PROVE  IInv'
<1>1. UNCHANGED <<sent, delivered, phase, listFunc, subscribed, me, connected,
                 state, pos, ready, work, running, started>>
  BY DEF StopSession, goVars, clientVars
<1>2. StreamOK' /\ FlagsOK' /\ Places' /\ JobsOK'
  BY <1>1, SameStream, SameQueues DEF IInv
<1>3. HandlersOK' /\ PosOK' /\ QueueOrder'
  BY <1>1, SameTasks DEF IInv
<1>4. ConnectOK'
  BY <1>1 DEF IInv, ConnectOK, ConnectStage, InCall, Received
<1>5. TypeOK'
  <2>1. stopped' \in [Client -> BOOLEAN] /\ toStop' \in [Task -> SUBSET Client]
    BY DEF StopSession, IInv, TypeOK
  <2> QED
    BY <1>1, <2>1 DEF IInv, TypeOK
<1> QED
  BY <1>2, <1>3, <1>4, <1>5 DEF IInv
-----------------------------------------------------------------------------
(***************************************************************************)
(* The sessions.                                                           *)
(***************************************************************************)

\* What a session does to the events leaves the scripts as they are.
LEMMA ScriptKept ==
  ASSUME StreamOK, NEW t \in Task, Created(t),
         \A c \in Client : \A i \in 2..Len(delivered[c]) :
           delivered'[c][i] = delivered[c][i]
  PROVE  Script(t)' = Script(t)
<1>1. CASE OfClient(t) /\ t.n # 0
  <2> DEFINE c == t.of
             n == t.n
  <2>1. /\ c \in Client /\ n \in Nat /\ n # 0 /\ n <= Received(c)
        /\ Received(c) \in Nat
    BY <1>1, TaskCases, ReceivedType DEF OfClient, Created
  <2>2. Len(delivered[c]) = Received(c) + 1
    BY <2>1, ReceivedType
  <2> HIDE DEF n, c
  <2>3. n + 1 \in 2..Len(delivered[c])
    BY <2>1, <2>2
  <2>4. delivered'[c][n + 1] = delivered[c][n + 1]
    BY <2>1, <2>3
  <2> QED
    BY <1>1, <2>4 DEF Script, c, n
<1>2. CASE ~(OfClient(t) /\ t.n # 0)
  <2>1. t = Main \/ t = Signal \/ t.n = 0
    BY <1>2, TaskCases
  <2> QED
    BY <2>1 DEF Script
<1> QED
  BY <1>1, <1>2

LEMMA RegisterClientInv ==
  ASSUME IInv, NEW c \in Client, RegisterClient(c)
  PROVE  IInv'
<1>1. /\ phase[c] = "entered"
      /\ phase' = [phase EXCEPT ![c] = "up"]
      /\ UNCHANGED <<sent, delivered, stopped, toStop, listFunc, subscribed, me,
                     connected, state, pos, ready, work, running, started>>
  BY DEF RegisterClient, goVars, stopVars, clientVars
<1>2. StreamOK' /\ FlagsOK' /\ Places' /\ JobsOK'
  BY <1>1, SameStream, SameQueues DEF IInv
<1>3. HandlersOK' /\ PosOK' /\ QueueOrder'
  BY <1>1, SameTasks DEF IInv
<1>4. phase \in [Client -> {"none", "entered", "up", "returned"}]
  BY DEF IInv, TypeOK
<1>5. ConnectOK'
  <2> SUFFICES ASSUME NEW d \in Client PROVE ConnectStage(d)'
    BY DEF ConnectOK
  <2>1. ConnectStage(d)
    BY DEF IInv, ConnectOK
  <2>2. phase'[d] = IF d = c THEN "up" ELSE phase[d]
    BY <1>1, <1>4
  <2> QED
    BY <1>1, <2>1, <2>2 DEF ConnectStage, InCall, Received
<1>6. TypeOK'
  BY <1>1 DEF IInv, TypeOK
<1> QED
  BY <1>2, <1>3, <1>5, <1>6 DEF IInv

LEMMA IntroduceInv ==
  ASSUME IInv, NEW c \in Client, Introduce(c)
  PROVE  IInv'
<1> DEFINE ev == [src |-> c, kind |-> Me]
<1>1. /\ phase[c] = "up"
      /\ delivered[c] = <<>>
      /\ delivered' = [delivered EXCEPT ![c] = <<ev>>]
      /\ me' = [me EXCEPT ![c] = TRUE]
      /\ UNCHANGED <<sent, phase, stopped, toStop, listFunc, subscribed, connected,
                     state, pos, ready, work, running, started>>
  BY DEF Introduce, Go!Introduce, stopVars
<1>2. /\ StreamOK /\ FlagsOK /\ Places /\ JobsOK /\ ConnectOK /\ HandlersOK
      /\ PosOK /\ QueueOrder
  BY DEF IInv
<1> DEFINE E == [src : Client, kind : Kind \cup {Me}]
<1>3. delivered \in [Client -> Seq(E)] /\ ev \in E
  BY <1>2 DEF StreamOK
<1> HIDE DEF ev, E
<1>15. <<ev>> \in Seq(E) /\ Len(<<ev>>) = 1 /\ <<ev>> # <<>>
  BY <1>3
<1>4. /\ delivered'[c] = <<ev>>
      /\ \A d \in Client : d # c => delivered'[d] = delivered[d]
      /\ delivered' \in [Client -> Seq(E)]
  BY <1>1, <1>3, <1>15
<1>5. \A d \in Client : Received(d)' = Received(d)
  <2> TAKE d \in Client
  <2>1. CASE d = c
    BY <1>1, <1>15, <1>4, <2>1 DEF Received
  <2>2. CASE d # c
    BY <1>4, <2>2 DEF Received
  <2> QED
    BY <2>1, <2>2
<1>6. ASSUME NEW d \in Client, NEW i \in 2..Len(delivered'[d])
      PROVE  i \in 2..Len(delivered[d]) /\ delivered'[d][i] = delivered[d][i]
  <2>1. CASE d = c
    BY <1>15, <1>4, <2>1
  <2>2. CASE d # c
    BY <1>4, <2>2
  <2> QED
    BY <2>1, <2>2
<1>7. StreamOK'
  <2>1. delivered' \in [Client -> Seq([src : Client, kind : Kind \cup {Me}])]
    BY <1>4 DEF E
  <2>2. ASSUME NEW d \in Client
        PROVE  /\ Received(d)' <= Len(sent'[d])
               /\ Len(sent'[d]) <= MaxEvents[d]
               /\ \A i \in 2..Len(delivered'[d]) : delivered'[d][i].kind \in Kind
    <3>1. Received(d)' <= Len(sent'[d]) /\ Len(sent'[d]) <= MaxEvents[d]
      BY <1>1, <1>2, <1>5 DEF StreamOK
    <3>2. \A i \in 2..Len(delivered'[d]) : delivered'[d][i].kind \in Kind
      BY <1>2, <1>6 DEF StreamOK
    <3> QED
      BY <3>1, <3>2
  <2>3. sent' \in [Client -> Seq(Event)]
    BY <1>1, <1>2 DEF StreamOK
  <2> QED
    BY <2>1, <2>2, <2>3 DEF StreamOK
<1>8. FlagsOK'
  <2>1. \A d \in Client : me'[d] = IF d = c THEN TRUE ELSE me[d]
    BY <1>1 DEF IInv, TypeOK
  <2> QED
    <3> SUFFICES ASSUME NEW d \in Client
                 PROVE  /\ delivered'[d] # <<>> => me'[d]
                        /\ \A i \in 2..Len(delivered'[d]) :
                             delivered'[d][i].kind = Connected => connected'[d]
      BY DEF FlagsOK
    <3>1. delivered'[d] # <<>> => me'[d]
      BY <1>2, <1>4, <2>1 DEF FlagsOK
    <3>2. \A i \in 2..Len(delivered'[d]) :
            delivered'[d][i].kind = Connected => connected'[d]
      BY <1>1, <1>2, <1>6 DEF FlagsOK
    <3> QED
      BY <3>1, <3>2
<1>9. Places' /\ JobsOK'
  BY <1>1, <1>2, SameQueues
<1>10. HandlersOK'
  <2> SUFFICES ASSUME NEW d \in Client PROVE HandlersOf(d)'
    BY DEF HandlersOK
  <2> QED
    BY <1>1, <1>2, <1>5, SameHandlers DEF HandlersOK
<1>11. PosOK'
  <2> SUFFICES ASSUME NEW t \in Task
               PROVE  /\ state'[t] = "new" => pos'[t] = 0
                      /\ state'[t] \in {"scheduled", "awaiting", "idle"}
                           => pos'[t] <= Len(Script(t)')
    BY DEF PosOK
  <2>1. CASE state[t] = "new"
    BY <1>1, <1>2, <2>1 DEF PosOK
  <2>2. CASE state[t] # "new"
    <3>1. Created(t)
      BY <1>2, <2>2, CreatedTasks
    <3>2. ASSUME NEW d \in Client, NEW i \in 2..Len(delivered[d])
          PROVE  delivered'[d][i] = delivered[d][i]
      <4>1. Len(<<>>) = 0
        OBVIOUS
      <4>2. d # c
        BY <1>1, <4>1
      <4> QED
        BY <1>4, <4>2
    <3>3. Script(t)' = Script(t)
      BY <1>2, <3>1, <3>2, ScriptKept
    <3> QED
      BY <1>1, <1>2, <2>2, <3>3 DEF PosOK
  <2> QED
    BY <2>1, <2>2
<1>12. QueueOrder'
  BY <1>1, <1>2 DEF QueueOrder, Ordered, Due
<1>13. ConnectOK'
  <2> SUFFICES ASSUME NEW d \in Client PROVE ConnectStage(d)'
    BY DEF ConnectOK
  <2>1. ConnectStage(d)
    BY <1>2 DEF ConnectOK
  <2> QED
    BY <1>1, <1>4, <1>5, <2>1 DEF ConnectStage, InCall
<1>14. TypeOK'
  BY <1>1 DEF IInv, TypeOK
<1> QED
  BY <1>7, <1>8, <1>9, <1>10, <1>11, <1>12, <1>13, <1>14 DEF IInv

LEMMA AcceptInv ==
  ASSUME IInv, NEW c \in Client, NEW k \in Kind, Accept(c, k)
  PROVE  IInv'
<1> DEFINE ev == [src |-> c, kind |-> k]
<1>1. /\ Len(sent[c]) < MaxEvents[c]
      /\ sent' = [sent EXCEPT ![c] = Append(@, ev)]
      /\ UNCHANGED <<delivered, phase, stopped, toStop, listFunc, subscribed, me,
                     connected, state, pos, ready, work, running, started>>
  BY DEF Accept, Go!Accept, stopVars, clientVars
<1>2. /\ StreamOK /\ FlagsOK /\ Places /\ JobsOK /\ ConnectOK /\ HandlersOK
      /\ PosOK /\ QueueOrder
  BY DEF IInv
<1>3. ev \in Event /\ sent \in [Client -> Seq(Event)]
  BY <1>2 DEF Event, StreamOK
<1> HIDE DEF ev
<1>4. /\ Append(sent[c], ev) \in Seq(Event)
      /\ Len(Append(sent[c], ev)) = Len(sent[c]) + 1
      /\ Len(sent[c]) \in Nat
  BY <1>3, AppendAt
<1>5. StreamOK'
  <2>1. sent' \in [Client -> Seq(Event)]
    BY <1>1, <1>3, <1>4
  <2>2. ASSUME NEW d \in Client
        PROVE  Received(d)' <= Len(sent'[d]) /\ Len(sent'[d]) <= MaxEvents[d]
    <3>1. /\ Received(d)' = Received(d) /\ Received(d) \in Nat
          /\ Received(d) <= Len(sent[d]) /\ Len(sent[d]) <= MaxEvents[d]
          /\ MaxEvents[d] \in Nat
      BY <1>1, <1>2, ReceivedType DEF Received, StreamOK
    <3>2. sent'[d] = IF d = c THEN Append(sent[c], ev) ELSE sent[d]
      BY <1>1, <1>3
    <3> QED
      BY <1>1, <1>4, <3>1, <3>2
  <2> QED
    BY <1>1, <1>2, <2>1, <2>2 DEF StreamOK
<1>6. FlagsOK'
  BY <1>1, <1>2 DEF FlagsOK
<1>7. Places' /\ JobsOK'
  BY <1>1, <1>2, SameQueues
<1>8. HandlersOK' /\ PosOK' /\ QueueOrder'
  BY <1>1, <1>2, SameTasks
<1>9. ConnectOK'
  BY <1>1, <1>2 DEF ConnectOK, ConnectStage, InCall, Received
<1>10. TypeOK'
  BY <1>1 DEF IInv, TypeOK
<1> QED
  BY <1>5, <1>6, <1>7, <1>8, <1>9, <1>10 DEF IInv

LEMMA NeonizeReturnsInv ==
  ASSUME IInv, NEW c \in Client, NeonizeReturns(c)
  PROVE  IInv'
<1> DEFINE j == Job(ConnectTask(c), "neonize")
<1>1. /\ phase[c] = "up" /\ delivered[c] # <<>>
      /\ phase' = [phase EXCEPT ![c] = "returned"]
      /\ CallEnds(j, TRUE)
      /\ UNCHANGED <<sent, delivered, stopped, toStop, listFunc, subscribed, me,
                     connected, pos, work, started>>
  BY DEF NeonizeReturns, goVars, stopVars, clientVars
<1>2. ConnectStage(c) /\ ConnectTask(c) \in Task /\ j.task = ConnectTask(c)
  BY ConnectFacts DEF IInv, ConnectOK, Job
<1>3. j \in running /\ pos[ConnectTask(c)] = 1
  BY <1>1, <1>2 DEF ConnectStage
<1> HIDE DEF j
<1>4. /\ StreamOK' /\ FlagsOK' /\ Places' /\ JobsOK' /\ HandlersOK'
      /\ PosOK' /\ QueueOrder'
      /\ Cardinality(running') <= Workers
      /\ state' = [state EXCEPT ![ConnectTask(c)] = "scheduled"]
      /\ running' = running \ {j}
  BY <1>1, <1>2, <1>3, CallEndsKeeps
<1>5. ConnectOK'
  <2> SUFFICES ASSUME NEW d \in Client PROVE ConnectStage(d)'
    BY DEF ConnectOK
  <2>1. ConnectStage(d) /\ ConnectTask(d) \in Task /\ ConnectTask(d).of = d
    BY ConnectFacts DEF IInv, ConnectOK
  <2>2. CASE d = c
    <3>1. /\ phase'[c] = "returned" /\ state'[ConnectTask(c)] = "scheduled"
          /\ pos'[ConnectTask(c)] = 1 /\ delivered'[c] # <<>>
      BY <1>1, <1>2, <1>3, <1>4 DEF IInv, TypeOK
    <3> QED
      BY <2>2, <3>1 DEF ConnectStage
  <2>3. CASE d # c
    <3>1. ConnectTask(d) # j.task
      BY <1>2, <2>1, <2>3, ConnectFacts
    <3>2. phase'[d] = phase[d] /\ state'[ConnectTask(d)] = state[ConnectTask(d)]
      BY <1>1, <1>2, <1>4, <2>1, <2>3, <3>1 DEF IInv, TypeOK
    <3>3. InCall(ConnectTask(d))' <=> InCall(ConnectTask(d))
      BY <1>4, <3>1 DEF InCall
    <3>4. Job(ConnectTask(d), "neonize") # j
      BY <3>1 DEF Job
    <3>5. Received(d)' = Received(d)
      BY <1>1 DEF Received
    <3> QED
      BY <1>1, <1>4, <2>1, <3>2, <3>3, <3>4, <3>5 DEF ConnectStage
  <2> QED
    BY <2>2, <2>3
<1>6. TypeOK'
  <2>1. state' \in [Task -> {"new", "scheduled", "awaiting", "idle", "done"}]
    BY <1>2, <1>4 DEF IInv, TypeOK
  <2>2. phase' \in [Client -> {"none", "entered", "up", "returned"}]
    BY <1>1 DEF IInv, TypeOK
  <2> QED
    BY <1>1, <1>4, <2>1, <2>2, TypeFrame DEF IInv, TypeOK
<1> QED
  BY <1>4, <1>5, <1>6 DEF IInv
\* Event.execute: the next event is delivered and its handler is queued.
ExecuteStep(c, ev) ==
  /\ phase[c] = "up"
  /\ delivered[c] # <<>>
  /\ ev \in Event
  /\ delivered' = [delivered EXCEPT ![c] = Append(@, ev)]
  /\ sent' \in [Client -> Seq(Event)]
  /\ Received(c) + 1 <= Len(sent'[c])
  /\ \A d \in Client : /\ Len(sent[d]) <= Len(sent'[d])
                       /\ Len(sent'[d]) <= MaxEvents[d]
  /\ Execute(c, ev.kind)
  /\ UNCHANGED <<phase, stopped, toStop, listFunc, subscribed, me, pos, work, running,
                 started>>

LEMMA ExecuteInv ==
  ASSUME IInv, NEW c \in Client, NEW ev, ExecuteStep(c, ev)
  PROVE  IInv'
<1> DEFINE n == Len(delivered[c])
           t == Handler(c, n)
           b == Callback(t, 1, TRUE)
           E == [src : Client, kind : Kind \cup {Me}]
<1>1. /\ phase[c] = "up" /\ delivered[c] # <<>> /\ ev \in Event
      /\ delivered' = [delivered EXCEPT ![c] = Append(@, ev)]
      /\ connected' = [connected EXCEPT ![c] = @ \/ ev.kind = Connected]
      /\ state' = [state EXCEPT ![t] = "scheduled"]
      /\ ready' = Append(ready, b)
      /\ UNCHANGED <<phase, stopped, toStop, listFunc, subscribed, me, pos, work,
                     running, started>>
  BY DEF ExecuteStep, Execute
<1>2. /\ StreamOK /\ FlagsOK /\ Places /\ JobsOK /\ ConnectOK /\ HandlersOK
      /\ PosOK /\ QueueOrder
      /\ state \in [Task -> TaskState]
  BY DEF IInv, TypeOK, TaskState
<1>3. /\ n \in Nat \ {0} /\ n = Received(c) + 1 /\ Received(c) \in Nat
      /\ n <= MaxEvents[c] /\ n \in 1..MaxEvents[c]
  <2>1. n = Received(c) + 1 /\ Received(c) \in Nat
    BY <1>1, <1>2, ReceivedType
  <2>2. /\ Received(c) + 1 <= Len(sent'[c]) /\ Len(sent'[c]) <= MaxEvents[c]
        /\ Len(sent'[c]) \in Nat /\ MaxEvents[c] \in Nat
    BY LenProperties DEF ExecuteStep
  <2> QED
    BY <2>1, <2>2
<1>4. /\ ev \in E /\ ev.kind \in Kind /\ delivered \in [Client -> Seq(E)]
  BY <1>1, <1>2 DEF Event, StreamOK
<1>5. /\ t \in Task /\ t # Main /\ t # Signal /\ t.of = c /\ t.n = n
      /\ OfClient(t) /\ ~IsConnect(t)
  <2>1. n \in 0..MaxEvents[c] /\ n # 0
    BY <1>3
  <2> QED
    BY <2>1, HandlerFacts, ConnectFacts
<1> HIDE DEF n, E
<1>6. /\ delivered'[c] = Append(delivered[c], ev)
      /\ \A d \in Client : d # c => delivered'[d] = delivered[d]
      /\ delivered' \in [Client -> Seq(E)]
      /\ Len(delivered'[c]) = n + 1
      /\ \A i \in 1..n : delivered'[c][i] = delivered[c][i]
      /\ delivered'[c][n + 1] = ev
      /\ delivered'[c] # <<>>
  <2>1. /\ Append(delivered[c], ev) \in Seq(E)
        /\ Len(Append(delivered[c], ev)) = n + 1
        /\ \A i \in 1..n : Append(delivered[c], ev)[i] = delivered[c][i]
        /\ Append(delivered[c], ev)[n + 1] = ev
    BY <1>4, AppendAt DEF n
  <2>2. Append(delivered[c], ev) # <<>>
    <3>1. Len(<<>>) = 0 /\ n + 1 # 0
      BY <1>3
    <3> QED
      BY <2>1, <3>1
  <2> QED
    BY <1>1, <1>4, <2>1, <2>2
<1>7. /\ Received(c)' = n
      /\ \A d \in Client : d # c => Received(d)' = Received(d)
  <2>1. Received(c)' = n
    BY <1>3, <1>6 DEF Received
  <2>2. \A d \in Client : d # c => Received(d)' = Received(d)
    BY <1>6 DEF Received
  <2> QED
    BY <2>1, <2>2
<1>8. \A i \in 2..(n + 1) : i \in 2..n \/ i = n + 1
  BY <1>3
<1>9. /\ state[t] = "new" /\ pos[t] = 0
      /\ Len(started[c]) < n /\ Len(started[c]) \in Nat
  <2>1. HandlersOf(c) /\ n > Received(c) /\ started[c] \in Seq(Nat)
    BY <1>2, <1>3 DEF HandlersOK, IInv, TypeOK
  <2>2. Len(started[c]) <= Received(c) /\ Len(started[c]) \in Nat
    BY <2>1, LenProperties DEF HandlersOf
  <2>3. Len(started[c]) < n
    BY <1>3, <2>2
  <2> QED
    BY <1>3, <2>1, <2>2, <2>3 DEF HandlersOf
<1>10. b \in OwnEntry /\ b \in Entry /\ b.task = t /\ b.hops = 1
  BY <1>5 DEF Callback, OwnEntry, Entry
<1> HIDE DEF b
<1>11. \A u \in Task : state'[u] = IF u = t THEN "scheduled" ELSE state[u]
  BY <1>1, <1>2, <1>5
<1>12. StreamOK'
  <2>1. delivered' \in [Client -> Seq([src : Client, kind : Kind \cup {Me}])]
    BY <1>6 DEF E
  <2>2. ASSUME NEW d \in Client
        PROVE  /\ Received(d)' <= Len(sent'[d])
               /\ Len(sent'[d]) <= MaxEvents[d]
               /\ \A i \in 2..Len(delivered'[d]) : delivered'[d][i].kind \in Kind
    <3>1. CASE d = c
      <4>1. Received(c)' <= Len(sent'[c]) /\ Len(sent'[c]) <= MaxEvents[c]
        BY <1>3, <1>7 DEF ExecuteStep
      <4>2. \A i \in 2..n : delivered[c][i].kind \in Kind
        BY <1>2 DEF StreamOK, n
      <4>3. \A i \in 2..(n + 1) : delivered'[c][i].kind \in Kind
        <5> TAKE i \in 2..(n + 1)
        <5>1. CASE i \in 2..n
          <6>1. i \in 1..n
            BY <1>3, <5>1
          <6> QED
            BY <1>6, <4>2, <5>1, <6>1
        <5>2. CASE i = n + 1
          BY <1>4, <1>6, <5>2
        <5> QED
          BY <1>8, <5>1, <5>2
      <4> QED
        BY <1>6, <3>1, <4>1, <4>3
    <3>2. CASE d # c
      <4>1. /\ Received(d) <= Len(sent[d]) /\ Len(sent[d]) <= Len(sent'[d])
            /\ Len(sent'[d]) <= MaxEvents[d]
            /\ sent[d] \in Seq(Event) /\ sent'[d] \in Seq(Event)
        BY <1>2 DEF StreamOK, ExecuteStep
      <4>2. /\ Received(d) \in Nat /\ Len(sent[d]) \in Nat
            /\ Len(sent'[d]) \in Nat
        BY <1>2, <4>1, ReceivedType, LenProperties
      <4>3. Received(d)' <= Len(sent'[d])
        BY <1>7, <3>2, <4>1, <4>2
      <4>4. \A i \in 2..Len(delivered[d]) : delivered[d][i].kind \in Kind
        BY <1>2 DEF StreamOK
      <4> QED
        BY <1>6, <3>2, <4>1, <4>3, <4>4
    <3> QED
      BY <3>1, <3>2
  <2>3. sent' \in [Client -> Seq(Event)]
    BY DEF ExecuteStep
  <2> QED
    BY <2>1, <2>2, <2>3 DEF StreamOK
<1>13. FlagsOK'
  <2> SUFFICES ASSUME NEW d \in Client
               PROVE  /\ delivered'[d] # <<>> => me'[d]
                      /\ \A i \in 2..Len(delivered'[d]) :
                           delivered'[d][i].kind = Connected => connected'[d]
    BY DEF FlagsOK
  <2>1. connected \in [Client -> BOOLEAN]
    BY DEF IInv, TypeOK
  <2>2. CASE d = c
    <3>1. me'[c]
      BY <1>1, <1>2 DEF FlagsOK
    <3>2. connected'[c] <=> connected[c] \/ ev.kind = Connected
      BY <1>1, <2>1
    <3>3. \A i \in 2..n : delivered[c][i].kind = Connected => connected[c]
      BY <1>2 DEF FlagsOK, n
    <3>4. \A i \in 2..(n + 1) : delivered'[c][i].kind = Connected => connected'[c]
      <4> TAKE i \in 2..(n + 1)
      <4>1. CASE i \in 2..n
        <5>1. i \in 1..n
          BY <1>3, <4>1
        <5> QED
          BY <1>6, <3>2, <3>3, <4>1, <5>1
      <4>2. CASE i = n + 1
        BY <1>6, <3>2, <4>2
      <4> QED
        BY <1>8, <4>1, <4>2
    <3> QED
      BY <1>6, <2>2, <3>1, <3>4
  <2>3. CASE d # c
    <3>1. connected'[d] = connected[d] /\ me'[d] = me[d]
      BY <1>1, <2>1, <2>3
    <3> QED
      BY <1>2, <1>6, <2>3, <3>1 DEF FlagsOK
  <2> QED
    BY <2>2, <2>3
<1>14. Places'
  <2>1. state[b.task] \notin {"scheduled", "awaiting"}
    BY <1>9, <1>10
  <2> QED
    BY <1>1, <1>2, <1>10, <2>1, SchedulePlaces
<1>15. JobsOK'
  <2>1. Append(ready, b) \in Seq(OwnEntry)
    BY <1>2, <1>10, QueueTypes, AppendAt
  <2> QED
    BY <1>1, <1>2, <2>1 DEF JobsOK
<1>16. HandlersOK'
  <2> SUFFICES ASSUME NEW d \in Client PROVE HandlersOf(d)'
    BY DEF HandlersOK
  <2>1. HandlersOf(d)
    BY <1>2 DEF HandlersOK
  <2>2. CASE d = c
    <3>1. Len(started'[c]) <= Received(c)'
      BY <1>1, <1>3, <1>7, <1>9
    <3>2. \A i \in 1..Len(started'[c]) : started'[c][i] = i
      BY <1>1, <2>1, <2>2 DEF HandlersOf
    <3>3. ASSUME NEW m \in 1..MaxEvents[c]
          PROVE  LET u == Handler(c, m) IN
                   /\ state'[u] = "new" <=> m > Received(c)'
                   /\ pos'[u] = 0 <=> m > Len(started'[c])
                   /\ pos'[u] = 0 => state'[u] \in {"new", "scheduled"}
      <4> DEFINE u == Handler(c, m)
      <4>1. /\ state[u] = "new" <=> m > Received(c)
            /\ pos[u] = 0 <=> m > Len(started[c])
            /\ pos[u] = 0 => state[u] \in {"new", "scheduled"}
        BY <2>1, <2>2 DEF HandlersOf
      <4>2. CASE m = n
        <5>1. u = t
          BY <4>2
        <5>2. state'[u] = "scheduled" /\ pos'[u] = 0
          BY <1>1, <1>5, <1>9, <1>11, <5>1
        <5>3. ~(m > Received(c)') /\ m > Len(started'[c])
          BY <1>1, <1>3, <1>7, <1>9, <4>2
        <5> QED
          BY <5>2, <5>3
      <4>3. CASE m # n
        <5>1. u # t /\ u \in Task
          BY <1>5, <4>3, HandlerFacts
        <5>2. state'[u] = state[u] /\ pos'[u] = pos[u]
          BY <1>1, <1>11, <5>1
        <5>3. m > Received(c)' <=> m > Received(c)
          BY <1>3, <1>7, <4>3
        <5> QED
          BY <1>1, <4>1, <5>2, <5>3
      <4> QED
        BY <4>2, <4>3
    <3> QED
      BY <2>2, <3>1, <3>2, <3>3 DEF HandlersOf
  <2>3. CASE d # c
    <3>1. ASSUME NEW m \in 1..MaxEvents[d]
          PROVE  state'[Handler(d, m)] = state[Handler(d, m)]
      <4>1. Handler(d, m) # t /\ Handler(d, m) \in Task
        BY <1>5, <2>3, HandlerFacts
      <4> QED
        BY <1>11, <4>1
    <3> QED
      BY <1>1, <1>7, <2>1, <2>3, <3>1, SameHandlers
  <2> QED
    BY <2>2, <2>3
<1>17. PosOK'
  <2> SUFFICES ASSUME NEW u \in Task
               PROVE  /\ state'[u] = "new" => pos'[u] = 0
                      /\ state'[u] \in {"scheduled", "awaiting", "idle"}
                           => pos'[u] <= Len(Script(u)')
    BY DEF PosOK
  <2>1. CASE u = t
    <3>1. Script(u)' = handlerScript[ev.kind]
      <4>1. u # Main /\ u # Signal /\ u.n # 0 /\ u.of = c /\ u.n = n
        BY <1>3, <1>5, <2>1
      <4>2. Script(u)' = handlerScript[delivered'[u.of][u.n + 1].kind]
        BY <4>1 DEF Script
      <4> QED
        BY <1>6, <4>1, <4>2
    <3>2. Len(handlerScript[ev.kind]) \in Nat
      BY <1>4, CallScript, NextPos DEF MaxScript
    <3> QED
      BY <1>1, <1>9, <1>11, <2>1, <3>1, <3>2
  <2>2. CASE u # t /\ state[u] = "new"
    BY <1>1, <1>2, <1>11, <2>2 DEF PosOK
  <2>3. CASE u # t /\ state[u] # "new"
    <3>1. Created(u)
      BY <1>2, <2>3, CreatedTasks
    <3>2. ASSUME NEW d \in Client, NEW i \in 2..Len(delivered[d])
          PROVE  delivered'[d][i] = delivered[d][i]
      <4>1. CASE d = c
        <5>1. i \in 1..n
          BY <1>3, <4>1 DEF n
        <5> QED
          BY <1>6, <4>1, <5>1
      <4>2. CASE d # c
        BY <1>6, <4>2
      <4> QED
        BY <4>1, <4>2
    <3>3. Script(u)' = Script(u)
      BY <1>2, <3>1, <3>2, ScriptKept
    <3> QED
      BY <1>1, <1>2, <1>11, <2>3, <3>3 DEF PosOK
  <2> QED
    BY <2>1, <2>2, <2>3
<1>18. QueueOrder'
  <2>1. Due' = Due
    BY <1>1 DEF Due
  <2>2. ready \in Seq(Entry) /\ Lists(ready, Scheduled)
    BY <1>2, QueueTypes DEF Places
  <2>3. Rank(t) = n
    BY <1>3, <1>5 DEF Rank
  <2>4. ~Precedes(t, t)
    BY <1>3, <2>3 DEF Precedes
  <2>5. ASSUME NEW i \in 1..Len(ready), ready[i].task \in Due
        PROVE  ~Precedes(t, ready[i].task)
    <3> DEFINE u == ready[i].task
    <3>1. SUFFICES ASSUME Precedes(t, u) PROVE FALSE
      OBVIOUS
    <3>2. u \in Task /\ state[u] = "scheduled"
      BY <2>2 DEF Lists, Scheduled
    <3> HIDE DEF u
    <3>3. u.of = c /\ n < Rank(u) /\ OfClient(u)
      BY <1>5, <2>3, <3>1 DEF Precedes, OfClient
    <3>4. u = Handler(c, u.n) /\ u.n \in 0..MaxEvents[c]
      BY <3>2, <3>3, TaskCases
    <3>5. u.n # 0
      <4>1. ConnectStage(c) /\ ConnectTask(c) = Handler(c, 0)
        BY <1>2, HandlerFacts DEF ConnectOK
      <4>2. state[ConnectTask(c)] = "awaiting"
        BY <1>1, <4>1 DEF ConnectStage
      <4> QED
        BY <3>2, <3>4, <4>1, <4>2
    <3>6. u.n \in 1..MaxEvents[c] /\ n < u.n
      BY <3>3, <3>4, <3>5 DEF Rank
    <3>7. u.n > Received(c)
      BY <1>3, <3>6
    <3> QED
      BY <1>2, <3>2, <3>4, <3>6, <3>7 DEF HandlersOK, HandlersOf
  <2>6. Ordered(ready, Due) /\ b \in Entry /\ b.task = t /\ b.hops = 1
    BY <1>2, <1>10 DEF QueueOrder
  <2> HIDE DEF b, t
  <2>7. Ordered(Append(ready, b), Due)
    BY <2>2, <2>4, <2>5, <2>6, OrderedAppend
  <2> QED
    BY <1>1, <2>1, <2>7 DEF QueueOrder
<1>19. ConnectOK'
  <2> SUFFICES ASSUME NEW d \in Client PROVE ConnectStage(d)'
    BY DEF ConnectOK
  <2>1. ConnectStage(d) /\ ConnectTask(d) \in Task /\ ConnectTask(d) # t
    BY <1>2, <1>5, ConnectFacts DEF ConnectOK
  <2>2. state'[ConnectTask(d)] = state[ConnectTask(d)]
    BY <1>11, <2>1
  <2>3. InCall(ConnectTask(d))' <=> InCall(ConnectTask(d))
    BY <1>1 DEF InCall
  <2>4. CASE d = c
    BY <1>1, <2>1, <2>2, <2>4 DEF ConnectStage
  <2>5. CASE d # c
    BY <1>1, <1>6, <1>7, <2>1, <2>2, <2>3, <2>5 DEF ConnectStage
  <2> QED
    BY <2>4, <2>5
<1>20. TypeOK'
  <2>1. state' \in [Task -> {"new", "scheduled", "awaiting", "idle", "done"}]
    BY <1>1, <1>5 DEF IInv, TypeOK
  <2>2. connected' \in [Client -> BOOLEAN]
    BY <1>1 DEF IInv, TypeOK
  <2>3. Cardinality(running') <= Workers
    BY <1>1 DEF IInv, TypeOK
  <2> QED
    BY <1>1, <1>14, <1>15, <2>1, <2>2, <2>3, TypeFrame DEF IInv, TypeOK
<1> QED
  BY <1>12, <1>13, <1>14, <1>15, <1>16, <1>17, <1>18, <1>19, <1>20 DEF IInv
LEMMA DeliverInv ==
  ASSUME IInv, NEW c \in Client, Deliver(c)
  PROVE  IInv'
<1> DEFINE ev == sent[c][Received(c) + 1]
<1>1. /\ phase[c] = "up"
      /\ delivered[c] # <<>>
      /\ Received(c) < Len(sent[c])
      /\ delivered' = [delivered EXCEPT ![c] = Append(@, ev)]
      /\ Execute(c, ev.kind)
      /\ UNCHANGED <<sent, phase, stopped, toStop, listFunc, subscribed, me, pos, work,
                     running, started>>
  BY DEF Deliver, Go!Deliver, Go!Received, Received, stopVars
<1>2. /\ sent \in [Client -> Seq(Event)]
      /\ Received(c) \in Nat
      /\ \A d \in Client : Len(sent[d]) <= MaxEvents[d]
  BY ReceivedType DEF IInv, StreamOK
<1>3. \A d \in Client : Len(sent[d]) \in Nat
  BY <1>2, LenProperties
<1>4. Received(c) + 1 \in 1..Len(sent[c]) /\ Received(c) + 1 <= Len(sent[c])
  BY <1>1, <1>2, <1>3
<1>5. ev \in Event
  BY <1>2, <1>4, ElementOfSeq
<1> HIDE DEF ev
<1>6. ExecuteStep(c, ev)
  BY <1>1, <1>2, <1>3, <1>4, <1>5 DEF ExecuteStep
<1> QED
  BY <1>6, ExecuteInv

LEMMA PassOnInv ==
  ASSUME IInv, NEW c \in Client, NEW k \in Kind, PassOn(c, k)
  PROVE  IInv'
<1> DEFINE ev == [src |-> c, kind |-> k]
<1>1. /\ phase[c] = "up"
      /\ Len(sent[c]) < MaxEvents[c]
      /\ delivered[c] # <<>>
      /\ Received(c) = Len(sent[c])
      /\ sent' = [sent EXCEPT ![c] = Append(@, ev)]
      /\ delivered' = [delivered EXCEPT ![c] = Append(@, ev)]
      /\ Execute(c, k)
      /\ UNCHANGED <<phase, stopped, toStop, listFunc, subscribed, me, pos, work,
                     running, started>>
  BY DEF PassOn, Go!PassOn, Go!Received, Received, stopVars
<1>2. /\ sent \in [Client -> Seq(Event)]
      /\ \A d \in Client : Len(sent[d]) <= MaxEvents[d]
      /\ ev \in Event /\ ev.kind = k
  BY DEF IInv, StreamOK, Event
<1> HIDE DEF ev
<1>3. /\ Append(sent[c], ev) \in Seq(Event)
      /\ Len(Append(sent[c], ev)) = Len(sent[c]) + 1
      /\ Len(sent[c]) \in Nat
  BY <1>2, AppendAt
<1>4. sent' \in [Client -> Seq(Event)]
  BY <1>1, <1>2, <1>3
<1>5. ASSUME NEW d \in Client
      PROVE  Len(sent[d]) <= Len(sent'[d]) /\ Len(sent'[d]) <= MaxEvents[d]
  <2>1. Len(sent[d]) \in Nat /\ MaxEvents[d] \in Nat
    BY <1>2, LenProperties
  <2>2. sent'[d] = IF d = c THEN Append(sent[c], ev) ELSE sent[d]
    BY <1>1, <1>2
  <2> QED
    BY <1>1, <1>2, <1>3, <2>1, <2>2
<1>6. Received(c) + 1 <= Len(sent'[c])
  BY <1>1, <1>2, <1>3
<1>7. ExecuteStep(c, ev)
  BY <1>1, <1>2, <1>4, <1>5, <1>6 DEF ExecuteStep
<1> QED
  BY <1>7, ExecuteInv

-----------------------------------------------------------------------------
(***************************************************************************)
(* The invariant and the theorems.                                         *)
(***************************************************************************)
LEMMA StutterInv ==
  ASSUME IInv, UNCHANGED vars
  PROVE  IInv'
<1>1. UNCHANGED <<sent, delivered, phase, stopped, toStop, listFunc, subscribed, me,
                 connected, state, pos, ready, work, running, started>>
  BY DEF vars, goVars, stopVars, clientVars
<1>2. StreamOK' /\ FlagsOK' /\ Places' /\ JobsOK'
  BY <1>1, SameStream, SameQueues DEF IInv
<1>3. HandlersOK' /\ PosOK' /\ QueueOrder'
  BY <1>1, SameTasks DEF IInv
<1>4. ConnectOK'
  BY <1>1 DEF IInv, ConnectOK, ConnectStage, InCall, Received
<1>5. TypeOK'
  BY <1>1 DEF IInv, TypeOK
<1> QED
  BY <1>2, <1>3, <1>4, <1>5 DEF IInv

LEMMA NextInv == IInv /\ [Next]_vars => IInv'
<1> SUFFICES ASSUME IInv, [Next]_vars PROVE IInv'
  OBVIOUS
<1>1. CASE Application
  BY <1>1, GoOnInv, InterruptInv, ConnectInv, SubscribeInv DEF Application
<1>2. CASE Loop
  BY <1>2, HopInv, AwaitIdleInv, AwaitCallInv, FinishInv DEF Loop
<1>3. CASE Worker
  BY <1>3, TakeCallInv, CallReturnsInv, StopReturnsInv, StopSessionInv
  DEF Worker
<1>4. ASSUME NEW c \in Client, GoSession(c)
      PROVE  IInv'
  BY <1>4, RegisterClientInv, IntroduceInv, DeliverInv, NeonizeReturnsInv,
     AcceptInv, PassOnInv DEF GoSession
<1>5. CASE UNCHANGED vars
  BY <1>5, StutterInv
<1> QED
  BY <1>1, <1>2, <1>3, <1>4, <1>5 DEF Next

\* The loop, the workers and the sessions keep to the one invariant from which
\* the theorems below follow (events.py, execute; aioze/client.py, connect, idle).
THEOREM Inductive == Spec => []IInv
  BY InitInv, NextInv, PTL DEF Spec

\* The variables keep their types; in particular no more calls run than there
\* are workers, and no task goes past the end of its script.
THEOREM TypeCorrect == Spec => []TypeOK
<1>1. IInv => TypeOK
  BY DEF IInv
<1> QED
  BY <1>1, Inductive, PTL

\* Event.execute runs on another thread and does not wait for the handler;
\* the handlers of a client begin in the order of its events all the same,
\* whatever else the loop has queued.
THEOREM InOrder == Spec => []HandlersInOrder
<1>1. IInv => HandlersInOrder
  BY DEF IInv, HandlersOK, HandlersOf, HandlersInOrder
<1> QED
  BY <1>1, Inductive, PTL

\* client.me and client.connected, which execute sets on the thread of the
\* session, are set before the handlers that read them begin.
THEOREM FlagsBeforeHandlers == Spec => []FlagsFirst
<1>1. IInv => FlagsFirst
  <2> SUFFICES ASSUME IInv, NEW c \in Client, NEW i \in 1..Len(started[c])
               PROVE  /\ me[c]
                      /\ delivered[c][i + 1].kind = Connected => connected[c]
    BY DEF FlagsFirst
  <2>1. /\ Len(started[c]) \in Nat /\ Len(started[c]) <= Received(c)
        /\ Received(c) \in Nat
        /\ delivered[c] = <<>> => Received(c) = 0
        /\ delivered[c] # <<>> => Len(delivered[c]) = Received(c) + 1
    BY ReceivedType, LenProperties DEF IInv, HandlersOK, HandlersOf, TypeOK
  <2>2. delivered[c] # <<>> /\ i + 1 \in 2..Len(delivered[c])
    BY <2>1
  <2> QED
    BY <2>2 DEF IInv, FlagsOK
<1> QED
  BY <1>1, Inductive, PTL

\* When the task of connect has ended, so that idle returns, every event the
\* session delivered has had its handler begun.
THEOREM IdleAfterAll == Spec => []IdleSeesAll
<1>1. IInv => IdleSeesAll
  <2> SUFFICES ASSUME IInv, NEW c \in Client, Connects(c) = "done"
               PROVE  Len(started[c]) = Len(delivered[c]) - 1
    BY DEF IdleSeesAll
  <2>1. delivered[c] # <<>> /\ Len(started[c]) = Received(c)
    BY DEF IInv, ConnectOK, ConnectStage, Connects
  <2> QED
    BY <2>1, ReceivedType DEF IInv
<1> QED
  BY <1>1, Inductive, PTL

-----------------------------------------------------------------------------
(***************************************************************************)
(* From the event handler of Go to the coroutine: EventStream keeps the    *)
(* order of what it accepts, the loop the order of what it is given.       *)
(***************************************************************************)
Aligned(c) == \A i \in 1..Received(c) : delivered[c][i + 1] = sent[c][i]
SendsOwn(c) == \A i \in 1..Len(sent[c]) : sent[c][i].src = c

SameOrder == \A c \in Client : Aligned(c) /\ SendsOwn(c)

LEMMA AlignedKept ==
  ASSUME NEW c \in Client, Aligned(c), delivered'[c] = delivered[c],
         \A i \in 1..Received(c) : sent'[c][i] = sent[c][i]
  PROVE  Aligned(c)'
<1>1. Received(c)' = Received(c)
  BY DEF Received
<1> QED
  BY <1>1 DEF Aligned

LEMMA SendsOwnKept ==
  ASSUME NEW c \in Client, SendsOwn(c), sent'[c] = sent[c]
  PROVE  SendsOwn(c)'
  BY DEF SendsOwn

LEMMA SendsOwnAppend ==
  ASSUME NEW c \in Client, SendsOwn(c), sent[c] \in Seq(Event), NEW k \in Kind,
         sent'[c] = Append(sent[c], [src |-> c, kind |-> k])
  PROVE  /\ SendsOwn(c)'
         /\ sent'[c] \in Seq(Event)
         /\ Len(sent'[c]) = Len(sent[c]) + 1
         /\ Len(sent[c]) \in Nat
         /\ \A i \in 1..Len(sent[c]) : sent'[c][i] = sent[c][i]
         /\ sent'[c][Len(sent[c]) + 1] = [src |-> c, kind |-> k]
<1> DEFINE ev == [src |-> c, kind |-> k]
<1>1. ev \in Event /\ ev.src = c
  BY DEF Event
<1> HIDE DEF ev
<1>2. /\ sent'[c] \in Seq(Event)
      /\ Len(sent'[c]) = Len(sent[c]) + 1
      /\ Len(sent[c]) \in Nat
      /\ \A i \in 1..Len(sent[c]) : sent'[c][i] = sent[c][i]
      /\ sent'[c][Len(sent[c]) + 1] = ev
  BY <1>1, AppendAt DEF ev
<1>3. ASSUME NEW i \in 1..Len(sent'[c]) PROVE sent'[c][i].src = c
  <2>1. i \in 1..Len(sent[c]) \/ i = Len(sent[c]) + 1
    BY <1>2
  <2>2. CASE i \in 1..Len(sent[c])
    <3>1. sent'[c][i] = sent[c][i] /\ sent[c][i].src = c
      BY <1>2, <2>2 DEF SendsOwn
    <3> QED
      BY <3>1
  <2>3. CASE i = Len(sent[c]) + 1
    BY <1>1, <1>2, <2>3
  <2> QED
    BY <2>1, <2>2, <2>3
<1>4. SendsOwn(c)'
  BY <1>3 DEF SendsOwn
<1> QED
  BY <1>2, <1>4 DEF ev

LEMMA OnlySessionsSend ==
  ASSUME Application \/ Loop \/ Worker \/ UNCHANGED vars
  PROVE  UNCHANGED <<sent, delivered>>
<1> USE DEF goVars
<1>1. CASE Application
  BY <1>1 DEF Application, GoOn, Interrupt, Connect, Subscribe
<1>2. CASE Loop
  <2>1. \A t : Runs(t) => UNCHANGED goVars
    BY DEF Runs
  <2>2. Hop => UNCHANGED goVars
    BY DEF Hop
  <2>3. AwaitIdle => UNCHANGED goVars
    BY <2>1 DEF AwaitIdle
  <2>4. \A t : AwaitCall(t) \/ Finish(t) => UNCHANGED goVars
    BY <2>1 DEF AwaitCall, Finish
  <2> QED
    BY <1>2, <2>2, <2>3, <2>4 DEF Loop
<1>3. CASE Worker
  BY <1>3 DEF Worker, TakeCall, CallReturns, StopReturns, StopSession
<1>4. CASE UNCHANGED vars
  BY <1>4 DEF vars
<1> QED
  BY <1>1, <1>2, <1>3, <1>4

LEMMA SameOrderIntroduce ==
  ASSUME IInv, SameOrder, NEW c \in Client, Introduce(c)
  PROVE  SameOrder'
<1>1. /\ UNCHANGED sent
      /\ \A d \in Client \ {c} : delivered'[d] = delivered[d]
      /\ delivered'[c] = <<[src |-> c, kind |-> Me]>>
  BY DEF Introduce, Go!Introduce, IInv, StreamOK
<1>2. Aligned(c)'
  <2>1. Received(c)' = 0
    BY <1>1 DEF Received
  <2> QED
    BY <2>1 DEF Aligned
<1>3. \A d \in Client \ {c} : Aligned(d)'
  BY <1>1, AlignedKept DEF SameOrder
<1>4. \A d \in Client : SendsOwn(d)'
  BY <1>1, SendsOwnKept DEF SameOrder
<1> QED
  BY <1>2, <1>3, <1>4 DEF SameOrder

LEMMA SameOrderAccept ==
  ASSUME IInv, SameOrder, NEW c \in Client, NEW k \in Kind, Accept(c, k)
  PROVE  SameOrder'
<1>1. /\ sent \in [Client -> Seq(Event)]
      /\ Received(c) \in Nat /\ Received(c) <= Len(sent[c])
  BY ReceivedType DEF IInv, StreamOK
<1>2. /\ UNCHANGED delivered
      /\ sent'[c] = Append(sent[c], [src |-> c, kind |-> k])
      /\ \A d \in Client \ {c} : sent'[d] = sent[d]
  BY <1>1 DEF Accept, Go!Accept
<1>3. /\ SendsOwn(c)' /\ Len(sent[c]) \in Nat
      /\ \A i \in 1..Len(sent[c]) : sent'[c][i] = sent[c][i]
  BY <1>1, <1>2, SendsOwnAppend DEF SameOrder
<1>4. \A i \in 1..Received(c) : sent'[c][i] = sent[c][i]
  BY <1>1, <1>3
<1>5. Aligned(c)'
  BY <1>2, <1>4, AlignedKept DEF SameOrder
<1>6. \A d \in Client \ {c} : Aligned(d)' /\ SendsOwn(d)'
  BY <1>2, AlignedKept, SendsOwnKept DEF SameOrder
<1> QED
  BY <1>3, <1>5, <1>6 DEF SameOrder

\* One more event is delivered: the one behind those delivered so far.
LEMMA AlignedDeliver ==
  ASSUME IInv, NEW c \in Client, Aligned(c), NEW ev \in Event,
         delivered[c] # <<>>,
         delivered'[c] = Append(delivered[c], ev),
         \A i \in 1..Received(c) : sent'[c][i] = sent[c][i],
         sent'[c][Received(c) + 1] = ev
  PROVE  Aligned(c)'
<1> DEFINE n == Received(c)
           E == [src : Client, kind : Kind \cup {Me}]
<1>1. n \in Nat /\ Len(delivered[c]) = n + 1
  BY ReceivedType DEF IInv
<1>2. delivered[c] \in Seq(E) /\ ev \in E
  BY DEF IInv, StreamOK, Event
<1> HIDE DEF E
<1>3. /\ Len(delivered'[c]) = n + 2
      /\ \A i \in 1..(n + 1) : delivered'[c][i] = delivered[c][i]
      /\ delivered'[c][n + 2] = ev
  <2>1. /\ Len(delivered'[c]) = (n + 1) + 1
        /\ \A i \in 1..(n + 1) : delivered'[c][i] = delivered[c][i]
        /\ delivered'[c][(n + 1) + 1] = ev
    BY <1>1, <1>2, AppendAt
  <2>2. (n + 1) + 1 = n + 2
    BY <1>1
  <2> QED
    BY <2>1, <2>2
<1>4. Received(c)' = n + 1
  <2>1. delivered'[c] # <<>>
    <3>1. Len(delivered'[c]) # 0 /\ Len(<<>>) = 0
      BY <1>1, <1>3
    <3> QED
      BY <3>1
  <2> QED
    BY <1>1, <1>3, <2>1 DEF Received
<1>5. ASSUME NEW i \in 1..(n + 1) PROVE delivered'[c][i + 1] = sent'[c][i]
  <2>1. CASE i \in 1..n
    <3>1. i + 1 \in 1..(n + 1)
      BY <1>1, <2>1
    <3>2. delivered'[c][i + 1] = delivered[c][i + 1]
      BY <1>3, <3>1
    <3>3. delivered[c][i + 1] = sent[c][i] /\ sent'[c][i] = sent[c][i]
      BY <2>1 DEF Aligned
    <3> QED
      BY <3>2, <3>3
  <2>2. CASE i = n + 1
    <3>1. i + 1 = n + 2
      BY <1>1, <2>2
    <3> QED
      BY <1>3, <2>2, <3>1
  <2> QED
    BY <1>1, <2>1, <2>2
<1> QED
  BY <1>4, <1>5 DEF Aligned

LEMMA SameOrderDeliver ==
  ASSUME IInv, SameOrder, NEW c \in Client, Deliver(c)
  PROVE  SameOrder'
<1> DEFINE ev == sent[c][Received(c) + 1]
<1>1. /\ delivered[c] # <<>> /\ UNCHANGED sent
      /\ Received(c) < Len(sent[c])
      /\ delivered'[c] = Append(delivered[c], ev)
      /\ \A d \in Client \ {c} : delivered'[d] = delivered[d]
  BY DEF Deliver, Go!Deliver, Go!Received, Received, IInv, StreamOK
<1>2. ev \in Event
  <2>1. Len(sent[c]) \in Nat /\ Received(c) \in Nat /\ sent[c] \in Seq(Event)
    BY ReceivedType, LenProperties DEF IInv, StreamOK
  <2>2. Received(c) + 1 \in 1..Len(sent[c])
    BY <1>1, <2>1
  <2> QED
    BY <2>1, <2>2, ElementOfSeq
<1>3. sent'[c][Received(c) + 1] = ev
  BY <1>1
<1> HIDE DEF ev
<1>4. Aligned(c)'
  BY <1>1, <1>2, <1>3, AlignedDeliver DEF SameOrder
<1>5. \A d \in Client \ {c} : Aligned(d)'
  BY <1>1, AlignedKept DEF SameOrder
<1>6. \A d \in Client : SendsOwn(d)'
  BY <1>1, SendsOwnKept DEF SameOrder
<1> QED
  BY <1>4, <1>5, <1>6 DEF SameOrder

LEMMA SameOrderPassOn ==
  ASSUME IInv, SameOrder, NEW c \in Client, NEW k \in Kind, PassOn(c, k)
  PROVE  SameOrder'
<1>1. /\ delivered[c] # <<>> /\ Received(c) = Len(sent[c])
      /\ delivered'[c] = Append(delivered[c], [src |-> c, kind |-> k])
      /\ sent'[c] = Append(sent[c], [src |-> c, kind |-> k])
      /\ \A d \in Client \ {c} : /\ sent'[d] = sent[d]
                                 /\ delivered'[d] = delivered[d]
  BY DEF PassOn, Go!PassOn, Go!Received, Received, IInv, StreamOK
<1>2. sent[c] \in Seq(Event) /\ [src |-> c, kind |-> k] \in Event
  BY DEF IInv, StreamOK, Event
<1>3. /\ SendsOwn(c)'
      /\ \A i \in 1..Len(sent[c]) : sent'[c][i] = sent[c][i]
      /\ sent'[c][Len(sent[c]) + 1] = [src |-> c, kind |-> k]
  BY <1>1, <1>2, SendsOwnAppend DEF SameOrder
<1>4. Aligned(c)'
  BY <1>1, <1>2, <1>3, AlignedDeliver DEF SameOrder
<1>5. \A d \in Client \ {c} : Aligned(d)' /\ SendsOwn(d)'
  BY <1>1, AlignedKept, SendsOwnKept DEF SameOrder
<1> QED
  BY <1>3, <1>4, <1>5 DEF SameOrder

LEMMA SameOrderInvariant == Spec => []SameOrder
<1>1. Init => SameOrder
  BY DEF Init, Go!Init, SameOrder, Aligned, SendsOwn, Received
<1>2. IInv /\ SameOrder /\ [Next]_vars => SameOrder'
  <2> SUFFICES ASSUME IInv, SameOrder, [Next]_vars PROVE SameOrder'
    OBVIOUS
  <2>1. ASSUME UNCHANGED <<sent, delivered>> PROVE SameOrder'
    BY <2>1, AlignedKept, SendsOwnKept DEF SameOrder
  <2>2. ASSUME NEW c \in Client, GoSession(c)
        PROVE  SameOrder'
    <3>1. CASE RegisterClient(c) \/ NeonizeReturns(c)
      BY <2>1, <3>1 DEF RegisterClient, NeonizeReturns, goVars
    <3> QED
      BY <2>2, <3>1, SameOrderIntroduce, SameOrderAccept, SameOrderDeliver,
         SameOrderPassOn DEF GoSession
  <2> QED
    BY <2>1, <2>2, OnlySessionsSend DEF Next
<1> QED
  BY <1>1, <1>2, Inductive, PTL DEF Spec

\* The i-th handler of a client that begins is that of the i-th event its
\* session accepted, an event of its own (events.py, execute): from the event
\* handler in Go to the first statement of the coroutine, through the channel, the
\* thread of the session and the loop, nothing is lost, repeated or overtaken.
THEOREM HandledAsAccepted ==
  Spec => [](\A c \in Client : \A i \in 1..Len(started[c]) :
               /\ delivered[c][started[c][i] + 1] = sent[c][i]
               /\ sent[c][i].src = c)
<1>1. IInv /\ SameOrder =>
        \A c \in Client : \A i \in 1..Len(started[c]) :
          /\ delivered[c][started[c][i] + 1] = sent[c][i]
          /\ sent[c][i].src = c
  <2> SUFFICES ASSUME IInv, SameOrder, NEW c \in Client,
                      NEW i \in 1..Len(started[c])
               PROVE  /\ delivered[c][started[c][i] + 1] = sent[c][i]
                      /\ sent[c][i].src = c
    OBVIOUS
  <2>1. /\ started[c][i] = i
        /\ Len(started[c]) \in Nat /\ Len(started[c]) <= Received(c)
        /\ Received(c) \in Nat /\ Received(c) <= Len(sent[c])
        /\ Len(sent[c]) \in Nat
    BY ReceivedType, LenProperties DEF IInv, StreamOK, HandlersOK, HandlersOf,
       TypeOK
  <2>2. i \in 1..Received(c) /\ i \in 1..Len(sent[c])
    BY <2>1
  <2> QED
    BY <2>1, <2>2 DEF SameOrder, Aligned, SendsOwn
<1> QED
  BY <1>1, Inductive, SameOrderInvariant, PTL
=============================================================================
