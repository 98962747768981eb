----------------------------- MODULE LoaderProofs ------------------------------
(***************************************************************************)
(* Proofs about Loader, as a part of Program, for any number of processes, *)
(* versions and chunks.                                                    *)
(***************************************************************************)
EXTENDS Program, SequenceTheorems, TLAPS

Place == Ended \union {"fetch", "write", "load", "check"}

LEMMA Constants ==
  /\ Chunks \in Nat \ {0} /\ MaxImports \in Nat
  /\ Published \subseteq [Tag -> Tag]
  /\ Tag \subseteq Nat /\ NoTag \notin Tag
BY LoaderAssumption DEF LoaderAssumption

-----------------------------------------------------------------------------
(* Types.                                                                    *)

LEMMA LoaderStarts == LoaderInit => LoaderTypeOK
<1> SUFFICES ASSUME LoaderInit PROVE LoaderTypeOK
  OBVIOUS
<1>1. library \in Seq(Tag \union {NoTag}) /\ Len(library) = 0
  BY EmptySeq DEF LoaderInit
<1>2. Len(library) <= Chunks /\ 0 \in 0..Chunks /\ 0 \in 0..MaxImports
  BY <1>1, Constants
<1> QED
  BY <1>1, <1>2 DEF LoaderInit, LoaderTypeOK, Ended

LEMMA PlacesKept ==
  ASSUME LoaderTypeOK, NEW p \in Process, NEW place \in Place, GoTo(p, place)
  PROVE  /\ loading' \in [Process -> Place]
         /\ loading'[p] = place
         /\ \A q \in Process \ {p} : loading'[q] = loading[q]
BY DEF LoaderTypeOK, GoTo, Place

LEMMA ImportTypes ==
  ASSUME LoaderTypeOK, NEW p \in Process, Import(p)
  PROVE  LoaderTypeOK'
<1>1. imports' \in 0..MaxImports
  <2>1. imports \in 0..MaxImports /\ imports < MaxImports /\ imports' = imports + 1
    BY DEF LoaderTypeOK, Import
  <2> QED
    BY <2>1, Constants
<1>2. loading' \in [Process -> Place]
  BY PlacesKept DEF Import, Place, Ended
<1> QED
  BY <1>1, <1>2 DEF Import, LoaderTypeOK, Place

LEMMA OpenTypes ==
  ASSUME LoaderTypeOK, NEW p \in Process, Open(p)
  PROVE  LoaderTypeOK'
<1>1. library' \in Seq(Tag \union {NoTag}) /\ Len(library') = 0
  BY EmptySeq DEF Open
<1>2. Len(library') <= Chunks /\ 0 \in 0..Chunks
  BY <1>1, Constants
<1>3. loading' \in [Process -> Place]
  BY PlacesKept DEF Open, Place
<1>4. mixed' \in BOOLEAN /\ rewritten' \in [Process -> BOOLEAN]
  BY DEF Open, LoaderTypeOK
<1> QED
  BY <1>1, <1>2, <1>3, <1>4 DEF Open, LoaderTypeOK, Place

\* What a chunk makes of the file.
LEMMA Written ==
  ASSUME LoaderTypeOK, NEW p \in Process, Write(p)
  PROVE  LET i == written[p] + 1 IN
         /\ i \in 1..Chunks /\ written' = [written EXCEPT ![p] = i]
         /\ library' \in Seq(Tag \union {NoTag})
         /\ Len(library') = IF i > Len(library) THEN i ELSE Len(library)
         /\ Len(library') <= Chunks
         /\ library'[i] = declared[p]
         /\ \A j \in 1..Len(library) : j # i => library'[j] = library[j]
         /\ \A j \in 1..Len(library') :
              j # i /\ j > Len(library) => library'[j] = NoTag
<1> DEFINE i == written[p] + 1
           end == IF i > Len(library) THEN i ELSE Len(library)
           chunk(j) == IF j = i THEN declared[p]
                       ELSE IF j <= Len(library) THEN library[j] ELSE NoTag
<1>1. /\ library \in Seq(Tag \union {NoTag}) /\ Len(library) <= Chunks
      /\ written \in [Process -> 0..Chunks] /\ declared \in [Process -> Tag]
  BY DEF LoaderTypeOK
<1>2. Len(library) \in Nat /\ \A j \in 1..Len(library) : library[j] \in Tag \union {NoTag}
  BY <1>1, LenProperties
<1>3. i \in 1..Chunks
  <2>1. written[p] \in 0..Chunks /\ written[p] < Chunks
    BY <1>1 DEF Write
  <2> QED
    BY <2>1, Constants
<1>4. end \in Nat /\ end <= Chunks /\ i \in 1..end
  BY <1>1, <1>2, <1>3, Constants
<1>5. library' = [j \in 1..end |-> chunk(j)]
  BY DEF Write
<1>6. \A j \in 1..end : chunk(j) \in Tag \union {NoTag}
  BY <1>1, <1>2
<1>7. library' \in [1..end -> Tag \union {NoTag}]
  BY <1>5, <1>6
<1>8. library' \in Seq(Tag \union {NoTag}) /\ Len(library') = end
  <2>1. library' \in Seq(Tag \union {NoTag})
    BY <1>4, <1>7, SeqDef
  <2>2. DOMAIN library' = 1..end
    BY <1>5
  <2> QED
    BY <1>4, <2>1, <2>2, LenProperties
<1>9. /\ library'[i] = declared[p]
      /\ \A j \in 1..Len(library) : j # i => library'[j] = library[j]
      /\ \A j \in 1..end : j # i /\ j > Len(library) => library'[j] = NoTag
  BY <1>2, <1>4, <1>5
<1> QED
  BY <1>1, <1>3, <1>4, <1>8, <1>9 DEF Write

LEMMA WriteTypes ==
  ASSUME LoaderTypeOK, NEW p \in Process, Write(p)
  PROVE  LoaderTypeOK'
<1>1. written[p] + 1 \in 0..Chunks
  BY Written, Constants
<1>2. written' \in [Process -> 0..Chunks]
  BY <1>1, Written DEF LoaderTypeOK
<1> QED
  BY <1>2, Written DEF Write, LoaderTypeOK

LEMMA OtherTypes ==
  ASSUME LoaderTypeOK, NEW p \in Process,
         \/ Unavailable(p) \/ Downloaded(p) \/ CutOff(p) \/ Load(p) \/ Check(p)
         \/ Fault(p) \/ Upgrade
  PROVE  LoaderTypeOK'
<1>1. CASE Unavailable(p)
  BY <1>1, PlacesKept DEF Unavailable, LoaderTypeOK, Place, Ended
<1>2. CASE Downloaded(p)
  BY <1>2, PlacesKept DEF Downloaded, LoaderTypeOK, Place, Ended
<1>3. CASE CutOff(p)
  BY <1>3, PlacesKept DEF CutOff, LoaderTypeOK, Place, Ended
<1>4. CASE Load(p)
  <2>1. loading' \in [Process -> Place]
    BY <1>4, PlacesKept DEF Load, Place, Ended
  <2>2. mapped' \in [Process -> Tag \union {NoTag}]
    <3>1. Whole => library[1] \in Tag
      BY Constants DEF Whole
    <3> QED
      BY <1>4, <3>1 DEF Load, LoaderTypeOK
  <2> QED
    BY <1>4, <2>1, <2>2 DEF Load, LoaderTypeOK, Place
<1>5. CASE Check(p)
  BY <1>5, PlacesKept DEF Check, LoaderTypeOK, Place, Ended
<1>6. CASE Fault(p)
  BY <1>6, PlacesKept DEF Fault, LoaderTypeOK, Place, Ended
<1>7. CASE Upgrade
  BY <1>7 DEF Upgrade, LoaderTypeOK
<1> QED
  BY <1>1, <1>2, <1>3, <1>4, <1>5, <1>6, <1>7

LEMMA LoaderStepTypes == LoaderTypeOK /\ LoaderNext => LoaderTypeOK'
<1>1. LoaderTypeOK /\ Upgrade => LoaderTypeOK'
  BY DEF Upgrade, LoaderTypeOK
<1> QED
  BY <1>1, ImportTypes, OpenTypes, WriteTypes, OtherTypes DEF LoaderNext, Proceed

-----------------------------------------------------------------------------
(* The file.                                                                 *)

Writing(p) == loading[p] = "write"

\* All downloads that go on are of version t, and the file has nothing else.
Only(t) ==
  /\ \A p \in Process : Writing(p) => declared[p] = t
  /\ \A i \in 1..Len(library) : library[i] \in {t, NoTag}

FullOf(t) == Len(library) = Chunks /\ \A i \in 1..Chunks : library[i] = t

\* The file has all that the download of p has written.
Holds(t, p) ==
  /\ Writing(p)
  /\ written[p] <= Len(library)
  /\ \A i \in 1..written[p] : library[i] = t

\* The download that was the last to empty the file fills it without holes,
\* and whoever writes besides writes the same.
FileInv ==
  exists /\ ~cutOff /\ ~mixed =>
    \E t \in Tag : Only(t) /\ (FullOf(t) \/ \E p \in Process : Holds(t, p))

\* Steps that neither write nor end a download.
LEMMA FileKept ==
  ASSUME FileInv, library' = library, exists' = exists,
         cutOff => cutOff', mixed => mixed',
         \A p \in Process : Writing(p)' <=> Writing(p),
         \A p \in Process : Writing(p) =>
           declared'[p] = declared[p] /\ written'[p] = written[p]
  PROVE  FileInv'
BY DEF FileInv, Only, FullOf, Holds

LEMMA QuietFile ==
  ASSUME LoaderTypeOK, FileInv, NEW p \in Process,
         Import(p) \/ Unavailable(p) \/ Load(p) \/ Check(p)
  PROVE  FileInv'
<1>1. ASSUME NEW place \in Place, place # "write", loading[p] # "write", GoTo(p, place)
      PROVE  \A q \in Process : Writing(q)' <=> Writing(q)
  BY <1>1, PlacesKept DEF Writing
<1>2. CASE Import(p)
  <2>1. \A q \in Process : Writing(q)' <=> Writing(q)
    BY <1>1, <1>2 DEF Import, Place, Ended
  <2>2. \A q \in Process : Writing(q) =>
          declared'[q] = declared[q] /\ written'[q] = written[q]
    BY <1>2 DEF Import, Writing, Ended, LoaderTypeOK
  <2> QED
    BY <1>2, <2>1, <2>2, FileKept DEF Import
<1>3. CASE Unavailable(p)
  BY <1>1, <1>3, FileKept DEF Unavailable, Place, Ended
<1>4. CASE Load(p)
  BY <1>1, <1>4, FileKept DEF Load, Place, Ended
<1>5. CASE Check(p)
  BY <1>1, <1>5, FileKept DEF Check, Place, Ended
<1> QED
  BY <1>2, <1>3, <1>4, <1>5

LEMMA OpenFile ==
  ASSUME LoaderTypeOK, FileInv, NEW p \in Process, Open(p)
  PROVE  FileInv'
<1> SUFFICES ASSUME ~mixed' PROVE Only(declared[p])' /\ Holds(declared[p], p)'
  BY DEF FileInv, Open, LoaderTypeOK
<1>1. /\ library' = <<>> /\ declared' = declared /\ written'[p] = 0
      /\ Writing(p)' /\ \A q \in Process \ {p} : Writing(q)' <=> Writing(q)
  BY PlacesKept DEF Open, LoaderTypeOK, Writing, Place
<1>2. Len(<<>>) = 0
  BY EmptySeq
<1>3. \A q \in Process : Writing(q) => declared[q] = declared[p]
  BY DEF Open, Writing
<1> QED
  BY <1>1, <1>2, <1>3 DEF Only, Holds

LEMMA WriteFile ==
  ASSUME LoaderTypeOK, FileInv, NEW p \in Process, Write(p)
  PROVE  FileInv'
<1> SUFFICES ASSUME exists, ~cutOff, ~mixed
             PROVE  \E t \in Tag : Only(t)' /\ (FullOf(t)' \/ \E q \in Process : Holds(t, q)')
  BY DEF FileInv, Write
<1>1. PICK t \in Tag : Only(t) /\ (FullOf(t) \/ \E q \in Process : Holds(t, q))
  BY DEF FileInv
<1> DEFINE i == written[p] + 1
<1>2. /\ i \in 1..Chunks /\ written' = [written EXCEPT ![p] = i]
      /\ Len(library') = IF i > Len(library) THEN i ELSE Len(library)
      /\ Len(library') <= Chunks
      /\ library'[i] = declared[p]
      /\ \A j \in 1..Len(library) : j # i => library'[j] = library[j]
      /\ \A j \in 1..Len(library') :
           j # i /\ j > Len(library) => library'[j] = NoTag
  BY Written
<1>3. declared[p] = t
  BY <1>1 DEF Only, Writing, Write
<1>4. Len(library) \in Nat /\ Chunks \in Nat
  BY LenProperties, Constants DEF LoaderTypeOK
<1>5. /\ loading' = loading /\ declared' = declared
      /\ \A q \in Process : Writing(q)' <=> Writing(q)
  BY DEF Write, Writing
<1>6. Only(t)'
  <2>1. ASSUME NEW j \in 1..Len(library') PROVE library'[j] \in {t, NoTag}
    <3>1. CASE j = i
      BY <1>2, <1>3, <3>1
    <3>2. CASE j # i /\ j > Len(library)
      BY <1>2, <2>1, <3>2
    <3>3. CASE j # i /\ j <= Len(library)
      <4>1. j \in 1..Len(library)
        BY <1>2, <1>4, <2>1, <3>3
      <4> QED
        BY <1>1, <1>2, <3>3, <4>1 DEF Only
    <3> QED
      BY <1>2, <1>4, <2>1, <3>1, <3>2, <3>3
  <2> QED
    BY <1>1, <1>5, <2>1 DEF Only
<1>7. CASE FullOf(t)
  <2>1. Len(library') = Chunks
    BY <1>2, <1>4, <1>7 DEF FullOf
  <2>2. \A j \in 1..Chunks : library'[j] = t
    BY <1>2, <1>3, <1>7 DEF FullOf
  <2> QED
    BY <1>6, <2>1, <2>2 DEF FullOf
<1>8. ASSUME NEW q \in Process, Holds(t, q) PROVE Holds(t, q)'
  <2>1. written[q] \in Nat /\ written[p] \in Nat
    BY DEF LoaderTypeOK
  <2>2. CASE q = p
    <3>1. written'[p] = i
      BY <1>2 DEF LoaderTypeOK
    <3>2. i <= Len(library')
      BY <1>2, <1>4
    <3>3. \A j \in 1..i : library'[j] = t
      <4>1. \A j \in 1..i : j = i \/ j \in 1..written[p]
        BY <2>1
      <4>2. \A j \in 1..written[p] : j \in 1..Len(library) /\ j # i /\ library[j] = t
        BY <1>4, <1>8, <2>1, <2>2 DEF Holds
      <4> QED
        BY <1>2, <1>3, <4>1, <4>2
    <3> QED
      BY <1>5, <1>8, <2>2, <3>1, <3>2, <3>3 DEF Holds
  <2>3. CASE q # p
    <3>1. written'[q] = written[q]
      BY <1>2, <2>3 DEF LoaderTypeOK
    <3>2. written[q] <= Len(library')
      BY <1>2, <1>4, <1>8, <2>1 DEF Holds
    <3>3. \A j \in 1..written[q] : library'[j] = t
      <4>1. \A j \in 1..written[q] : j \in 1..Len(library) /\ library[j] = t
        BY <1>4, <1>8, <2>1 DEF Holds
      <4> QED
        BY <1>2, <1>3, <4>1
    <3> QED
      BY <1>5, <1>8, <3>1, <3>2, <3>3 DEF Holds
  <2> QED
    BY <2>2, <2>3
<1> QED
  BY <1>1, <1>6, <1>7, <1>8

LEMMA DownloadedFile ==
  ASSUME LoaderTypeOK, FileInv, NEW p \in Process, Downloaded(p)
  PROVE  FileInv'
<1> SUFFICES ASSUME exists, ~cutOff, ~mixed
             PROVE  \E t \in Tag : Only(t)' /\ (FullOf(t)' \/ \E q \in Process : Holds(t, q)')
  BY DEF FileInv, Downloaded
<1>1. PICK t \in Tag : Only(t) /\ (FullOf(t) \/ \E q \in Process : Holds(t, q))
  BY DEF FileInv
<1>2. /\ library' = library /\ declared' = declared /\ written' = written
      /\ ~Writing(p)' /\ \A q \in Process \ {p} : Writing(q)' <=> Writing(q)
  BY PlacesKept DEF Downloaded, Writing, Place
<1>3. Only(t)'
  BY <1>1, <1>2 DEF Only
<1>4. FullOf(t) => FullOf(t)'
  BY <1>2 DEF FullOf
<1>5. Holds(t, p) => FullOf(t)'
  <2>1. /\ written[p] = Chunks /\ Len(library) <= Chunks
        /\ Chunks \in Nat /\ Len(library) \in Nat
    BY LenProperties, Constants DEF Downloaded, LoaderTypeOK
  <2> QED
    BY <1>2, <2>1 DEF Holds, FullOf
<1>6. \A q \in Process \ {p} : Holds(t, q) => Holds(t, q)'
  BY <1>2 DEF Holds
<1> QED
  BY <1>1, <1>3, <1>4, <1>5, <1>6

\* A download that ends early is remembered.
LEMMA EndedFile ==
  ASSUME LoaderTypeOK, FileInv, NEW p \in Process, CutOff(p) \/ Fault(p)
  PROVE  FileInv'
<1>1. CASE cutOff'
  BY <1>1 DEF FileInv
<1>2. CASE ~cutOff'
  <2>1. Fault(p) /\ ~Writing(p)
    BY <1>2 DEF CutOff, Fault, Writing
  <2>2. \A q \in Process : Writing(q)' <=> Writing(q)
    BY <2>1, PlacesKept DEF Fault, Writing, Place, Ended
  <2> QED
    BY <2>1, <2>2, FileKept DEF Fault
<1> QED
  BY <1>1, <1>2

LEMMA FileStep == LoaderTypeOK /\ FileInv /\ LoaderNext => FileInv'
<1>1. FileInv /\ Upgrade => FileInv'
  BY FileKept DEF Upgrade, Writing
<1> QED
  BY <1>1, QuietFile, OpenFile, WriteFile, DownloadedFile, EndedFile
    DEF LoaderNext, Proceed

LEMMA LoaderRests ==
  LoaderTypeOK /\ FileInv /\ UNCHANGED loaderVars => LoaderTypeOK' /\ FileInv'
<1>1. LoaderTypeOK /\ UNCHANGED loaderVars => LoaderTypeOK'
  BY DEF loaderVars, LoaderTypeOK
<1>2. FileInv /\ UNCHANGED loaderVars => FileInv'
  BY FileKept DEF loaderVars, Writing
<1> QED
  BY <1>1, <1>2

LEMMA LoaderInvariant == Spec => [](LoaderTypeOK /\ FileInv)
<1>1. Init => LoaderTypeOK /\ FileInv
  BY LoaderStarts DEF Init, LoaderInit, FileInv
<1>2. LoaderTypeOK /\ FileInv /\ [Next]_programVars => (LoaderTypeOK /\ FileInv)'
  BY LoaderStepTypes, FileStep, LoaderRests DEF Next, programVars
<1> QED
  BY <1>1, <1>2, PTL DEF Spec

\* The types of the file and of the processes that import neonize.
THEOREM LoaderTypeCorrect == Spec => []LoaderTypeOK
BY LoaderInvariant, PTL

\* Any number of processes may download into the one file at once: if they
\* download the same version, and none is cut off, it is whole in the end.
THEOREM DownloadsComplete == Spec => []CompleteAtRest
<1>1. LoaderTypeOK /\ FileInv => CompleteAtRest
  <2> SUFFICES ASSUME LoaderTypeOK, FileInv, AtRest, exists, ~cutOff, ~mixed
               PROVE  Whole
    BY DEF CompleteAtRest
  <2>1. PICK t \in Tag : FullOf(t) \/ \E p \in Process : Holds(t, p)
    BY DEF FileInv
  <2>2. FullOf(t)
    BY <2>1 DEF AtRest, Holds, Writing
  <2>3. 1 \in 1..Chunks
    BY Constants
  <2> QED
    BY <2>2, <2>3 DEF FullOf, Whole
<1> QED
  BY <1>1, LoaderInvariant, PTL

-----------------------------------------------------------------------------
(* The file that nobody repairs.                                             *)

\* Whoever still wants to load the broken file has no library open.
Stuck ==
  /\ exists /\ ~Whole
  /\ \A p \in Process :
       loading[p] \in Ended \/ (loading[p] = "load" /\ mapped[p] = NoTag)

LEMMA StuckImport ==
  ASSUME LoaderTypeOK, Stuck, NEW p \in Process, Import(p)
  PROVE  Stuck'
<1>1. /\ loading'[p] = "load" /\ mapped'[p] = NoTag
      /\ \A q \in Process \ {p} : loading'[q] = loading[q] /\ mapped'[q] = mapped[q]
  BY DEF Import, GoTo, Stuck, LoaderTypeOK
<1>2. exists' /\ ~Whole'
  BY DEF Import, Stuck, Whole
<1> QED
  BY <1>1, <1>2 DEF Stuck

LEMMA StuckFails ==
  ASSUME LoaderTypeOK, Stuck, NEW p \in Process, Load(p) \/ Fault(p)
  PROVE  Stuck'
<1>1. GoTo(p, "failed") /\ UNCHANGED <<exists, library, mapped>>
  BY DEF Load, Fault, Stuck, Ended
<1>2. /\ loading'[p] = "failed"
      /\ \A q \in Process \ {p} : loading'[q] = loading[q]
  BY <1>1, PlacesKept DEF Place, Ended
<1> QED
  BY <1>1, <1>2 DEF Stuck, Whole, Ended

LEMMA StuckStays == LoaderTypeOK /\ Stuck /\ [Next]_programVars => Stuck'
<1>1. ASSUME Stuck, UNCHANGED <<exists, library, loading, mapped>>
      PROVE  Stuck'
  BY <1>1 DEF Stuck, Whole
<1>2. ASSUME LoaderTypeOK, Stuck, NEW p \in Process,
             Open(p) \/ Unavailable(p) \/ Write(p) \/ Downloaded(p) \/ CutOff(p) \/ Check(p)
      PROVE  FALSE
  BY <1>2 DEF Open, Unavailable, Write, Downloaded, CutOff, Check, Stuck, Ended
<1>3. LoaderTypeOK /\ Stuck /\ LoaderNext => Stuck'
  BY <1>1, <1>2, StuckImport, StuckFails DEF LoaderNext, Proceed, Upgrade
<1> QED
  BY <1>1, <1>3 DEF Next, programVars, loaderVars

\* Once the file is broken and nobody loads it, no import and no update of the
\* package makes it whole: what exists is never downloaded again.
THEOREM BrokenForEver == Spec => Unrepaired
<1>1. Broken => Stuck
  BY DEF Broken, Stuck
<1>2. Stuck => ~Whole
  BY DEF Stuck
<1> QED
  BY <1>1, <1>2, StuckStays, LoaderInvariant, PTL DEF Spec, Unrepaired
==============================================================================
