------------------------------ MODULE MediaProofs ------------------------------
(***************************************************************************)
(* Proofs about Media, as a part of Program, for any number of conversions *)
(* and any clock.                                                          *)
(***************************************************************************)
EXTENDS Program, SequenceTheorems, TLAPS

-----------------------------------------------------------------------------
(* What a converter has yet to do.                                           *)

Step == {"new", "writing", "open", "calling", "closing", "closed", "unmade"}
Work == Extension \union Calls \union {"collect", "remove"}

\* Once it has named its output, and before, or without one.
Rest ==
  {<<>>, <<"remove">>, <<"collect", "remove">>, <<"convert", "collect", "remove">>,
   <<"probe", "convert", "collect", "remove">>}
Fresh ==
  {<<>>, <<"probe">>, <<"grab">>, <<"probe", "grab">>,
   <<"webp", "probe", "convert", "collect", "remove">>,
   <<"webp", "convert", "collect", "remove">>,
   <<"mp4", "convert", "collect", "remove">>,
   <<"mp3", "convert", "collect", "remove">>}

LEMMA OperationsFresh == \A c \in Converter : Operations(c) \subseteq Fresh
BY DEF Operations, acv_to_webp, cv_to_webp, gif_to_mp4, to_mp3, extract_info,
  extract_thumbnail, Fresh

LEMMA WorkSequences == Fresh \subseteq Seq(Work) /\ Rest \subseteq Seq(Work)
BY DEF Fresh, Rest, Work, Extension, Calls

LEMMA RestGoesOn ==
  ASSUME NEW t \in Rest, t # <<>>
  PROVE  /\ Tail(t) \in Rest
         /\ Head(t) \in Calls \union {"collect", "remove"}
         /\ Head(t) # "remove" => Tail(t) # <<>>
         /\ Head(t) = "remove" => Tail(t) = <<>>
<1>1. CASE t = <<"remove">>
  <2>1. Head(t) = "remove" /\ Tail(t) = <<>>
    BY <1>1
  <2> QED
    BY <2>1 DEF Rest
<1>2. CASE t = <<"collect", "remove">>
  <2>1. Head(t) = "collect" /\ Tail(t) = <<"remove">>
    BY <1>2
  <2> QED
    BY <2>1 DEF Rest
<1>3. CASE t = <<"convert", "collect", "remove">>
  <2>1. Head(t) = "convert" /\ Tail(t) = <<"collect", "remove">>
    BY <1>3
  <2> QED
    BY <2>1 DEF Rest, Calls
<1>4. CASE t = <<"probe", "convert", "collect", "remove">>
  <2>1. Head(t) = "probe" /\ Tail(t) = <<"convert", "collect", "remove">>
    BY <1>4
  <2>2. Tail(t) # <<>>
    BY <2>1
  <2>3. Tail(t) \in Rest
    BY <2>1 DEF Rest
  <2> QED
    BY <2>1, <2>2, <2>3 DEF Calls
<1>5. t \in {<<"remove">>, <<"collect", "remove">>,
               <<"convert", "collect", "remove">>,
               <<"probe", "convert", "collect", "remove">>}
  BY DEF Rest
<1> QED
  BY <1>1, <1>2, <1>3, <1>4, <1>5

LEMMA FreshGoesOn ==
  ASSUME NEW t \in Fresh, t # <<>>
  PROVE  /\ Head(t) \in Extension => Tail(t) \in Rest
         /\ Head(t) \notin Extension => Tail(t) \in Fresh
         /\ Head(t) \in Extension \union {"probe", "grab"}
<1>1. CASE t = <<"probe">>
  <2>1. Head(t) = "probe" /\ Tail(t) = <<>>
    BY <1>1
  <2> QED
    BY <2>1 DEF Fresh, Extension
<1>2. CASE t = <<"grab">>
  <2>1. Head(t) = "grab" /\ Tail(t) = <<>>
    BY <1>2
  <2> QED
    BY <2>1 DEF Fresh, Extension
<1>3. CASE t = <<"probe", "grab">>
  <2>1. Head(t) = "probe" /\ Tail(t) = <<"grab">>
    BY <1>3
  <2> QED
    BY <2>1 DEF Fresh, Extension
<1>4. CASE t = <<"webp", "probe", "convert", "collect", "remove">>
  <2>1. /\ Head(t) = "webp"
        /\ Tail(t) = <<"probe", "convert", "collect", "remove">>
    BY <1>4
  <2> QED
    BY <2>1 DEF Rest, Extension
<1>5. ASSUME NEW ext \in Extension, t = <<ext, "convert", "collect", "remove">>
      PROVE  Head(t) \in Extension /\ Tail(t) \in Rest
  <2>1. Head(t) = ext /\ Tail(t) = <<"convert", "collect", "remove">>
    BY <1>5
  <2> QED
    BY <2>1 DEF Rest
<1>6. Extension = {"webp", "mp4", "mp3"}
  BY DEF Extension
<1> QED
  BY <1>1, <1>2, <1>3, <1>4, <1>5, <1>6 DEF Fresh

LEMMA FilesAreNames == <<>> \notin File
BY DEF File

-----------------------------------------------------------------------------
(* The inductive invariant.                                                  *)

\* An operation first names its output and then uses it; its child runs while
\* it calls, or after an exception has ended the call.
Frame(c) ==
  /\ \/ temp[c] = <<>> /\ todo[c] \in Fresh
     \/ temp[c] \in File /\ temp[c][1] = named[c] /\ todo[c] \in Rest
  /\ step[c] \in {"new", "writing", "unmade", "open"} => child[c] = "none"
  /\ step[c] = "calling" => todo[c] # <<>> /\ Head(todo[c]) \in Calls
  /\ step[c] = "closing" => raised[c]
  /\ step[c] = "closed" => ~input[c] /\ (raised[c] \/ todo[c] = <<>>)
  /\ child[c] = "checked" => Converts(c)

\* A file holds bytes of those that named it and have not removed it.
Owners ==
  \A f \in File : \A d \in outputs[f] :
    temp[d] = f /\ (raised[d] \/ todo[d] # <<>>)

\* What was collected is of those that chose the same name.
Results ==
  \A c \in Converter : \A d \in result[c] : temp[d] = temp[c] /\ temp[c] # <<>>

MediaInv ==
  /\ MediaTypeOK
  /\ \A c \in Converter : Frame(c)
  /\ Owners
  /\ Results

-----------------------------------------------------------------------------
(* The first state.                                                          *)

LEMMA MediaStarts == MediaInit => MediaInv
<1> SUFFICES ASSUME MediaInit PROVE MediaInv
  OBVIOUS
<1>1. PICK errand \in Errands :
        /\ \A c \in Converter : errand[c].todo \in Operations(c)
        /\ data = [c \in Converter |-> errand[c].data]
        /\ todo = [c \in Converter |-> errand[c].todo]
  BY DEF MediaInit
<1>2. \A c \in Converter : todo[c] \in Fresh /\ todo[c] \in Seq(Work)
  BY <1>1, OperationsFresh, WorkSequences
<1>3. \A c \in Converter : data[c] \in {"name", "bytes", "url"}
  BY <1>1, MediaAssumption DEF MediaAssumption
<1>4. 0 \in 0..MaxTime
  BY MediaAssumption DEF MediaAssumption
<1>5. MediaTypeOK
  BY <1>1, <1>2, <1>3, <1>4 DEF MediaInit, MediaTypeOK, Work
<1>6. \A c \in Converter : Frame(c)
  BY <1>2 DEF MediaInit, Frame
<1>7. Owners /\ Results
  BY DEF MediaInit, Owners, Results
<1> QED
  BY <1>5, <1>6, <1>7 DEF MediaInv

-----------------------------------------------------------------------------
(* The steps.                                                                *)

\* What a converter does to its own frame leaves those of the others alone.
LEMMA OthersKept ==
  ASSUME \A d \in Converter : Frame(d), NEW c \in Converter, Frame(c)',
         \A d \in Converter \ {c} :
           /\ step'[d] = step[d] /\ todo'[d] = todo[d] /\ input'[d] = input[d]
           /\ temp'[d] = temp[d] /\ named'[d] = named[d]
           /\ child'[d] = child[d] /\ raised'[d] = raised[d]
  PROVE  \A d \in Converter : Frame(d)'
<1> SUFFICES ASSUME NEW d \in Converter, d # c PROVE Frame(d)'
  OBVIOUS
<1> QED
  BY DEF Frame, Converts

\* Steps that touch no file.
LEMMA FilesKept ==
  ASSUME Owners, Results, UNCHANGED <<outputs, temp, result>>,
         \A d \in Converter : raised[d] => raised'[d],
         \A d \in Converter : temp[d] \in File /\ todo[d] # <<>> => todo'[d] # <<>>,
         outputs \in [File -> SUBSET Converter]
  PROVE  Owners' /\ Results'
<1>1. Owners'
  BY DEF Owners
<1>2. Results'
  BY DEF Results
<1> QED
  BY <1>1, <1>2

ChildPlace == {"none", "started", "checked", "writing", "eof", "well", "badly"}

\* What the operators that steps are written with do.
LEMMA AtTypes ==
  ASSUME MediaTypeOK, NEW c \in Converter, NEW place \in Step, At(c, place)
  PROVE  /\ step' \in [Converter -> Step] /\ step'[c] = place
         /\ \A d \in Converter \ {c} : step'[d] = step[d]
<1>1. step \in [Converter -> Step]
  BY DEF MediaTypeOK, Step
<1> QED
  BY <1>1 DEF At

LEMMA RaisesTypes ==
  ASSUME MediaTypeOK, NEW c \in Converter, Raises(c)
  PROVE  /\ step' \in [Converter -> Step] /\ step'[c] = "closing"
         /\ raised' \in [Converter -> BOOLEAN] /\ raised'[c]
         /\ \A d \in Converter \ {c} : step'[d] = step[d] /\ raised'[d] = raised[d]
<1>1. At(c, "closing") /\ "closing" \in Step /\ raised \in [Converter -> BOOLEAN]
  BY DEF Raises, MediaTypeOK, Step
<1> QED
  BY <1>1, AtTypes DEF Raises

LEMMA ChildTypes ==
  ASSUME MediaTypeOK, NEW c \in Converter, NEW at \in ChildPlace,
         child' = [child EXCEPT ![c] = at]
  PROVE  /\ child' \in [Converter -> ChildPlace] /\ child'[c] = at
         /\ \A d \in Converter \ {c} : child'[d] = child[d]
<1>1. child \in [Converter -> ChildPlace]
  BY DEF MediaTypeOK, ChildPlace
<1> QED
  BY <1>1

LEMMA InputSteps ==
  ASSUME MediaInv, NEW c \in Converter,
         Enter(c) \/ Fill(c) \/ FillFails(c) \/ Close(c)
  PROVE  MediaInv'
<1> DEFINE Places == \/ step[c] = "new" /\ step'[c] \in {"open", "writing"}
                     \/ step[c] = "writing" /\ step'[c] \in {"open", "unmade"}
                     \/ /\ step[c] = "closing" \/ (step[c] = "open" /\ todo[c] = <<>>)
                        /\ step'[c] = "closed" /\ ~input'[c]
           Others == \A d \in Converter \ {c} :
                       step'[d] = step[d] /\ input'[d] = input[d]
           Types == step' \in [Converter -> Step] /\ input' \in [Converter -> BOOLEAN]
           Same == UNCHANGED <<now, data, todo, temp, outputs, child, stderr,
                               result, raised, named>>
<1> USE DEF MediaInv
<1>a. input \in [Converter -> BOOLEAN] /\ MediaTypeOK
  BY DEF MediaTypeOK
<1>b. ASSUME Enter(c) PROVE Places /\ Others /\ Types /\ Same
  BY <1>a, <1>b, AtTypes DEF Enter, Step
<1>c. ASSUME Fill(c) PROVE Places /\ Others /\ Types /\ Same
  BY <1>a, <1>c, AtTypes DEF Fill, Step
<1>d. ASSUME FillFails(c) PROVE Places /\ Others /\ Types /\ Same
  BY <1>a, <1>d, AtTypes DEF FillFails, Step
<1>e. ASSUME Close(c) PROVE Places /\ Others /\ Types /\ Same
  <2>1. /\ step' \in [Converter -> Step] /\ step'[c] = "closed"
        /\ \A d \in Converter \ {c} : step'[d] = step[d]
    BY <1>a, <1>e, AtTypes DEF Close, Step
  <2>2. /\ input' \in [Converter -> BOOLEAN] /\ ~input'[c]
        /\ \A d \in Converter \ {c} : input'[d] = input[d]
    BY <1>a, <1>e DEF Close
  <2>3. (step[c] = "closing" \/ (step[c] = "open" /\ todo[c] = <<>>)) /\ Same
    BY <1>e DEF Close
  <2>4. Places
    BY <2>1, <2>2, <2>3
  <2>5. Others /\ Types
    BY <2>1, <2>2
  <2> QED
    BY <2>3, <2>4, <2>5
<1>1. Places /\ Others /\ Types /\ Same
  BY <1>b, <1>c, <1>d, <1>e
<1>2. MediaTypeOK'
  BY <1>1 DEF MediaTypeOK, Step
<1>3. Frame(c)'
  BY <1>1 DEF MediaInv, Frame, Converts
<1>4. \A d \in Converter : Frame(d)'
  BY <1>1, <1>3, OthersKept DEF MediaInv
<1>5. Owners' /\ Results'
  BY <1>1, FilesKept DEF MediaInv, MediaTypeOK
<1> QED
  BY <1>2, <1>4, <1>5 DEF MediaInv

LEMMA DoneTypes ==
  ASSUME MediaTypeOK, NEW c \in Converter, Done(c), todo[c] # <<>>
  PROVE  /\ todo' \in [Converter -> Seq(Work)]
         /\ todo'[c] = Tail(todo[c])
         /\ \A d \in Converter \ {c} : todo'[d] = todo[d]
<1>1. todo \in [Converter -> Seq(Work)]
  BY DEF MediaTypeOK, Work
<1>2. Tail(todo[c]) \in Seq(Work)
  BY <1>1, HeadTailProperties
<1> QED
  BY <1>1, <1>2 DEF Done

LEMMA NameStep ==
  ASSUME MediaInv, NEW c \in Converter, Name(c)
  PROVE  MediaInv'
<1>1. PICK ext \in Extension :
        Doing(c, ext) /\ temp' = [temp EXCEPT ![c] = <<now, ext>>]
  BY DEF Name
<1>2. /\ todo' \in [Converter -> Seq(Work)]
      /\ todo'[c] = Tail(todo[c])
      /\ \A d \in Converter \ {c} : todo'[d] = todo[d]
  BY <1>1, DoneTypes DEF Name, Doing, MediaInv
<1>3. temp[c] = <<>> /\ todo[c] \in Fresh
  BY <1>1, RestGoesOn DEF MediaInv, Frame, Doing, Calls, Extension
<1>4. todo'[c] \in Rest
  BY <1>1, <1>2, <1>3, FreshGoesOn DEF Doing
<1>5. <<now, ext>> \in File /\ <<now, ext>>[1] = now /\ now \in 0..MaxTime
  BY DEF File, MediaInv, MediaTypeOK
<1>6. /\ temp' \in [Converter -> File \union {<<>>}]
      /\ temp'[c] = <<now, ext>>
      /\ \A d \in Converter \ {c} : temp'[d] = temp[d]
  BY <1>1, <1>5 DEF MediaInv, MediaTypeOK
<1>7. /\ named' \in [Converter -> 0..MaxTime]
      /\ named'[c] = now
      /\ \A d \in Converter \ {c} : named'[d] = named[d]
  BY <1>5 DEF Name, MediaInv, MediaTypeOK
<1>8. UNCHANGED <<now, step, data, input, outputs, child, stderr, result, raised>>
  BY DEF Name
<1>9. MediaTypeOK'
  BY <1>2, <1>6, <1>7, <1>8 DEF MediaInv, MediaTypeOK, Work
<1>10. step[c] = "open" /\ child[c] = "none"
  BY <1>1 DEF Doing, MediaInv, Frame
<1>11. Frame(c)'
  BY <1>4, <1>5, <1>6, <1>7, <1>8, <1>10 DEF Frame
<1>12. \A d \in Converter : Frame(d)'
  BY <1>2, <1>6, <1>7, <1>8, <1>11, OthersKept DEF MediaInv
\* Nobody holds bytes of c yet.
<1>13. Owners'
  <2>1. \A f \in File : c \notin outputs[f]
    BY <1>3, FilesAreNames DEF MediaInv, Owners
  <2>2. \A f \in File : outputs[f] \subseteq Converter
    BY DEF MediaInv, MediaTypeOK
  <2>3. ASSUME NEW f \in File, NEW d \in outputs[f]
        PROVE  temp'[d] = f /\ (raised'[d] \/ todo'[d] # <<>>)
    <3>1. d \in Converter \ {c}
      BY <2>1, <2>2
    <3>2. temp[d] = f /\ (raised[d] \/ todo[d] # <<>>)
      BY DEF MediaInv, Owners
    <3> QED
      BY <1>2, <1>6, <1>8, <3>1, <3>2
  <2> QED
    BY <1>8, <2>3 DEF Owners
<1>14. Results'
  <2>1. \A d \in Converter : result[d] \subseteq Converter
    BY DEF MediaInv, MediaTypeOK
  <2>2. \A d \in Converter : c \notin result[d]
    BY <1>3 DEF MediaInv, Results
  <2>3. result[c] = {}
    BY <1>3 DEF MediaInv, Results
  <2> QED
    BY <1>6, <1>8, <2>1, <2>2, <2>3 DEF MediaInv, Results
<1> QED
  BY <1>9, <1>12, <1>13, <1>14 DEF MediaInv

LEMMA CallingSteps ==
  ASSUME MediaInv, NEW c \in Converter,
         Call(c) \/ WaitTimesOut(c) \/ Cancelled(c)
  PROVE  MediaInv'
<1> DEFINE Places == \/ /\ step[c] = "open" /\ todo[c] # <<>>
                        /\ Head(todo[c]) \in Calls
                        /\ step'[c] = "calling" /\ child'[c] = "started"
                     \/ /\ step[c] \in {"open", "calling"} /\ step'[c] = "closing"
                        /\ raised'[c] /\ child'[c] = child[c]
           Others == \A d \in Converter \ {c} :
                       /\ step'[d] = step[d] /\ child'[d] = child[d]
                       /\ raised'[d] = raised[d]
           Types == /\ step' \in [Converter -> Step]
                    /\ child' \in [Converter -> ChildPlace]
                    /\ stderr' \in [Converter -> {"empty", "full", "drained"}]
                    /\ raised' \in [Converter -> BOOLEAN]
           Same == UNCHANGED <<now, data, todo, input, temp, outputs, result, named>>
<1>a. /\ stderr \in [Converter -> {"empty", "full", "drained"}]
      /\ raised \in [Converter -> BOOLEAN]
      /\ child \in [Converter -> ChildPlace] /\ MediaTypeOK
  BY DEF MediaInv, MediaTypeOK, ChildPlace
<1>b. ASSUME Call(c) PROVE Places /\ Others /\ Types /\ Same
  <2>1. step[c] = "open" /\ todo[c] # <<>> /\ Head(todo[c]) \in Calls
    BY <1>b DEF Call, Doing
  <2>2. CASE /\ At(c, "calling") /\ UNCHANGED raised
             /\ child' = [child EXCEPT ![c] = "started"]
             /\ stderr' = [stderr EXCEPT ![c] = "empty"]
    <3>1. Places /\ Others
      BY <1>a, <2>1, <2>2, AtTypes, ChildTypes DEF Step, ChildPlace
    <3>2. Types
      BY <1>a, <2>2, AtTypes, ChildTypes DEF Step, ChildPlace
    <3>3. Same
      BY <1>b DEF Call
    <3> QED
      BY <3>1, <3>2, <3>3
  <2>3. CASE Raises(c) /\ UNCHANGED <<child, stderr>>
    BY <1>a, <1>b, <2>1, <2>3, RaisesTypes DEF Call
  <2> QED
    BY <1>b, <2>2, <2>3 DEF Call
<1>c. ASSUME WaitTimesOut(c) \/ Cancelled(c)
      PROVE  Places /\ Others /\ Types /\ Same
  BY <1>a, <1>c, RaisesTypes DEF WaitTimesOut, Cancelled
<1>1. Places /\ Others /\ Types /\ Same
  BY <1>b, <1>c
<1>x. raised[c] => raised'[c]
  BY <1>a, <1>b, <1>c, RaisesTypes DEF Call, WaitTimesOut, Cancelled
<1>2. MediaTypeOK'
  BY <1>1 DEF MediaInv, MediaTypeOK, Step, ChildPlace
<1>3. Frame(c)'
  BY <1>1 DEF MediaInv, Frame, Converts
<1>4. \A d \in Converter : Frame(d)'
  BY <1>1, <1>3, OthersKept DEF MediaInv
<1>5. Owners' /\ Results'
  BY <1>1, <1>x, FilesKept DEF MediaInv, MediaTypeOK
<1> QED
  BY <1>2, <1>4, <1>5 DEF MediaInv

LEMMA ReturnStep ==
  ASSUME MediaInv, NEW c \in Converter, Return(c)
  PROVE  MediaInv'
<1>1. /\ step[c] = "calling" /\ todo[c] # <<>> /\ Head(todo[c]) \in Calls
      /\ child'[c] = "none"
      /\ \A d \in Converter \ {c} :
           step'[d] = step[d] /\ child'[d] = child[d] /\ raised'[d] = raised[d]
      /\ raised[c] => raised'[c]
      /\ UNCHANGED <<now, data, input, temp, outputs, stderr, result, named>>
  BY DEF Return, Raises, At, MediaInv, MediaTypeOK, Frame
<1>a. MediaTypeOK /\ raised \in [Converter -> BOOLEAN]
  BY DEF MediaInv, MediaTypeOK
<1>b. child' \in [Converter -> ChildPlace]
  BY <1>a, ChildTypes DEF Return, ChildPlace
<1>2. /\ \/ step'[c] = "open" /\ Done(c)
         \/ step'[c] = "closing" /\ raised'[c] /\ todo' = todo
      /\ step' \in [Converter -> Step] /\ raised' \in [Converter -> BOOLEAN]
  BY <1>a, AtTypes, RaisesTypes DEF Return, Step
<1>3. /\ todo' \in [Converter -> Seq(Work)]
      /\ todo'[c] \in {todo[c], Tail(todo[c])}
      /\ \A d \in Converter \ {c} : todo'[d] = todo[d]
  BY <1>1, <1>2, DoneTypes DEF MediaInv, MediaTypeOK, Work
<1>4. /\ todo[c] \in Fresh => todo'[c] \in Fresh
      /\ todo[c] \in Rest => todo'[c] \in Rest /\ todo'[c] # <<>>
  <2>1. Head(todo[c]) \notin Extension /\ Head(todo[c]) # "remove"
    BY <1>1 DEF Calls, Extension
  <2> QED
    BY <1>1, <1>3, <2>1, RestGoesOn, FreshGoesOn
<1>5. MediaTypeOK'
  BY <1>b, <1>1, <1>2, <1>3 DEF MediaInv, MediaTypeOK, Step, Work, ChildPlace
<1>6. Frame(c)'
  BY <1>1, <1>2, <1>4 DEF MediaInv, Frame
<1>7. \A d \in Converter : Frame(d)'
  BY <1>1, <1>3, <1>6, OthersKept DEF MediaInv
<1>8. ASSUME NEW d \in Converter, temp[d] \in File, todo[d] # <<>>
      PROVE  todo'[d] # <<>>
  BY <1>3, <1>4, <1>8, FilesAreNames DEF MediaInv, Frame
<1>9. Owners' /\ Results'
  BY <1>1, <1>8, FilesKept DEF MediaInv, MediaTypeOK
<1> QED
  BY <1>5, <1>7, <1>9 DEF MediaInv

\* The output of an operation that has something to collect or to remove.
LEMMA AtItsOutput ==
  ASSUME MediaInv, NEW c \in Converter, NEW what \in {"collect", "remove", "convert"},
         todo[c] # <<>>, Head(todo[c]) = what
  PROVE  temp[c] \in File /\ todo[c] \in Rest
<1>1. ~(todo[c] \in Fresh)
  BY FreshGoesOn DEF Extension
<1> QED
  BY <1>1 DEF MediaInv, Frame

LEMMA CollectStep ==
  ASSUME MediaInv, NEW c \in Converter, Collect(c)
  PROVE  MediaInv'
<1>1. /\ step[c] = "open" /\ todo[c] # <<>> /\ Head(todo[c]) = "collect"
      /\ child[c] = "none" /\ temp[c] \in File /\ todo[c] \in Rest
  BY AtItsOutput DEF Collect, Doing, MediaInv, Frame
<1>a. MediaTypeOK /\ step \in [Converter -> Step] /\ raised \in [Converter -> BOOLEAN]
  BY DEF MediaInv, MediaTypeOK, Step
<1>b. /\ UNCHANGED <<now, data, input, temp, outputs, child, stderr, named>>
      /\ \/ /\ result' = [result EXCEPT ![c] = outputs[temp[c]]]
            /\ Done(c) /\ UNCHANGED <<step, raised>>
         \/ Raises(c) /\ UNCHANGED <<todo, result>>
  BY DEF Collect
<1>c. /\ \A d \in Converter \ {c} : result'[d] = result[d]
      /\ result'[c] \in {result[c], outputs[temp[c]]}
      /\ result' \in [Converter -> SUBSET Converter]
  <2>1. result \in [Converter -> SUBSET Converter] /\ outputs[temp[c]] \subseteq Converter
    BY <1>1 DEF MediaInv, MediaTypeOK
  <2> QED
    BY <1>b, <2>1
<1>2. /\ \A d \in Converter \ {c} : step'[d] = step[d] /\ raised'[d] = raised[d]
      /\ raised[c] => raised'[c]
      /\ \/ step' = step /\ Done(c)
         \/ step'[c] = "closing" /\ raised'[c] /\ todo' = todo
      /\ step' \in [Converter -> Step] /\ raised' \in [Converter -> BOOLEAN]
  BY <1>a, <1>b, RaisesTypes
<1>3. /\ todo' \in [Converter -> Seq(Work)]
      /\ todo'[c] \in {todo[c], Tail(todo[c])}
      /\ \A d \in Converter \ {c} : todo'[d] = todo[d]
  BY <1>b, <1>1, <1>2, DoneTypes DEF MediaInv, MediaTypeOK, Work
<1>4. todo'[c] \in Rest /\ todo'[c] # <<>>
  BY <1>1, <1>3, RestGoesOn
<1>5. MediaTypeOK'
  BY <1>b, <1>c, <1>2, <1>3 DEF MediaInv, MediaTypeOK, Step, Work
<1>6. Frame(c)'
  BY <1>b, <1>1, <1>2, <1>4, FilesAreNames DEF MediaInv, Frame
<1>7. \A d \in Converter : Frame(d)'
  BY <1>b, <1>2, <1>3, <1>6, OthersKept DEF MediaInv
<1>8. Owners'
  <2>1. \A f \in File : outputs[f] \subseteq Converter
    BY DEF MediaInv, MediaTypeOK
  <2> QED
    BY <1>b, <1>2, <1>3, <1>4, <2>1 DEF MediaInv, Owners
<1>9. Results'
  <2>1. \A d \in outputs[temp[c]] : temp[d] = temp[c] /\ temp[c] # <<>>
    BY <1>1, FilesAreNames DEF MediaInv, Owners
  <2> QED
    BY <1>b, <1>c, <2>1 DEF MediaInv, Results
<1> QED
  BY <1>5, <1>7, <1>8, <1>9 DEF MediaInv

LEMMA RemoveStep ==
  ASSUME MediaInv, NEW c \in Converter, Remove(c)
  PROVE  MediaInv'
<1>1. /\ step[c] = "open" /\ todo[c] # <<>> /\ Head(todo[c]) = "remove"
      /\ child[c] = "none" /\ temp[c] \in File /\ todo[c] \in Rest
  BY AtItsOutput DEF Remove, Doing, MediaInv, Frame
<1>a. MediaTypeOK /\ step \in [Converter -> Step] /\ raised \in [Converter -> BOOLEAN]
  BY DEF MediaInv, MediaTypeOK, Step
<1>b. /\ UNCHANGED <<now, data, input, temp, child, stderr, result, named>>
      /\ \/ /\ outputs' = [outputs EXCEPT ![temp[c]] = {}]
            /\ Done(c) /\ UNCHANGED <<step, raised>>
         \/ Raises(c) /\ UNCHANGED <<todo, outputs>>
  BY DEF Remove
<1>c. outputs' \in [File -> SUBSET Converter]
  BY <1>b DEF MediaInv, MediaTypeOK
<1>2. /\ \A d \in Converter \ {c} : step'[d] = step[d] /\ raised'[d] = raised[d]
      /\ raised[c] => raised'[c]
      /\ \/ step' = step /\ Done(c) /\ outputs' = [outputs EXCEPT ![temp[c]] = {}]
         \/ step'[c] = "closing" /\ raised'[c] /\ todo' = todo /\ outputs' = outputs
      /\ step' \in [Converter -> Step] /\ raised' \in [Converter -> BOOLEAN]
  BY <1>a, <1>b, RaisesTypes
<1>3. /\ todo' \in [Converter -> Seq(Work)]
      /\ todo'[c] \in {todo[c], Tail(todo[c])}
      /\ \A d \in Converter \ {c} : todo'[d] = todo[d]
  BY <1>b, <1>1, <1>2, DoneTypes DEF MediaInv, MediaTypeOK, Work
<1>4. todo'[c] \in Rest
  BY <1>1, <1>3, RestGoesOn
<1>5. MediaTypeOK'
  BY <1>b, <1>c, <1>1, <1>2, <1>3 DEF MediaInv, MediaTypeOK, Step, Work
<1>6. Frame(c)'
  BY <1>b, <1>1, <1>2, <1>4, FilesAreNames DEF MediaInv, Frame
<1>7. \A d \in Converter : Frame(d)'
  BY <1>b, <1>2, <1>3, <1>6, OthersKept DEF MediaInv
\* All that c has written is in the file that goes.
<1>8. Owners'
  <2>1. /\ \A f \in File : outputs[f] \subseteq Converter
        /\ outputs \in [File -> SUBSET Converter]
    BY DEF MediaInv, MediaTypeOK
  <2>2. CASE outputs' = outputs /\ todo' = todo
    BY <1>b, <1>2, <2>1, <2>2 DEF MediaInv, Owners
  <2>3. CASE outputs' = [outputs EXCEPT ![temp[c]] = {}]
    <3>1. SUFFICES ASSUME NEW f \in File, NEW d \in outputs'[f]
                   PROVE  temp[d] = f /\ (raised'[d] \/ todo'[d] # <<>>)
      BY <1>b, <1>2 DEF Owners
    <3>2. f # temp[c] /\ d \in outputs[f]
      BY <2>1, <2>3
    <3>3. d # c /\ d \in Converter
      BY <2>1, <3>2 DEF MediaInv, Owners
    <3>4. temp[d] = f /\ (raised[d] \/ todo[d] # <<>>)
      BY <3>2 DEF MediaInv, Owners
    <3> QED
      BY <1>b, <1>2, <1>3, <3>3, <3>4
  <2> QED
    BY <1>b, <1>2, <2>2, <2>3
<1>9. Results'
  BY <1>b, <1>2 DEF MediaInv, Results
<1> QED
  BY <1>5, <1>7, <1>8, <1>9 DEF MediaInv

LEMMA ChildStep ==
  ASSUME MediaInv, NEW c \in Converter, Child(c)
  PROVE  MediaInv'
<1>1. /\ UNCHANGED <<now, step, data, todo, input, temp, stderr, result, raised, named>>
      /\ \A d \in Converter \ {c} : child'[d] = child[d]
      /\ child[c] # "none" /\ (child'[c] = "checked" => Converts(c))
      /\ child' \in [Converter -> ChildPlace]
  <2>1. \E from, to \in ChildPlace :
          ChildGoes(c, from, to) /\ from # "none" /\ (to = "checked" => Converts(c))
    BY DEF Child, ChildLooks, ChildCreates, ChildEnds, ChildExits, ChildPlace
  <2>2. MediaTypeOK
    BY DEF MediaInv
  <2>3. UNCHANGED <<now, step, data, todo, input, temp, stderr, result, raised, named>>
    BY DEF Child, ChildLooks, ChildCreates, ChildEnds, ChildExits
  <2> QED
    BY <2>1, <2>2, <2>3, ChildTypes DEF ChildGoes
<1>2. Converts(c) => temp[c] \in File
  BY AtItsOutput DEF Converts
<1>3. \/ outputs' = outputs
      \/ Converts(c) /\ outputs' = [outputs EXCEPT ![temp[c]] = {c}]
      \/ Converts(c) /\ outputs' = [outputs EXCEPT ![temp[c]] = @ \union {c}]
  BY DEF Child, ChildLooks, ChildCreates, ChildEnds, ChildExits, ChildGoes,
    MediaInv, Frame
<1>4. outputs' \in [File -> SUBSET Converter]
  <2>1. outputs \in [File -> SUBSET Converter]
    BY DEF MediaInv, MediaTypeOK
  <2> QED
    BY <1>2, <1>3, <2>1
<1>5. MediaTypeOK'
  BY <1>1, <1>4 DEF MediaInv, MediaTypeOK, ChildPlace
<1>6. Frame(c)'
  BY <1>1 DEF MediaInv, Frame, Converts
<1>7. \A d \in Converter : Frame(d)'
  BY <1>1, <1>6, OthersKept DEF MediaInv
<1>8. Owners'
  <2>1. \A f \in File : \A d \in outputs'[f] :
          d \in outputs[f] \/ (Converts(c) /\ d = c /\ f = temp[c])
    BY <1>2, <1>3 DEF MediaInv, MediaTypeOK
  <2> QED
    BY <1>1, <2>1 DEF MediaInv, Owners, Converts
<1>9. Results'
  BY <1>1 DEF MediaInv, Results
<1> QED
  BY <1>5, <1>7, <1>8, <1>9 DEF MediaInv

\* The clock and the pipes.
LEMMA QuietSteps ==
  ASSUME MediaInv,
         \/ Tick \/ UNCHANGED mediaVars
         \/ \E c \in Converter : Drain(c) \/ FillStderr(c)
  PROVE  MediaInv'
<1>1. UNCHANGED <<step, todo, input, temp, outputs, child, result, raised, named>>
  BY DEF Tick, Drain, FillStderr, mediaVars
<1>2. MediaTypeOK'
  <2>1. /\ now' \in 0..MaxTime
        /\ stderr' \in [Converter -> {"empty", "full", "drained"}]
    <3>1. MaxTime \in Nat
      BY MediaAssumption DEF MediaAssumption
    <3>2. now' \in 0..MaxTime
      BY <3>1 DEF Tick, Drain, FillStderr, mediaVars, MediaInv, MediaTypeOK
    <3>3. stderr' \in [Converter -> {"empty", "full", "drained"}]
      <4>1. stderr \in [Converter -> {"empty", "full", "drained"}]
        BY DEF MediaInv, MediaTypeOK
      <4> QED
        BY <4>1 DEF Tick, Drain, FillStderr, mediaVars
    <3> QED
      BY <3>2, <3>3
  <2>2. data' = data
    BY DEF Tick, Drain, FillStderr, mediaVars
  <2> QED
    BY <1>1, <2>1, <2>2 DEF MediaInv, MediaTypeOK
<1>3. \A d \in Converter : Frame(d)'
  BY <1>1 DEF MediaInv, Frame, Converts
<1>4. Owners' /\ Results'
  BY <1>1 DEF MediaInv, Owners, Results
<1> QED
  BY <1>2, <1>3, <1>4 DEF MediaInv

LEMMA MediaStep == MediaInv /\ MediaNext => MediaInv'
BY InputSteps, NameStep, CallingSteps, ReturnStep, CollectStep, RemoveStep,
   ChildStep, QuietSteps DEF MediaNext

LEMMA MediaInvariant == Spec => []MediaInv
<1>1. Init => MediaInv
  BY MediaStarts DEF Init
<1>2. MediaInv /\ [Next]_programVars => MediaInv'
  BY MediaStep, QuietSteps DEF Next, programVars
<1> QED
  BY <1>1, <1>2, PTL DEF Spec

\* The files, the children and the frames of the methods of FFmpeg and AFFmpeg
\* keep their types; in particular only a named output is opened or removed.
THEOREM MediaTypeCorrect == Spec => []MediaTypeOK
<1>1. MediaInv => MediaTypeOK
  BY DEF MediaInv
<1> QED
  BY <1>1, MediaInvariant, PTL

\* Whatever conversions run beside each other, fail or are cancelled, one that
\* collects bytes of another has chosen its name in the same tick of the clock.
THEOREM OwnResults == Spec => []OwnResult
<1>1. MediaInv => OwnResult
  <2> SUFFICES ASSUME MediaInv, NEW c \in Converter, result[c] # {}, result[c] # {c}
               PROVE  \E d \in Converter \ {c} : named[d] = named[c]
    BY DEF OwnResult
  <2>1. PICK d \in result[c] : d # c
    OBVIOUS
  <2>2. d \in Converter /\ temp[d] = temp[c] /\ temp[c] # <<>>
    BY DEF MediaInv, MediaTypeOK, Results
  <2> QED
    BY <2>1, <2>2 DEF MediaInv, Frame
<1> QED
  BY <1>1, MediaInvariant, PTL

\* A conversion that has ended leaves neither its input nor, unless it has
\* raised, any bytes of its own in a file.
THEOREM NothingStays == Spec => []NothingLeft
<1>1. MediaInv => NothingLeft
  BY DEF MediaInv, Frame, Owners, NothingLeft
<1> QED
  BY <1>1, MediaInvariant, PTL
==============================================================================
