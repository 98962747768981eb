------------------------------ MODULE CallSteps ------------------------------
(***************************************************************************)
(* What a method of a client does, as the set of the paths it may take.  A *)
(* path is a sequence of steps, a step is one exported call together with  *)
(* what Python does with its answer, or work of Python's own.              *)
(***************************************************************************)
EXTENDS Sequences

\* export: the function of goneonize that is called.
\* reads: how the answer is used.  "bytes" is get_bytes, free_bytes and
\*   FromString; "text" is decode or a test of the c_char_p; "value" leaves a
\*   bool or nothing to read; "own" is no call at all, only Python code that
\*   may raise; "refused" is a call that ctypes always rejects.
\* onError: what an error in the answer leads to.  "told" is returned to the
\*   caller of the method as a value; "garbled" is an answer parsed as another
\*   message, where the error may or may not be noticed.
\* caught: an exception of the step is logged, and the method goes on.
Step == [export : STRING,
         reads : {"bytes", "text", "value", "own", "refused"},
         onError : {"raise", "told", "ignore", "garbled"},
         caught : BOOLEAN]

Only(x, reads, onError) ==
  {<<[export |-> x, reads |-> reads, onError |-> onError, caught |-> FALSE]>>}

\* if model.Error: raise ...
Model(x) == Only(x, "bytes", "raise")

\* A message that is returned without a look at an error.
Result(x) == Only(x, "bytes", "ignore")

\* FromString of another message than the one Go marshalled.
Garbled(x) == Only(x, "bytes", "garbled")

\* if err: raise ...
Text(x) == Only(x, "text", "raise")

\* return ....decode()
Told(x) == Only(x, "text", "told")

Value(x) == Only(x, "value", "ignore")

\* Files, HTTP, Pillow, ffmpeg, magic: whatever may raise outside Go.
Own == Only("", "own", "raise")

\* Too few arguments, or one of a type the declaration does not take.
Refused(x) == Only(x, "refused", "raise")

\* Combinations: nothing, one after the other, either, possibly, in a try.
Nothing == {<<>>}
P ** Q == {p \o q : p \in P, q \in Q}
P | Q == P \union Q
Maybe(P) == P | Nothing
Caught(P) == {[i \in DOMAIN p |-> [p[i] EXCEPT !.caught = TRUE]] : p \in P}
==============================================================================
