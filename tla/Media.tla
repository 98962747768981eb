-------------------------------- MODULE Media --------------------------------
(***************************************************************************)
(* Conversions by ffmpeg (utils/ffmpeg.py, utils/iofile.py): threads and   *)
(* tasks put their input into a temporary file, run ffprobe and ffmpeg as  *)
(* child processes and collect the output from a file named after the      *)
(* time, in a directory that all of them share.                            *)
(***************************************************************************)
EXTENDS Naturals, Sequences

CONSTANTS
  Converter,     \* threads and tasks that convert something
  Asynchronous,  \* those that use AFFmpeg
  Errands,       \* what each of them may do: its data and its operation
  MaxTime        \* bound: ticks of time.time()

ASSUME MediaAssumption ==
  /\ Asynchronous \subseteq Converter /\ MaxTime \in Nat
  /\ \A errand \in Errands : \A c \in Converter :
       errand[c].data \in {"name", "bytes", "url"}

VARIABLES
  now,      \* time.time()
  step,     \* where each converter is
  data,     \* what it was given: "name", "bytes" or "url"
  todo,     \* what is left of its operation
  input,    \* its temporary input file exists
  temp,     \* the name of its output: time and extension
  outputs,  \* whose bytes the output files hold; {} is no file
  child,    \* its child process
  stderr,   \* the pipe of the child's stderr
  result,   \* whose bytes it has collected
  raised,   \* an exception has ended its operation
  named     \* history: when it chose the name

mediaVars == <<now, step, data, todo, input, temp, outputs, child, stderr,
               result, raised, named>>

-----------------------------------------------------------------------------
(* The operations, as sequences of steps: an extension chooses the name of   *)
(* the output, "probe" runs ffprobe, "convert" ffmpeg with that output,      *)
(* "grab" ffmpeg with its output on stdout.                                  *)

Extension == {"webp", "mp4", "mp3"}
Calls == {"probe", "convert", "grab"}

\* AFFmpeg needs the duration always, FFmpeg only for enforce_not_broken.
acv_to_webp == {<<"webp", "probe", "convert", "collect", "remove">>}
cv_to_webp == acv_to_webp \union {<<"webp", "convert", "collect", "remove">>}
gif_to_mp4 == <<"mp4", "convert", "collect", "remove">>
to_mp3 == <<"mp3", "convert", "collect", "remove">>
\* A size that is a number is a question to ffprobe first.
extract_thumbnail == {<<"probe", "grab">>, <<"grab">>}
extract_info == <<"probe">>

Operations(c) ==
  (IF c \in Asynchronous THEN acv_to_webp ELSE cv_to_webp)
    \union {gif_to_mp4, to_mp3, extract_info} \union extract_thumbnail

File == (0..MaxTime) \X Extension

\* The types of the files, the child processes and the frames of the methods
\* of FFmpeg and AFFmpeg.
MediaTypeOK ==
  /\ now \in 0..MaxTime
  /\ step \in [Converter -> {"new", "writing", "open", "calling", "closing",
                             "closed", "unmade"}]
  /\ data \in [Converter -> {"name", "bytes", "url"}]
  /\ todo \in [Converter -> Seq(Extension \union Calls \union {"collect", "remove"})]
  /\ input \in [Converter -> BOOLEAN]
  /\ temp \in [Converter -> File \union {<<>>}]
  /\ outputs \in [File -> SUBSET Converter]
  /\ child \in [Converter -> {"none", "started", "checked", "writing", "eof",
                              "well", "badly"}]
  /\ stderr \in [Converter -> {"empty", "full", "drained"}]
  /\ result \in [Converter -> SUBSET Converter]
  /\ raised \in [Converter -> BOOLEAN]
  /\ named \in [Converter -> 0..MaxTime]

MediaInit ==
  /\ now = 0
  /\ step = [c \in Converter |-> "new"]
  /\ \E errand \in Errands :
       /\ \A c \in Converter : errand[c].todo \in Operations(c)
       /\ data = [c \in Converter |-> errand[c].data]
       /\ todo = [c \in Converter |-> errand[c].todo]
  /\ input = [c \in Converter |-> FALSE]
  /\ temp = [c \in Converter |-> <<>>]
  /\ outputs = [f \in File |-> {}]
  /\ child = [c \in Converter |-> "none"]
  /\ stderr = [c \in Converter |-> "empty"]
  /\ result = [c \in Converter |-> {}]
  /\ raised = [c \in Converter |-> FALSE]
  /\ named = [c \in Converter |-> 0]

At(c, place) == step' = [step EXCEPT ![c] = place]
Done(c) == todo' = [todo EXCEPT ![c] = Tail(@)]
Doing(c, what) == step[c] = "open" /\ todo[c] # <<>> /\ Head(todo[c]) = what
Raises(c) == At(c, "closing") /\ raised' = [raised EXCEPT ![c] = TRUE]

Tick ==
  /\ now < MaxTime
  /\ now' = now + 1
  /\ UNCHANGED <<step, data, todo, input, temp, outputs, child, stderr, result,
                 raised, named>>

-----------------------------------------------------------------------------
(* The input.                                                                *)

\* FFmpeg(...), AFFmpeg.__aenter__: mktemp and open, unless it is a file name.
Enter(c) ==
  /\ step[c] = "new"
  /\ At(c, IF data[c] = "name" THEN "open" ELSE "writing")
  /\ input' = [input EXCEPT ![c] = data[c] # "name"]
  /\ UNCHANGED <<now, data, todo, temp, outputs, child, stderr, result, raised,
                 named>>

Fill(c) ==
  /\ step[c] = "writing"
  /\ At(c, "open")
  /\ UNCHANGED <<now, data, todo, input, temp, outputs, child, stderr, result,
                 raised, named>>

\* The download or the write fails, or the task is cancelled: the with
\* statement has not been entered, so nothing removes the file.
FillFails(c) ==
  /\ step[c] = "writing"
  /\ At(c, "unmade")
  /\ UNCHANGED <<now, data, todo, input, temp, outputs, child, stderr, result,
                 raised, named>>

\* __exit__, __aexit__
Close(c) ==
  /\ \/ step[c] = "closing"
     \/ step[c] = "open" /\ todo[c] = <<>>
  /\ At(c, "closed")
  /\ input' = [input EXCEPT ![c] = FALSE]
  /\ UNCHANGED <<now, data, todo, temp, outputs, child, stderr, result, raised,
                 named>>

-----------------------------------------------------------------------------
(* Python: the name of the output, the calls, the output.                    *)

\* Fault: the name is the extension alone.
MutName(c) ==
  /\ \E ext \in Extension :
       Doing(c, ext) /\ temp' = [temp EXCEPT ![c] = <<0, ext>>]
  /\ named' = [named EXCEPT ![c] = now]
  /\ Done(c)
  /\ UNCHANGED <<now, step, data, input, outputs, child, stderr, result, raised>>

\* Fault: the name has no extension.
MutNameBare(c) ==
  /\ \E ext \in Extension : Doing(c, ext) /\ temp' = [temp EXCEPT ![c] = <<now>>]
  /\ named' = [named EXCEPT ![c] = now]
  /\ Done(c)
  /\ UNCHANGED <<now, step, data, input, outputs, child, stderr, result, raised>>

\* tempfile.gettempdir() + "/" + time.time().__str__() + ".webp"
Name(c) ==
  /\ \E ext \in Extension :
       Doing(c, ext) /\ temp' = [temp EXCEPT ![c] = <<now, ext>>]
  /\ named' = [named EXCEPT ![c] = now]
  /\ Done(c)
  /\ UNCHANGED <<now, step, data, input, outputs, child, stderr, result, raised>>

\* Popen, create_subprocess_shell; without ffmpeg on the path Popen raises.
Call(c) ==
  /\ \E call \in Calls : Doing(c, call)
  /\ \/ /\ At(c, "calling")
        /\ child' = [child EXCEPT ![c] = "started"]
        /\ stderr' = [stderr EXCEPT ![c] = "empty"]
        /\ UNCHANGED raised
     \/ c \notin Asynchronous /\ Raises(c) /\ UNCHANGED <<child, stderr>>
  /\ UNCHANGED <<now, data, todo, input, temp, outputs, result, named>>

\* The child has ended; a code that is not 0 is an exception.
Return(c) ==
  /\ step[c] = "calling"
  /\ \/ child[c] = "well" /\ At(c, "open") /\ Done(c) /\ UNCHANGED raised
     \/ child[c] = "badly" /\ Raises(c) /\ UNCHANGED todo
  /\ child' = [child EXCEPT ![c] = "none"]
  /\ UNCHANGED <<now, data, input, temp, outputs, stderr, result, named>>

\* popen.wait(10): the child has closed its stdout, and does not end.
WaitTimesOut(c) ==
  /\ step[c] = "calling" /\ c \notin Asynchronous
  /\ child[c] = "eof"
  /\ Raises(c)
  /\ UNCHANGED <<now, data, todo, input, temp, outputs, child, stderr, result,
                 named>>

\* The task is cancelled in communicate(); its child goes on.
Cancelled(c) ==
  /\ step[c] = "calling" /\ c \in Asynchronous
  /\ Raises(c)
  /\ UNCHANGED <<now, data, todo, input, temp, outputs, child, stderr, result,
                 named>>

\* Fault: stdout is read to its end before stderr is read.
MutDrain(c) ==
  /\ step[c] = "calling" /\ c \in Asynchronous
  /\ stderr[c] = "full" /\ child[c] \in {"eof", "well", "badly"}
  /\ stderr' = [stderr EXCEPT ![c] = "drained"]
  /\ UNCHANGED <<now, step, data, todo, input, temp, outputs, child, result,
                 raised, named>>

\* communicate() reads both pipes; popen.stdout.read() reads one.
Drain(c) ==
  /\ step[c] = "calling" /\ c \in Asynchronous
  /\ stderr[c] = "full"
  /\ stderr' = [stderr EXCEPT ![c] = "drained"]
  /\ UNCHANGED <<now, step, data, todo, input, temp, outputs, child, result,
                 raised, named>>

Collect(c) ==
  /\ Doing(c, "collect")
  /\ \/ /\ outputs[temp[c]] # {}
        /\ result' = [result EXCEPT ![c] = outputs[temp[c]]]
        /\ Done(c)
        /\ UNCHANGED <<step, raised>>
     \/ outputs[temp[c]] = {} /\ Raises(c) /\ UNCHANGED <<todo, result>>
  /\ UNCHANGED <<now, data, input, temp, outputs, child, stderr, named>>

\* Fault: the output is left to the operating system.
MutRemove(c) ==
  /\ Doing(c, "remove")
  /\ Done(c)
  /\ UNCHANGED <<now, step, data, input, temp, outputs, child, stderr, result,
                 raised, named>>

Remove(c) ==
  /\ Doing(c, "remove")
  /\ \/ /\ outputs[temp[c]] # {}
        /\ outputs' = [outputs EXCEPT ![temp[c]] = {}]
        /\ Done(c)
        /\ UNCHANGED <<step, raised>>
     \/ outputs[temp[c]] = {} /\ Raises(c) /\ UNCHANGED <<todo, outputs>>
  /\ UNCHANGED <<now, data, input, temp, child, stderr, result, named>>

-----------------------------------------------------------------------------
(* The child process: ffmpeg, which does not overwrite a file unasked, and   *)
(* has no one to ask.                                                        *)

ChildGoes(c, from, to) == child[c] = from /\ child' = [child EXCEPT ![c] = to]
Converts(c) == todo[c] # <<>> /\ Head(todo[c]) = "convert"

ChildLooks(c) ==
  /\ \/ ~Converts(c) /\ ChildGoes(c, "started", "writing")
     \/ /\ Converts(c)
        /\ ChildGoes(c, "started", IF outputs[temp[c]] = {} THEN "checked" ELSE "badly")
  /\ stderr[c] # "full"
  /\ UNCHANGED <<now, step, data, todo, input, temp, outputs, stderr, result,
                 raised, named>>

ChildCreates(c) ==
  /\ ChildGoes(c, "checked", "writing")
  /\ stderr[c] # "full"
  /\ outputs' = [outputs EXCEPT ![temp[c]] = {c}]
  /\ UNCHANGED <<now, step, data, todo, input, temp, stderr, result, raised, named>>

\* What it has yet to write goes into the file as it is by then.
ChildEnds(c) ==
  /\ ChildGoes(c, "writing", "eof")
  /\ stderr[c] # "full"
  /\ outputs' = IF Converts(c) /\ outputs[temp[c]] # {}
                THEN [outputs EXCEPT ![temp[c]] = @ \union {c}] ELSE outputs
  /\ UNCHANGED <<now, step, data, todo, input, temp, stderr, result, raised, named>>

ChildExits(c) ==
  /\ \E code \in {"well", "badly"} : ChildGoes(c, "eof", code)
  /\ UNCHANGED <<now, step, data, todo, input, temp, outputs, stderr, result,
                 raised, named>>

\* Once for each child.
FillStderr(c) ==
  /\ child[c] \in {"started", "checked", "writing"}
  /\ stderr[c] = "empty"
  /\ stderr' = [stderr EXCEPT ![c] = "full"]
  /\ UNCHANGED <<now, step, data, todo, input, temp, outputs, child, result,
                 raised, named>>

Child(c) == ChildLooks(c) \/ ChildCreates(c) \/ ChildEnds(c) \/ ChildExits(c)

MediaNext ==
  \/ Tick
  \/ \E c \in Converter :
       \/ Enter(c) \/ Fill(c) \/ FillFails(c) \/ Close(c) \/ Name(c) \/ Call(c)
       \/ Return(c) \/ WaitTimesOut(c) \/ Cancelled(c) \/ Drain(c) \/ Collect(c)
       \/ Remove(c) \/ Child(c) \/ FillStderr(c)

-----------------------------------------------------------------------------
\* What a conversion returns was made from its own input, unless another one
\* chose its name in the same tick of the clock (ffmpeg.py: temp).
OwnResult ==
  \A c \in Converter : result[c] # {} =>
    \/ result[c] = {c}
    \/ \E d \in Converter \ {c} : named[d] = named[c]

\* A conversion that has returned leaves no file, one that has raised at most
\* its output; only a constructor that raises leaves its input.
NothingLeft ==
  \A c \in Converter : step[c] = "closed" =>
    /\ ~input[c]
    /\ ~raised[c] => \A f \in File : c \notin outputs[f]

\* A call of ffmpeg comes to an end, except that a synchronous one whose child
\* fills its stderr waits for ever: it reads stdout to the end first
\* (FFmpeg.call).
CallsEnd ==
  \A c \in Converter :
    step[c] = "calling" ~>
      (step[c] # "calling" \/ (c \notin Asynchronous /\ stderr[c] = "full"))
==============================================================================
