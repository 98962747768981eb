------------------------------- MODULE Program -------------------------------
(***************************************************************************)
(* The parts that share no state with the sessions nor with each other:    *)
(* a behaviour is one of a part in Parts.                                  *)
(***************************************************************************)
EXTENDS Release, Loader, Media, SyncClient

CONSTANT Parts  \* those that are looked at

VARIABLE part

programVars == <<part, releaseVars, loaderVars, mediaVars, syncVars>>

\* A part that does not run starts in one state.
Init ==
  /\ part \in Parts
  /\ ReleaseInit /\ LoaderInit /\ MediaInit /\ SyncInit
  /\ part # "release" => stated = CHOOSE v \in Chosen : TRUE
  /\ part # "loader" => package = 1 /\ says[1] = 1
  /\ part # "media" => todo = [c \in Converter |-> extract_info]
  /\ part # "client" => onMain = {}

Next ==
  /\ UNCHANGED part
  /\ \/ /\ part = "release" /\ ReleaseNext
        /\ UNCHANGED <<loaderVars, mediaVars, syncVars>>
     \/ /\ part = "loader" /\ LoaderNext
        /\ UNCHANGED <<releaseVars, mediaVars, syncVars>>
     \/ /\ part = "media" /\ MediaNext
        /\ UNCHANGED <<releaseVars, loaderVars, syncVars>>
     \/ /\ part = "client" /\ SyncNext
        /\ UNCHANGED <<releaseVars, loaderVars, mediaVars>>

\* The operating system runs the processes and the threads, and the servers,
\* ffmpeg and the handlers of the application answer.
Fairness ==
  /\ \A p \in Process : WF_loaderVars(part = "loader" /\ Proceed(p))
  /\ \A c \in Converter :
       /\ WF_mediaVars(part = "media" /\ Child(c))
       /\ WF_mediaVars(part = "media" /\ Drain(c))
       /\ WF_mediaVars(part = "media" /\ Return(c))
  /\ WF_syncVars(part = "client" /\ MainProceeds)
  /\ WF_syncVars(part = "client" /\ HandleSignal)
  /\ \A c \in Client : WF_syncVars(part = "client" /\ ThreadProceeds(c))

Spec == Init /\ [][Next]_programVars /\ Fairness
==============================================================================
