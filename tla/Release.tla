------------------------------ MODULE Release --------------------------------
(***************************************************************************)
(* The version of the project and the tools that write it: the commands of *)
(* tools/version_cli.py, bump_version.sh and the workflow that does the    *)
(* same, create_github_release.sh.  Each writes one file after the other,  *)
(* emptying most of them first, and may be killed anywhere.  A version is  *)
(* a sequence of three numbers, or four when it is a post release.         *)
(***************************************************************************)
EXTENDS Integers, Sequences

CONSTANTS
  FirstVersion,  \* what the three sources say at first
  Chosen,        \* versions that a person or a tag gives
  MaxUpdates     \* bound: tools that are started

VersionNumber == {v \in Seq(Nat) : Len(v) \in {3, 4}}

ASSUME ReleaseAssumption ==
  /\ FirstVersion \in VersionNumber
  /\ Chosen \subseteq VersionNumber
  /\ MaxUpdates \in Nat

VARIABLES
  neonize,      \* __version__ in neonize/__init__.py
  goneonize,    \* version in goneonize/version.go
  download,     \* __GONEONIZE_VERSION__ in neonize/download.py
  quoted,       \* download.py has it in double quotes
  stated,       \* the file VERSION
  tool,         \* the tool that runs and the file it writes next
  updates,      \* tools started
  updatesOnly,  \* history: only version_cli update, or its --set-url
  uninterrupted \* history: and none of them has been killed

releaseVars == <<neonize, goneonize, download, quoted, stated, tool, updates,
                 updatesOnly, uninterrupted>>

Update == {"post", "patch", "minor", "major"}
NoVersion == <<>>  \* of an empty file
MaybeVersion == VersionNumber \union {NoVersion}

\* The versions in the files, and a tool that goes on: whether it has emptied
\* its file, and what it will write (Version and its setters).
ReleaseTypeOK ==
  /\ neonize \in MaybeVersion
  /\ goneonize \in MaybeVersion
  /\ download \in MaybeVersion
  /\ quoted \in BOOLEAN
  /\ stated \in MaybeVersion
  /\ tool \in [does : Update \union {"none", "set", "url", "bump", "publish"},
               file : {"neonize", "goneonize", "download", "VERSION"},
               open : BOOLEAN, text : MaybeVersion]
  /\ updates \in 0..MaxUpdates
  /\ updatesOnly \in BOOLEAN
  /\ uninterrupted \in BOOLEAN

Tool(does, file, text) ==
  [does |-> does, file |-> file, open |-> FALSE, text |-> text]
NoTool == Tool("none", "neonize", NoVersion)

ReleaseInit ==
  /\ neonize = FirstVersion
  /\ goneonize = FirstVersion
  /\ download = FirstVersion
  /\ quoted = TRUE
  /\ stated \in Chosen
  /\ tool = NoTool
  /\ updates = 0
  /\ updatesOnly = TRUE
  /\ uninterrupted = TRUE

-----------------------------------------------------------------------------
(* Versions.                                                                 *)

\* Fault: a number is added each time.
MutPostOf(v) == Append(v, 1)

\* update_post_semantic: a fourth number is added, or counted up.
PostOf(v) == IF Len(v) < 4 THEN Append(v, 1) ELSE [v EXCEPT ![4] = @ + 1]

\* update_*_semantic: the lower numbers start again, the fourth is dropped.
Bumped(v, kind) ==
  CASE kind = "post"  -> PostOf(v)
    [] kind = "patch" -> <<v[1], v[2], v[3] + 1>>
    [] kind = "minor" -> <<v[1], v[2] + 1, 0>>
    [] kind = "major" -> <<v[1] + 1, 0, 0>>

\* The order of versions.
Earlier(v, w) ==
  \E i \in 1..4 :
    LET Part(u, j) == IF j \in DOMAIN u THEN u[j] ELSE 0 IN
      /\ Part(v, i) < Part(w, i)
      /\ \A j \in 1..i - 1 : Part(v, j) = Part(w, j)

-----------------------------------------------------------------------------
(* The tools start.                                                          *)

\* Version() reads both versions: an empty file is a KeyError or an IndexError.
Readable == neonize # NoVersion /\ goneonize # NoVersion

Start(t) ==
  /\ tool = NoTool
  /\ updates < MaxUpdates
  /\ tool' = t
  /\ updates' = updates + 1
  /\ UNCHANGED <<neonize, goneonize, download, quoted, stated, uninterrupted>>

\* Fault: the version of the package is left to be set by hand.
MutStartUpdate(kind) ==
  /\ Readable
  /\ Start(Tool(kind, "goneonize", NoVersion))
  /\ UNCHANGED updatesOnly

\* version_cli update post, patch, minor or major.
StartUpdate(kind) ==
  /\ Readable
  /\ Start(Tool(kind, "neonize", NoVersion))
  /\ UNCHANGED updatesOnly

\* version_cli --set-url: download.py is written with the version it has.
SetUrl ==
  /\ Readable
  /\ Start(Tool("url", "download", download))
  /\ UNCHANGED updatesOnly

\* version_cli neonize or goneonize, --set-version or --last.  Github() reads
\* the release url in download.py.
SetVersion(file, v) ==
  /\ Readable /\ download # NoVersion
  /\ Start(Tool("set", file, v))
  /\ updatesOnly' = FALSE

\* bump_version.sh bump and release, and auto-version.yml: "build" counts like
\* "post", and what is missing in VERSION as 0.
Bump(kind) ==
  /\ Start(Tool("bump", "VERSION",
                Bumped(IF stated = NoVersion THEN <<0, 0, 0>> ELSE stated, kind)))
  /\ updatesOnly' = FALSE

\* create_github_release.sh, with the last tag or what VERSION says.
Publish(v) ==
  /\ v # NoVersion
  /\ Start(Tool("publish", "download", v))
  /\ updatesOnly' = FALSE

-----------------------------------------------------------------------------
(* The files are emptied and written: open(path, "w") and write.             *)

Opens(file) ==
  /\ tool.does # "none" /\ tool.file = file /\ ~tool.open
  /\ UNCHANGED <<updates, updatesOnly, uninterrupted, quoted>>

\* The text is made before the file is opened.
With(text) == tool' = [tool EXCEPT !.open = TRUE, !.text = text]

Writes(file) ==
  /\ tool.file = file /\ tool.open
  /\ UNCHANGED <<updates, updatesOnly, uninterrupted>>

GoOnTo(file) == tool' = [tool EXCEPT !.file = file, !.open = FALSE]

\* The getter reads the digits, so the "post" that update_post writes in front
\* of the last one does not come back.
NewVersion(v) == IF tool.does \in Update THEN Bumped(v, tool.does) ELSE tool.text

OpenNeonize ==
  /\ Opens("neonize")
  /\ With(NewVersion(neonize))
  /\ neonize' = NoVersion
  /\ UNCHANGED <<goneonize, download, stated>>

WriteNeonize ==
  /\ Writes("neonize")
  /\ neonize' = tool.text
  /\ IF tool.does = "set" THEN tool' = NoTool ELSE GoOnTo("goneonize")
  /\ UNCHANGED <<goneonize, download, quoted, stated>>

OpenGoneonize ==
  /\ Opens("goneonize")
  /\ With(NewVersion(goneonize))
  /\ goneonize' = NoVersion
  /\ UNCHANGED <<neonize, download, stated>>

WriteGoneonize ==
  /\ Writes("goneonize")
  /\ goneonize' = tool.text
  /\ GoOnTo("download")
  /\ UNCHANGED <<neonize, download, quoted, stated>>

\* Fault: the file is updated from what it said itself.
MutOpenDownload ==
  /\ Opens("download") /\ tool.does # "bump"
  /\ With(IF download # NoVersion THEN NewVersion(download) ELSE NoVersion)
  /\ download' = NoVersion
  /\ UNCHANGED <<neonize, goneonize, stated>>

\* set_value changes nothing in an empty file; create_github_release.sh writes
\* the whole file.
OpenDownload ==
  /\ Opens("download") /\ tool.does # "bump"
  /\ With(IF tool.does = "publish" \/ download # NoVersion THEN tool.text
                                                           ELSE NoVersion)
  /\ download' = NoVersion
  /\ UNCHANGED <<neonize, goneonize, stated>>

\* ast.unparse writes single quotes.
WriteDownload ==
  /\ Writes("download")
  /\ download' = tool.text
  /\ quoted' = (tool.does = "publish")
  /\ tool' = NoTool
  /\ UNCHANGED <<neonize, goneonize, stated>>

OpenVersion ==
  /\ Opens("VERSION")
  /\ With(tool.text)
  /\ stated' = NoVersion
  /\ UNCHANGED <<neonize, goneonize, download>>

WriteVersion ==
  /\ Writes("VERSION")
  /\ stated' = tool.text
  /\ GoOnTo("download")
  /\ UNCHANGED <<neonize, goneonize, download, quoted>>

\* sed -i replaces the file at once, and the version if it is in double quotes.
SedDownload ==
  /\ Opens("download") /\ tool.does = "bump"
  /\ download' = IF quoted /\ download # NoVersion THEN tool.text ELSE download
  /\ tool' = NoTool
  /\ UNCHANGED <<neonize, goneonize, stated>>

\* ruff format, as in autobump.yml.
Format ==
  /\ tool = NoTool
  /\ quoted' = TRUE
  /\ UNCHANGED <<neonize, goneonize, download, stated, tool, updates,
                 updatesOnly, uninterrupted>>

\* The tool is killed, or a file cannot be written.
Interrupted ==
  /\ tool # NoTool
  /\ tool' = NoTool
  /\ uninterrupted' = FALSE
  /\ UNCHANGED <<neonize, goneonize, download, quoted, stated, updates,
                 updatesOnly>>

ReleaseNext ==
  \/ \E kind \in Update : StartUpdate(kind) \/ Bump(kind)
  \/ SetUrl
  \/ \E v \in Chosen, file \in {"neonize", "goneonize"} : SetVersion(file, v)
  \/ \E v \in Chosen \union {stated} : Publish(v)
  \/ OpenNeonize \/ WriteNeonize \/ OpenGoneonize \/ WriteGoneonize
  \/ OpenDownload \/ WriteDownload \/ OpenVersion \/ WriteVersion
  \/ SedDownload \/ Format \/ Interrupted

-----------------------------------------------------------------------------
\* The setter of goneonize (tools/version.py:120-140) leaves in download.py the
\* version of version.go, whatever tools have done before and wherever they were
\* killed, or none if the file was empty; and as long as only updates have been
\* asked for and have ended, that of the package.
UpdatesMeet ==
  [][tool.does \in Update \union {"set"} /\ download' \notin {download, NoVersion} =>
       /\ download' = goneonize'
       /\ updatesOnly /\ uninterrupted => neonize' = goneonize']_releaseVars

\* As long as nothing but the updates of version_cli changes versions, what the
\* package asks the release for is never newer than what is built, nor that
\* than the package, wherever the updates are killed (the order of the files in
\* Version.update_*).  The other tools write download.py alone.
VersionsOrdered ==
  updatesOnly =>
    /\ Readable => ~Earlier(neonize, goneonize)
    /\ goneonize # NoVersion /\ download # NoVersion =>
         ~Earlier(goneonize, download)
==============================================================================
