----------------------------- MODULE ReleaseProofs -----------------------------
(***************************************************************************)
(* Proofs about Release, as a part of Program, for any first version and   *)
(* any number of updates.                                                  *)
(***************************************************************************)
EXTENDS Program, SequenceTheorems, TLAPS

-----------------------------------------------------------------------------
(* Versions.                                                                 *)

\* The numbers of a version; what is missing counts as 0.
Number(v, i) == IF i \in DOMAIN v THEN v[i] ELSE 0

\* Earlier, spelled out.
Older(v, w) ==
  \/ Number(v, 1) < Number(w, 1)
  \/ Number(v, 1) = Number(w, 1) /\ Number(v, 2) < Number(w, 2)
  \/ /\ Number(v, 1) = Number(w, 1) /\ Number(v, 2) = Number(w, 2)
     /\ Number(v, 3) < Number(w, 3)
  \/ /\ Number(v, 1) = Number(w, 1) /\ Number(v, 2) = Number(w, 2)
     /\ Number(v, 3) = Number(w, 3) /\ Number(v, 4) < Number(w, 4)

LEMMA EarlierIsOlder == \A v, w : Earlier(v, w) <=> Older(v, w)
<1> SUFFICES ASSUME NEW v, NEW w PROVE Earlier(v, w) <=> Older(v, w)
  OBVIOUS
<1>1. Earlier(v, w) <=>
        \E i \in 1..4 : /\ Number(v, i) < Number(w, i)
                        /\ \A j \in 1..i - 1 : Number(v, j) = Number(w, j)
  BY DEF Earlier, Number
<1>2. /\ \A i \in 1..4 : i = 1 \/ i = 2 \/ i = 3 \/ i = 4
      /\ 1..(1 - 1) = {} /\ 1..(2 - 1) = {1}
      /\ 1..(3 - 1) = {1, 2} /\ 1..(4 - 1) = {1, 2, 3}
      /\ 1 \in 1..4 /\ 2 \in 1..4 /\ 3 \in 1..4 /\ 4 \in 1..4
  OBVIOUS
<1>3. ASSUME Earlier(v, w) PROVE Older(v, w)
  <2>1. PICK i \in 1..4 : /\ Number(v, i) < Number(w, i)
                          /\ \A j \in 1..i - 1 : Number(v, j) = Number(w, j)
    BY <1>1, <1>3
  <2>2. CASE i = 1
    BY <2>1, <2>2 DEF Older
  <2>3. CASE i = 2
    BY <2>1, <2>3 DEF Older
  <2>4. CASE i = 3
    BY <2>1, <2>4 DEF Older
  <2>5. CASE i = 4
    BY <2>1, <2>5 DEF Older
  <2> QED
    BY <1>2, <2>2, <2>3, <2>4, <2>5
<1>4. ASSUME Older(v, w) PROVE Earlier(v, w)
  BY <1>1, <1>2, <1>4 DEF Older
<1> QED
  BY <1>3, <1>4

LEMMA Numbers ==
  ASSUME NEW v \in VersionNumber
  PROVE  /\ \A i \in {1, 2, 3, 4} : Number(v, i) \in Nat
         /\ Number(v, 1) = v[1] /\ Number(v, 2) = v[2] /\ Number(v, 3) = v[3]
         /\ Len(v) = 4 => Number(v, 4) = v[4]
         /\ Len(v) = 3 => Number(v, 4) = 0
<1>1. v \in Seq(Nat) /\ Len(v) \in {3, 4}
  BY DEF VersionNumber
<1>2. DOMAIN v = 1..Len(v) /\ \A i \in 1..Len(v) : v[i] \in Nat
  BY <1>1, LenProperties
<1>3. /\ 1 \in 1..Len(v) /\ 2 \in 1..Len(v) /\ 3 \in 1..Len(v)
      /\ Len(v) = 4 => 4 \in 1..Len(v)
      /\ Len(v) = 3 => 4 \notin 1..Len(v)
  <2>1. CASE Len(v) = 3
    BY <2>1
  <2>2. CASE Len(v) = 4
    BY <2>2
  <2> QED
    BY <1>1, <2>1, <2>2
<1> QED
  BY <1>1, <1>2, <1>3 DEF Number

\* What an update makes of the numbers.
LEMMA BumpedNumbers ==
  ASSUME NEW v \in VersionNumber, NEW kind \in Update
  PROVE  LET w == Bumped(v, kind) IN
         /\ w \in VersionNumber
         /\ kind = "post" =>
              /\ Number(w, 1) = Number(v, 1) /\ Number(w, 2) = Number(v, 2)
              /\ Number(w, 3) = Number(v, 3) /\ Number(w, 4) = Number(v, 4) + 1
         /\ kind = "patch" =>
              /\ Number(w, 1) = Number(v, 1) /\ Number(w, 2) = Number(v, 2)
              /\ Number(w, 3) = Number(v, 3) + 1 /\ Number(w, 4) = 0
         /\ kind = "minor" =>
              /\ Number(w, 1) = Number(v, 1) /\ Number(w, 2) = Number(v, 2) + 1
              /\ Number(w, 3) = 0 /\ Number(w, 4) = 0
         /\ kind = "major" =>
              /\ Number(w, 1) = Number(v, 1) + 1 /\ Number(w, 2) = 0
              /\ Number(w, 3) = 0 /\ Number(w, 4) = 0
<1> DEFINE w == Bumped(v, kind)
<1>1. v \in Seq(Nat) /\ Len(v) \in {3, 4}
  BY DEF VersionNumber
<1>2. \A i \in 1..Len(v) : v[i] \in Nat
  BY <1>1, LenProperties
<1>3. CASE kind = "post" /\ Len(v) = 3
  <2>1. w = Append(v, 1)
    BY <1>3 DEF Bumped, PostOf
  <2>2. /\ w \in Seq(Nat) /\ Len(w) = 4 /\ w[4] = 1
        /\ \A i \in 1..3 : w[i] = v[i]
    <3>1. /\ Append(v, 1) \in Seq(Nat) /\ Len(Append(v, 1)) = Len(v) + 1
          /\ \A i \in 1..Len(v) : Append(v, 1)[i] = v[i]
          /\ Append(v, 1)[Len(v) + 1] = 1
      BY <1>1, AppendProperties
    <3>2. Len(v) = 3
      BY <1>3
    <3> HIDE DEF w
    <3> QED
      BY <2>1, <3>1, <3>2
  <2>3. w \in VersionNumber
    BY <2>2 DEF VersionNumber
  <2> QED
    BY <1>3, <2>2, <2>3, Numbers
<1>4. CASE kind = "post" /\ Len(v) = 4
  <2>1. w = [v EXCEPT ![4] = v[4] + 1]
    BY <1>4 DEF Bumped, PostOf
  <2>2. 4 \in 1..Len(v) /\ v[4] + 1 \in Nat
    BY <1>2, <1>4
  <2>3. w \in Seq(Nat) /\ Len(w) = 4
    BY <1>1, <1>4, <2>1, <2>2, ExceptSeq
  <2>4. w[4] = v[4] + 1 /\ \A i \in 1..3 : w[i] = v[i]
    <3>1. DOMAIN v = 1..4
      BY <1>1, <1>4, LenProperties
    <3> QED
      BY <2>1, <3>1
  <2>5. w \in VersionNumber
    BY <2>3 DEF VersionNumber
  <2> QED
    BY <1>4, <2>3, <2>4, <2>5, Numbers
<1>5. CASE kind \in {"patch", "minor", "major"}
  <2>1. v[1] \in Nat /\ v[2] \in Nat /\ v[3] \in Nat
    BY <1>1, <1>2
  <2>2. /\ kind = "patch" => w = <<v[1], v[2], v[3] + 1>>
        /\ kind = "minor" => w = <<v[1], v[2] + 1, 0>>
        /\ kind = "major" => w = <<v[1] + 1, 0, 0>>
    BY <1>5 DEF Bumped
  <2>3. w \in VersionNumber /\ Len(w) = 3
    <3>1. \A x, y, z \in Nat : <<x, y, z>> \in VersionNumber /\ Len(<<x, y, z>>) = 3
      BY DEF VersionNumber
    <3>2. v[1] + 1 \in Nat /\ v[2] + 1 \in Nat /\ v[3] + 1 \in Nat /\ 0 \in Nat
      BY <2>1
    <3> HIDE DEF w
    <3> QED
      BY <1>5, <2>1, <2>2, <3>1, <3>2
  <2> QED
    BY <1>5, <2>2, <2>3, Numbers
<1> QED
  BY <1>1, <1>3, <1>4, <1>5 DEF Update

\* Updates keep the order of two versions, and never go back.
LEMMA BumpedOrder ==
  ASSUME NEW v \in VersionNumber, NEW w \in VersionNumber, NEW kind \in Update
  PROVE  /\ ~Older(v, w) => ~Older(Bumped(v, kind), Bumped(w, kind))
         /\ ~Older(Bumped(v, kind), v)
<1>1. /\ \A i \in {1, 2, 3, 4} : Number(v, i) \in Nat
      /\ \A i \in {1, 2, 3, 4} : Number(w, i) \in Nat
  BY Numbers
<1>2. CASE kind = "post"
  BY <1>1, <1>2, BumpedNumbers DEF Older
<1>3. CASE kind = "patch"
  BY <1>1, <1>3, BumpedNumbers DEF Older
<1>4. CASE kind = "minor"
  BY <1>1, <1>4, BumpedNumbers DEF Older
<1>5. CASE kind = "major"
  BY <1>1, <1>5, BumpedNumbers DEF Older
<1> QED
  BY <1>2, <1>3, <1>4, <1>5 DEF Update

LEMMA OrderTransitive ==
  ASSUME NEW u \in VersionNumber, NEW v \in VersionNumber,
         NEW w \in VersionNumber, ~Older(u, v), ~Older(v, w)
  PROVE  ~Older(u, w)
<1>1. /\ \A i \in {1, 2, 3, 4} : Number(u, i) \in Nat
      /\ \A i \in {1, 2, 3, 4} : Number(v, i) \in Nat
      /\ \A i \in {1, 2, 3, 4} : Number(w, i) \in Nat
  BY Numbers
<1> QED
  BY <1>1 DEF Older

-----------------------------------------------------------------------------
(* The files.                                                                *)

NotOlder(v, w) == v # NoVersion /\ w # NoVersion => ~Older(v, w)

\* Where an update is.
Updating(file, open) ==
  tool.does \in Update /\ tool.file = file /\ tool.open = open

\* What a running tool has in hand: an update the versions it will read, and
\* the one it writes; the setter of goneonize that of version.go.
Ready ==
  /\ tool.does = "none" => ~tool.open
  /\ tool.does = "url" => tool.file = "download"
  /\ tool.does \in {"set", "bump", "publish"} => ~updatesOnly
  /\ tool.does \in Update \union {"set"} => tool.file # "VERSION"
  /\ Updating("neonize", FALSE) => neonize # NoVersion
  /\ Updating("neonize", FALSE) \/ Updating("neonize", TRUE) \/ Updating("goneonize", FALSE) =>
       goneonize # NoVersion
  /\ Updating("neonize", TRUE) \/ Updating("goneonize", TRUE) => tool.text # NoVersion
  /\ tool.does \in Update \union {"set"} /\ tool.file = "download" =>
       tool.text \in {goneonize, NoVersion}

\* A file that the update has not come to yet is behind the one before it by
\* that update at most, and so is what it is about to write.
FilesOrdered ==
  updatesOnly =>
    /\ NotOlder(neonize, goneonize)
    /\ NotOlder(goneonize, download)
    /\ tool.does = "url" => NotOlder(goneonize, tool.text)
    /\ Updating("neonize", TRUE) =>
         /\ NotOlder(tool.text, goneonize)
         /\ NotOlder(tool.text, Bumped(goneonize, tool.does))
    /\ Updating("goneonize", FALSE) =>
         NotOlder(neonize, Bumped(goneonize, tool.does))
    /\ Updating("goneonize", TRUE) =>
         /\ NotOlder(neonize, tool.text)
         /\ NotOlder(tool.text, download)

\* As long as no update has been killed, it is exactly that update.
FilesAgree ==
  updatesOnly /\ uninterrupted =>
    /\ tool.does \in {"none", "url"} \/ Updating("neonize", FALSE) =>
         neonize = goneonize
    /\ Updating("neonize", TRUE) => tool.text = Bumped(goneonize, tool.does)
    /\ Updating("goneonize", FALSE) => neonize = Bumped(goneonize, tool.does)
    /\ Updating("goneonize", TRUE) => neonize = tool.text
    /\ tool.does \in Update /\ tool.file = "download" => neonize = goneonize

ReleaseInv == ReleaseTypeOK /\ Ready /\ FilesOrdered /\ FilesAgree

LEMMA NotOlderThanItself == \A v \in VersionNumber : ~Older(v, v)
BY Numbers DEF Older

LEMMA NoVersionIsNone == NoVersion \notin VersionNumber
<1>1. Len(<<>>) = 0
  BY EmptySeq
<1> QED
  BY <1>1 DEF NoVersion, VersionNumber

LEMMA ZeroIsVersion == <<0, 0, 0>> \in VersionNumber
BY DEF VersionNumber

LEMMA ReleaseStarts == ReleaseAssumption /\ ReleaseInit => ReleaseInv
<1> SUFFICES ASSUME ReleaseAssumption, ReleaseInit PROVE ReleaseInv
  OBVIOUS
<1>1. FirstVersion \in VersionNumber /\ stated \in VersionNumber
  BY DEF ReleaseAssumption, ReleaseInit
<1>2. ReleaseTypeOK
  BY <1>1 DEF ReleaseAssumption, ReleaseInit, ReleaseTypeOK, NoTool, Tool, MaybeVersion
<1>3. tool.does = "none" /\ ~tool.open /\ "none" \notin Update
  BY DEF ReleaseInit, NoTool, Tool, Update
<1>4. Ready
  BY <1>3 DEF Ready, Updating
<1>5. FilesOrdered
  BY <1>1, <1>3, NotOlderThanItself DEF ReleaseInit, FilesOrdered, NotOlder, Updating
<1>6. FilesAgree
  BY <1>3 DEF ReleaseInit, FilesAgree, Updating
<1> QED
  BY <1>2, <1>4, <1>5, <1>6 DEF ReleaseInv

-----------------------------------------------------------------------------
(* The tools start.                                                          *)

LEMMA StartKeeps ==
  ASSUME ReleaseInv, NEW does, NEW file, NEW text \in MaybeVersion,
         Start(Tool(does, file, text)), updatesOnly' \in BOOLEAN,
         does \in Update \union {"none", "set", "url", "bump", "publish"},
         file \in {"neonize", "goneonize", "download", "VERSION"}
  PROVE  /\ ReleaseTypeOK'
         /\ tool'.does = does /\ tool'.file = file /\ tool'.text = text
         /\ ~tool'.open /\ tool.does = "none"
         /\ UNCHANGED <<neonize, goneonize, download, uninterrupted>>
<1>1. updates' \in 0..MaxUpdates
  BY ReleaseAssumption
    DEF ReleaseAssumption, Start, ReleaseInv, ReleaseTypeOK
<1>2. /\ tool' = [does |-> does, file |-> file, open |-> FALSE, text |-> text]
      /\ tool.does = "none"
      /\ UNCHANGED <<neonize, goneonize, download, quoted, stated, uninterrupted>>
  BY DEF Start, Tool, NoTool
<1>3. ReleaseTypeOK'
  BY <1>1, <1>2 DEF ReleaseInv, ReleaseTypeOK
<1> QED
  BY <1>2, <1>3

LEMMA StartUpdateKeeps ==
  ASSUME ReleaseInv, NEW kind \in Update, StartUpdate(kind)
  PROVE  ReleaseInv'
<1>1. /\ Start(Tool(kind, "neonize", NoVersion)) /\ UNCHANGED updatesOnly
      /\ neonize # NoVersion /\ goneonize # NoVersion
  BY DEF StartUpdate, Readable
<1>2. NoVersion \in MaybeVersion /\ updatesOnly \in BOOLEAN
  BY DEF MaybeVersion, ReleaseInv, ReleaseTypeOK
<1>3. /\ ReleaseTypeOK'
      /\ tool'.does = kind /\ tool'.file = "neonize" /\ ~tool'.open
      /\ tool.does = "none"
      /\ UNCHANGED <<neonize, goneonize, download, uninterrupted, updatesOnly>>
  BY <1>1, <1>2, StartKeeps
<1>4. Ready'
  BY <1>1, <1>3 DEF Ready, Updating, Update
<1>5. FilesOrdered' /\ FilesAgree'
  BY <1>3 DEF ReleaseInv, FilesOrdered, FilesAgree, Updating, NotOlder, Update
<1> QED
  BY <1>3, <1>4, <1>5 DEF ReleaseInv

LEMMA SetUrlKeeps ==
  ASSUME ReleaseInv, SetUrl
  PROVE  ReleaseInv'
<1>1. /\ Start(Tool("url", "download", download)) /\ UNCHANGED updatesOnly
      /\ download \in MaybeVersion /\ updatesOnly \in BOOLEAN
  BY DEF SetUrl, ReleaseInv, ReleaseTypeOK
<1>2. /\ ReleaseTypeOK'
      /\ tool'.does = "url" /\ tool'.file = "download" /\ ~tool'.open
      /\ tool'.text = download /\ tool.does = "none"
      /\ UNCHANGED <<neonize, goneonize, download, uninterrupted, updatesOnly>>
  BY <1>1, StartKeeps
<1>3. "url" \notin Update /\ "url" # "set"
  BY DEF Update
<1>4. Ready'
  BY <1>2, <1>3 DEF Ready, Updating
<1>5. FilesOrdered' /\ FilesAgree'
  BY <1>2, <1>3 DEF ReleaseInv, FilesOrdered, FilesAgree, Updating, NotOlder
<1> QED
  BY <1>2, <1>4, <1>5 DEF ReleaseInv

\* After a tool that is not asked to update, nothing is said of the order.
LEMMA OtherToolKeeps ==
  ASSUME ReleaseInv, NEW does \in {"set", "bump", "publish"},
         NEW file \in {"neonize", "goneonize", "download", "VERSION"},
         NEW text \in MaybeVersion, Start(Tool(does, file, text)),
         updatesOnly' = FALSE, does = "set" => file \in {"neonize", "goneonize"}
  PROVE  ReleaseInv'
<1>1. /\ ReleaseTypeOK'
      /\ tool'.does = does /\ tool'.file = file /\ ~tool'.open
  BY StartKeeps
<1>2. does \notin Update
  BY DEF Update
<1>3. Ready'
  BY <1>1, <1>2 DEF Ready, Updating
<1>4. FilesOrdered' /\ FilesAgree'
  BY DEF FilesOrdered, FilesAgree
<1> QED
  BY <1>1, <1>3, <1>4 DEF ReleaseInv

LEMMA OtherToolsKeep ==
  ASSUME ReleaseInv
  PROVE  /\ \A v \in Chosen, file \in {"neonize", "goneonize"} :
              SetVersion(file, v) => ReleaseInv'
         /\ \A kind \in Update : Bump(kind) => ReleaseInv'
         /\ \A v \in Chosen \union {stated} : Publish(v) => ReleaseInv'
<1>1. Chosen \subseteq MaybeVersion /\ stated \in MaybeVersion
  BY ReleaseAssumption DEF ReleaseAssumption, MaybeVersion, ReleaseInv, ReleaseTypeOK
<1>2. ASSUME NEW v \in Chosen, NEW file \in {"neonize", "goneonize"},
             SetVersion(file, v)
      PROVE  ReleaseInv'
  BY <1>1, <1>2, OtherToolKeeps DEF SetVersion
<1>3. ASSUME NEW kind \in Update, Bump(kind) PROVE ReleaseInv'
  <2> DEFINE old == IF stated = NoVersion THEN <<0, 0, 0>> ELSE stated
  <2>1. old \in VersionNumber
    BY <1>1, ZeroIsVersion DEF MaybeVersion
  <2>2. Bumped(old, kind) \in MaybeVersion
    BY <2>1, BumpedNumbers DEF MaybeVersion
  <2>3. Start(Tool("bump", "VERSION", Bumped(old, kind))) /\ updatesOnly' = FALSE
    BY <1>3 DEF Bump
  <2> HIDE DEF old
  <2> QED
    BY <2>2, <2>3, OtherToolKeeps
<1>4. ASSUME NEW v \in Chosen \union {stated}, Publish(v) PROVE ReleaseInv'
  BY <1>1, <1>4, OtherToolKeeps DEF Publish
<1> QED
  BY <1>2, <1>3, <1>4

-----------------------------------------------------------------------------
(* The files are written.                                                    *)

\* What a tool is about to write.
LEMMA NewVersionType ==
  ASSUME ReleaseInv, NEW v \in MaybeVersion, tool.does \in Update => v # NoVersion
  PROVE  /\ NewVersion(v) \in MaybeVersion
         /\ tool.does \in Update =>
              /\ v \in VersionNumber
              /\ NewVersion(v) = Bumped(v, tool.does)
              /\ NewVersion(v) \in VersionNumber /\ NewVersion(v) # NoVersion
BY BumpedNumbers, NoVersionIsNone
  DEF ReleaseInv, ReleaseTypeOK, MaybeVersion, NewVersion

LEMMA OpenNeonizeKeeps ==
  ASSUME ReleaseInv, OpenNeonize
  PROVE  ReleaseInv'
<1>1. /\ tool.does # "none" /\ tool.file = "neonize" /\ ~tool.open
      /\ tool' = [tool EXCEPT !.open = TRUE, !.text = NewVersion(neonize)]
      /\ neonize' = NoVersion
      /\ UNCHANGED <<updates, updatesOnly, uninterrupted, quoted, goneonize,
                     download, stated>>
  BY DEF OpenNeonize, Opens, With
<1>2. /\ neonize \in MaybeVersion /\ goneonize \in MaybeVersion
      /\ tool.open \in BOOLEAN
      /\ tool.does \in Update => neonize # NoVersion /\ goneonize # NoVersion
  BY <1>1 DEF ReleaseInv, ReleaseTypeOK, Ready, Updating
<1>3. /\ NewVersion(neonize) \in MaybeVersion
      /\ tool.does \in Update =>
           /\ neonize \in VersionNumber
           /\ NewVersion(neonize) = Bumped(neonize, tool.does)
           /\ NewVersion(neonize) \in VersionNumber
           /\ NewVersion(neonize) # NoVersion
  BY <1>2, NewVersionType
<1>4. /\ tool'.does = tool.does /\ tool'.file = "neonize" /\ tool'.open = TRUE
      /\ tool'.text = NewVersion(neonize)
  BY <1>1 DEF ReleaseInv, ReleaseTypeOK
<1>5. ReleaseTypeOK'
  <2>1. NoVersion \in MaybeVersion
    BY DEF MaybeVersion
  <2> QED
    BY <1>1, <1>3, <2>1 DEF ReleaseInv, ReleaseTypeOK
<1>6. Ready'
  BY <1>1, <1>2, <1>3, <1>4 DEF ReleaseInv, Ready, Updating
<1>7. ASSUME updatesOnly, tool.does \in Update
      PROVE  /\ NotOlder(NewVersion(neonize), goneonize)
             /\ NotOlder(NewVersion(neonize), Bumped(goneonize, tool.does))
  <2>1. goneonize \in VersionNumber /\ ~Older(neonize, goneonize)
    BY <1>2, <1>7 DEF ReleaseInv, FilesOrdered, NotOlder, MaybeVersion
  <2>2. ~Older(NewVersion(neonize), neonize)
    BY <1>3, <1>7, BumpedOrder
  <2>3. ~Older(NewVersion(neonize), goneonize)
    BY <1>3, <1>7, <2>1, <2>2, OrderTransitive
  <2>4. ~Older(NewVersion(neonize), Bumped(goneonize, tool.does))
    BY <1>3, <1>7, <2>1, BumpedOrder
  <2> QED
    BY <2>3, <2>4 DEF NotOlder
<1>8. FilesOrdered'
  <2> SUFFICES ASSUME updatesOnly PROVE FilesOrdered'
    BY <1>1 DEF FilesOrdered
  <2>1. /\ NotOlder(neonize, goneonize)'
        /\ NotOlder(goneonize, download)'
    BY <1>1 DEF ReleaseInv, FilesOrdered, NotOlder
  <2>2. tool'.does # "url" /\ tool'.open = TRUE /\ tool'.file # "goneonize"
    BY <1>1, <1>4 DEF ReleaseInv, Ready
  <2>3. Updating("neonize", TRUE)' =>
          /\ NotOlder(tool.text, goneonize)'
          /\ NotOlder(tool.text, Bumped(goneonize, tool.does))'
    BY <1>1, <1>4, <1>7 DEF Updating, NotOlder
  <2> QED
    BY <2>1, <2>2, <2>3 DEF FilesOrdered, Updating
<1>9. FilesAgree'
  BY <1>1, <1>2, <1>3, <1>4 DEF ReleaseInv, Ready, FilesAgree, Updating
<1> QED
  BY <1>5, <1>6, <1>8, <1>9 DEF ReleaseInv

LEMMA WriteNeonizeKeeps ==
  ASSUME ReleaseInv, WriteNeonize
  PROVE  ReleaseInv'
<1>1. /\ tool.file = "neonize" /\ tool.open
      /\ neonize' = tool.text
      /\ UNCHANGED <<updates, updatesOnly, uninterrupted, quoted, goneonize,
                     download, stated>>
      /\ IF tool.does = "set" THEN tool' = NoTool
         ELSE tool' = [tool EXCEPT !.file = "goneonize", !.open = FALSE]
  BY DEF WriteNeonize, Writes, GoOnTo
<1>2. ReleaseTypeOK'
  <2>1. NoVersion \in MaybeVersion
    BY DEF MaybeVersion
  <2>2. NoTool \in [does : Update \union {"none", "set", "url", "bump", "publish"},
                    file : {"neonize", "goneonize", "download", "VERSION"},
                    open : BOOLEAN, text : MaybeVersion]
    BY <2>1 DEF NoTool, Tool
  <2>3. CASE tool.does = "set"
    BY <1>1, <2>2, <2>3 DEF ReleaseInv, ReleaseTypeOK
  <2>4. CASE tool.does # "set"
    BY <1>1, <2>4 DEF ReleaseInv, ReleaseTypeOK
  <2> QED
    BY <2>3, <2>4
<1>3. CASE tool.does \in Update
  <2>1. tool.does # "set"
    BY <1>3 DEF Update
  <2>2. /\ tool'.does = tool.does /\ tool'.file = "goneonize" /\ ~tool'.open
        /\ tool'.text = tool.text
    BY <1>1, <2>1 DEF ReleaseInv, ReleaseTypeOK
  <2>3. Updating("neonize", TRUE)
    BY <1>1, <1>3 DEF Updating, ReleaseInv, ReleaseTypeOK
  <2>4. Ready'
    BY <1>1, <1>3, <2>2, <2>3 DEF ReleaseInv, Ready, Updating, Update
  <2>5. FilesOrdered'
    BY <1>1, <1>3, <2>2, <2>3 DEF ReleaseInv, FilesOrdered, Updating, NotOlder, Update
  <2>6. FilesAgree'
    BY <1>1, <1>3, <2>2, <2>3 DEF ReleaseInv, FilesAgree, Updating, Update
  <2> QED
    BY <1>2, <2>4, <2>5, <2>6 DEF ReleaseInv
<1>4. CASE tool.does \notin Update
  <2>1. tool.does \in {"set", "bump", "publish"} /\ ~updatesOnly
    BY <1>1, <1>4 DEF ReleaseInv, Ready, ReleaseTypeOK
  <2>2. /\ tool'.does \in {"none", "bump", "publish"}
        /\ tool'.file # "download" /\ ~tool'.open
    <3>1. CASE tool.does = "set"
      BY <1>1, <3>1 DEF NoTool, Tool
    <3>2. CASE tool.does # "set"
      BY <1>1, <2>1, <3>2 DEF ReleaseInv, ReleaseTypeOK
    <3> QED
      BY <3>1, <3>2
  <2>3. Ready'
    BY <1>1, <2>1, <2>2 DEF Ready, Updating, Update
  <2> QED
    BY <1>1, <1>2, <2>1, <2>3 DEF ReleaseInv, FilesOrdered, FilesAgree
<1> QED
  BY <1>3, <1>4

LEMMA OpenGoneonizeKeeps ==
  ASSUME ReleaseInv, OpenGoneonize
  PROVE  ReleaseInv'
<1>1. /\ tool.does # "none" /\ tool.file = "goneonize" /\ ~tool.open
      /\ tool' = [tool EXCEPT !.open = TRUE, !.text = NewVersion(goneonize)]
      /\ goneonize' = NoVersion
      /\ UNCHANGED <<updates, updatesOnly, uninterrupted, quoted, neonize,
                     download, stated>>
  BY DEF OpenGoneonize, Opens, With
<1>2. /\ goneonize \in MaybeVersion /\ download \in MaybeVersion
      /\ tool.open \in BOOLEAN
      /\ tool.does \in Update => goneonize # NoVersion
  BY <1>1 DEF ReleaseInv, ReleaseTypeOK, Ready, Updating
<1>3. /\ NewVersion(goneonize) \in MaybeVersion
      /\ tool.does \in Update =>
           /\ goneonize \in VersionNumber
           /\ NewVersion(goneonize) = Bumped(goneonize, tool.does)
           /\ NewVersion(goneonize) \in VersionNumber
           /\ NewVersion(goneonize) # NoVersion
  BY <1>2, NewVersionType
<1>4. /\ tool'.does = tool.does /\ tool'.file = "goneonize" /\ tool'.open = TRUE
      /\ tool'.text = NewVersion(goneonize)
  BY <1>1 DEF ReleaseInv, ReleaseTypeOK
<1>5. ReleaseTypeOK'
  <2>1. NoVersion \in MaybeVersion
    BY DEF MaybeVersion
  <2> QED
    BY <1>1, <1>3, <2>1 DEF ReleaseInv, ReleaseTypeOK
<1>6. Ready'
  BY <1>1, <1>2, <1>3, <1>4 DEF ReleaseInv, Ready, Updating
<1>7. ASSUME updatesOnly, tool.does \in Update
      PROVE  /\ NotOlder(neonize, NewVersion(goneonize))
             /\ NotOlder(NewVersion(goneonize), download)
  <2>1. Updating("goneonize", FALSE)
    BY <1>1, <1>2, <1>7 DEF Updating
  <2>2. NotOlder(neonize, NewVersion(goneonize))
    BY <1>3, <1>7, <2>1 DEF ReleaseInv, FilesOrdered
  <2>3. ~Older(NewVersion(goneonize), goneonize)
    BY <1>3, <1>7, BumpedOrder
  <2>4. ASSUME download # NoVersion PROVE ~Older(NewVersion(goneonize), download)
    <3>1. download \in VersionNumber /\ ~Older(goneonize, download)
      BY <1>2, <1>7, <2>4 DEF ReleaseInv, FilesOrdered, NotOlder, MaybeVersion
    <3> QED
      BY <1>3, <1>7, <2>3, <3>1, OrderTransitive
  <2> QED
    BY <2>2, <2>4 DEF NotOlder
<1>8. FilesOrdered'
  BY <1>1, <1>4, <1>7 DEF ReleaseInv, FilesOrdered, Updating, NotOlder, Ready
<1>9. FilesAgree'
  BY <1>1, <1>2, <1>3, <1>4 DEF ReleaseInv, Ready, FilesAgree, Updating
<1> QED
  BY <1>5, <1>6, <1>8, <1>9 DEF ReleaseInv

LEMMA WriteGoneonizeKeeps ==
  ASSUME ReleaseInv, WriteGoneonize
  PROVE  ReleaseInv'
<1>1. /\ tool.file = "goneonize" /\ tool.open
      /\ goneonize' = tool.text
      /\ UNCHANGED <<updates, updatesOnly, uninterrupted, quoted, neonize,
                     download, stated>>
      /\ tool' = [tool EXCEPT !.file = "download", !.open = FALSE]
  BY DEF WriteGoneonize, Writes, GoOnTo
<1>2. ReleaseTypeOK'
  BY <1>1 DEF ReleaseInv, ReleaseTypeOK
<1>3. /\ tool'.does = tool.does /\ tool'.file = "download" /\ ~tool'.open
      /\ tool'.text = tool.text
  BY <1>1 DEF ReleaseInv, ReleaseTypeOK
<1>4. /\ tool.does # "none" /\ tool.does # "url"
      /\ tool.does \in Update \/ ~updatesOnly
  BY <1>1 DEF ReleaseInv, Ready, ReleaseTypeOK
<1>5. Ready'
  BY <1>1, <1>3, <1>4 DEF ReleaseInv, Ready, Updating
<1>6. ASSUME updatesOnly PROVE Updating("goneonize", TRUE)
  BY <1>1, <1>4, <1>6 DEF Updating, ReleaseInv, ReleaseTypeOK
<1>7. FilesOrdered'
  BY <1>1, <1>3, <1>4, <1>6 DEF ReleaseInv, FilesOrdered, Updating, NotOlder
<1>8. FilesAgree'
  BY <1>1, <1>3, <1>4, <1>6 DEF ReleaseInv, FilesAgree, Updating
<1> QED
  BY <1>2, <1>5, <1>7, <1>8 DEF ReleaseInv

LEMMA OpenDownloadKeeps ==
  ASSUME ReleaseInv, OpenDownload
  PROVE  ReleaseInv'
<1>1. /\ tool.does # "none" /\ tool.file = "download" /\ ~tool.open
      /\ \E text \in {tool.text, NoVersion} :
           tool' = [tool EXCEPT !.open = TRUE, !.text = text]
      /\ download' = NoVersion
      /\ UNCHANGED <<updates, updatesOnly, uninterrupted, quoted, neonize,
                     goneonize, stated>>
  BY DEF OpenDownload, Opens, With
<1>2. ReleaseTypeOK'
  <2>1. NoVersion \in MaybeVersion
    BY DEF MaybeVersion
  <2>2. tool' \in [does : Update \union {"none", "set", "url", "bump", "publish"},
                   file : {"neonize", "goneonize", "download", "VERSION"},
                   open : BOOLEAN, text : MaybeVersion]
    BY <1>1, <2>1 DEF ReleaseInv, ReleaseTypeOK
  <2> QED
    BY <1>1, <2>1, <2>2 DEF ReleaseInv, ReleaseTypeOK
<1>3. /\ tool'.does = tool.does /\ tool'.file = "download" /\ tool'.open
      /\ tool'.text \in {tool.text, NoVersion}
  BY <1>1 DEF ReleaseInv, ReleaseTypeOK
<1>4. Ready'
  BY <1>1, <1>3 DEF ReleaseInv, Ready, Updating
<1>5. FilesOrdered'
  BY <1>1, <1>3 DEF ReleaseInv, FilesOrdered, Updating, NotOlder
<1>6. FilesAgree'
  BY <1>1, <1>3 DEF ReleaseInv, FilesAgree, Updating
<1> QED
  BY <1>2, <1>4, <1>5, <1>6 DEF ReleaseInv

LEMMA WriteDownloadKeeps ==
  ASSUME ReleaseInv, WriteDownload
  PROVE  ReleaseInv'
<1>1. /\ tool.file = "download" /\ tool.open
      /\ download' = tool.text
      /\ quoted' \in BOOLEAN
      /\ UNCHANGED <<updates, updatesOnly, uninterrupted, neonize, goneonize, stated>>
      /\ tool' = NoTool
  BY DEF WriteDownload, Writes
<1>2. /\ tool'.does = "none" /\ tool'.file = "neonize" /\ ~tool'.open
      /\ "none" \notin Update
  BY <1>1 DEF NoTool, Tool, Update
<1>3. ReleaseTypeOK'
  BY <1>1 DEF ReleaseInv, ReleaseTypeOK, NoTool, Tool, MaybeVersion
<1>4. Ready'
  BY <1>2 DEF Ready, Updating
<1>5. ASSUME updatesOnly PROVE tool.does \in Update \/ tool.does = "url"
  BY <1>1, <1>5 DEF ReleaseInv, Ready, ReleaseTypeOK
<1>6. ASSUME updatesOnly PROVE NotOlder(goneonize, tool.text)
  <2>1. CASE tool.does = "url"
    BY <1>6, <2>1 DEF ReleaseInv, FilesOrdered
  <2>2. CASE tool.does \in Update
    <3>1. tool.text \in {goneonize, NoVersion}
      BY <1>1, <2>2 DEF ReleaseInv, Ready
    <3>2. goneonize # NoVersion => goneonize \in VersionNumber
      BY DEF ReleaseInv, ReleaseTypeOK, MaybeVersion
    <3> QED
      BY <3>1, <3>2, NotOlderThanItself DEF NotOlder
  <2> QED
    BY <1>5, <1>6, <2>1, <2>2
<1>7. FilesOrdered'
  BY <1>1, <1>2, <1>6 DEF ReleaseInv, FilesOrdered, Updating, NotOlder
<1>8. FilesAgree'
  BY <1>1, <1>2, <1>5 DEF ReleaseInv, FilesAgree, Updating
<1> QED
  BY <1>3, <1>4, <1>7, <1>8 DEF ReleaseInv

\* The steps of bump_version.sh, the formatter, and a kill.
LEMMA RestKeeps ==
  ASSUME ReleaseInv,
         OpenVersion \/ WriteVersion \/ SedDownload \/ Format \/ Interrupted
  PROVE  ReleaseInv'
<1>1. CASE OpenVersion \/ WriteVersion
  <2>1. /\ tool.file = "VERSION" /\ tool'.does = tool.does
        /\ tool.does # "none" \/ tool.open
        /\ UNCHANGED <<neonize, goneonize, download, quoted, updates,
                       updatesOnly, uninterrupted>>
    BY <1>1 DEF OpenVersion, WriteVersion, Opens, Writes, With, GoOnTo,
                ReleaseInv, ReleaseTypeOK
  <2>2. ReleaseTypeOK'
    <3>1. CASE OpenVersion
      BY <3>1 DEF OpenVersion, Opens, With, ReleaseInv, ReleaseTypeOK, MaybeVersion
    <3>2. CASE WriteVersion
      BY <3>2 DEF WriteVersion, Writes, GoOnTo, ReleaseInv, ReleaseTypeOK
    <3> QED
      BY <1>1, <3>1, <3>2
  <2>3. tool.does \in {"bump", "publish"} /\ ~updatesOnly
    BY <2>1 DEF ReleaseInv, Ready, ReleaseTypeOK
  <2>4. Ready'
    BY <2>1, <2>3 DEF ReleaseInv, Ready, Updating, Update
  <2> QED
    BY <2>1, <2>2, <2>3, <2>4 DEF ReleaseInv, FilesOrdered, FilesAgree
<1>2. CASE SedDownload
  <2>1. /\ tool.does = "bump" /\ tool' = NoTool
        /\ UNCHANGED <<neonize, goneonize, stated, quoted, updates, updatesOnly,
                       uninterrupted>>
        /\ download' \in {tool.text, download}
    BY <1>2 DEF SedDownload, Opens
  <2>2. ReleaseTypeOK'
    BY <2>1 DEF ReleaseInv, ReleaseTypeOK, NoTool, Tool, MaybeVersion
  <2>3. Ready'
    BY <2>1 DEF Ready, Updating, NoTool, Tool, Update
  <2>4. ~updatesOnly'
    BY <2>1 DEF ReleaseInv, Ready
  <2> QED
    BY <2>2, <2>3, <2>4 DEF ReleaseInv, FilesOrdered, FilesAgree
<1>3. CASE Format
  BY <1>3 DEF Format, ReleaseInv, ReleaseTypeOK, Ready, FilesOrdered, FilesAgree,
              Updating, NotOlder
<1>4. CASE Interrupted
  <2>1. /\ tool' = NoTool /\ ~uninterrupted' /\ uninterrupted' \in BOOLEAN
        /\ UNCHANGED <<neonize, goneonize, download, quoted, stated, updates,
                       updatesOnly>>
    BY <1>4 DEF Interrupted
  <2>2. ReleaseTypeOK'
    BY <2>1 DEF ReleaseInv, ReleaseTypeOK, NoTool, Tool, MaybeVersion
  <2>3. Ready'
    BY <2>1 DEF Ready, Updating, NoTool, Tool, Update
  <2>4. FilesOrdered' /\ FilesAgree'
    BY <2>1 DEF ReleaseInv, FilesOrdered, FilesAgree, Updating, NotOlder, NoTool,
                Tool, Update
  <2> QED
    BY <2>2, <2>3, <2>4 DEF ReleaseInv
<1> QED
  BY <1>1, <1>2, <1>3, <1>4

LEMMA ReleaseStep == ReleaseInv /\ ReleaseNext => ReleaseInv'
BY StartUpdateKeeps, SetUrlKeeps, OtherToolsKeep, OpenNeonizeKeeps,
   WriteNeonizeKeeps, OpenGoneonizeKeeps, WriteGoneonizeKeeps,
   OpenDownloadKeeps, WriteDownloadKeeps, RestKeeps DEF ReleaseNext

LEMMA ReleaseRests == ReleaseInv /\ UNCHANGED releaseVars => ReleaseInv'
BY DEF releaseVars, ReleaseInv, ReleaseTypeOK, Ready, FilesOrdered, FilesAgree,
       Updating, NotOlder

LEMMA ReleaseInvariant == Spec => []ReleaseInv
<1>1. Init => ReleaseInv
  BY ReleaseStarts, ReleaseAssumption DEF Init
<1>2. ReleaseInv /\ [Next]_programVars => ReleaseInv'
  BY ReleaseStep, ReleaseRests DEF Next, programVars
<1> QED
  BY <1>1, <1>2, PTL DEF Spec

\* The versions of the files are versions, of three numbers or four, or there
\* is none in a file that a tool has emptied.
THEOREM VersionsTypeCorrect == Spec => []ReleaseTypeOK
<1>1. ReleaseInv => ReleaseTypeOK
  BY DEF ReleaseInv
<1> QED
  BY <1>1, ReleaseInvariant, PTL

\* However many updates version_cli is asked for, and wherever they are killed,
\* before, between and in the writes, no file is ahead of the one written before
\* it, as long as no other tool has changed one.
THEOREM NeverAhead == Spec => []VersionsOrdered
<1>1. ReleaseInv => VersionsOrdered
  BY EarlierIsOlder DEF ReleaseInv, FilesOrdered, VersionsOrdered, NotOlder, Readable
<1> QED
  BY <1>1, ReleaseInvariant, PTL

\* What the setter of goneonize writes into download.py is the version of
\* version.go, whatever all the tools have left there; and that of the package
\* after nothing but updates that have ended.
THEOREM FilesMeet == Spec => UpdatesMeet
<1>1. ReleaseInv /\ [Next]_programVars =>
        (tool.does \in Update \union {"set"} /\ download' \notin {download, NoVersion} =>
           /\ download' = goneonize'
           /\ updatesOnly /\ uninterrupted => neonize' = goneonize')
  <2>1. ASSUME ReleaseInv, download' \notin {download, NoVersion},
               tool.does \in Update \union {"set"}, ReleaseNext
        PROVE  WriteDownload
    <3>1. tool.does \notin {"none", "bump"}
      BY <2>1 DEF Update
    <3>2. \A t : ~Start(t)
      BY <3>1 DEF Start, NoTool, Tool
    <3>3. ~OpenDownload /\ ~SedDownload
      BY <2>1, <3>1 DEF OpenDownload, SedDownload
    <3> QED
      BY <2>1, <3>2, <3>3
        DEF ReleaseNext, StartUpdate, SetUrl, SetVersion, Bump, Publish,
            OpenNeonize, WriteNeonize, OpenGoneonize, WriteGoneonize,
            OpenVersion, WriteVersion, Format, Interrupted
  <2>2. ASSUME ReleaseInv, tool.does \in Update \union {"set"}, WriteDownload,
               download' # NoVersion
        PROVE  /\ download' = goneonize'
               /\ updatesOnly /\ uninterrupted => neonize' = goneonize'
    <3>1. /\ tool.file = "download" /\ download' = tool.text
          /\ UNCHANGED <<neonize, goneonize>>
      BY <2>2 DEF WriteDownload, Writes
    <3>2. download' = goneonize'
      BY <2>2, <3>1 DEF ReleaseInv, Ready
    <3>3. updatesOnly => tool.does \in Update
      BY <2>2 DEF ReleaseInv, Ready
    <3>4. ASSUME updatesOnly, uninterrupted PROVE neonize = goneonize
      <4>1. FilesAgree /\ tool.does \in Update
        BY <2>2, <3>3, <3>4 DEF ReleaseInv
      <4> QED
        BY <3>1, <3>4, <4>1 DEF FilesAgree
    <3> QED
      BY <3>1, <3>2, <3>4
  <2> QED
    BY <2>1, <2>2 DEF Next, programVars, releaseVars
<1> QED
  BY <1>1, ReleaseInvariant, PTL DEF Spec, UpdatesMeet
==============================================================================
