------------------------------- MODULE Loader --------------------------------
(***************************************************************************)
(* Loading of the library of goneonize when neonize is imported            *)
(* (_binder.py, download.py).  Several processes use the same installed    *)
(* package, and so the same file, which a download writes in place.        *)
(***************************************************************************)
EXTENDS Naturals, Sequences

CONSTANTS
  Process,      \* those that may run at the same time
  Tag,          \* the versions that have been released, as numbers
  Published,    \* what GetVersion of a release's library may say
  Chunks,       \* bound: the chunks a library is written in
  MaxImports,   \* bound: how many processes are started
  NoTag

ASSUME LoaderAssumption ==
  /\ Chunks \in Nat \ {0} /\ MaxImports \in Nat
  /\ Published \subseteq [Tag -> Tag]
  /\ Tag \subseteq Nat /\ NoTag \notin Tag

VARIABLES
  package,    \* __GONEONIZE_VERSION__ of the installed package
  says,       \* what the published libraries say of themselves
  exists,     \* the file of the library is there
  library,    \* whose chunks it has
  loading,    \* where the import of each process is
  declared,   \* the __GONEONIZE_VERSION__ it has imported
  written,    \* how many chunks its download has written
  mapped,     \* the library it has opened
  rewritten,  \* that has been written over since
  imports,    \* how many processes have been started
  cutOff,     \* history: a download has ended early
  mixed       \* history: downloads of different versions have overlapped

loaderVars == <<package, says, exists, library, loading, declared, written,
                mapped, rewritten, imports, cutOff, mixed>>

Ended == {"off", "running", "failed"}

\* The types of the file and of the processes (load_goneonize, download).
LoaderTypeOK ==
  /\ package \in Tag
  /\ says \in Published
  /\ exists \in BOOLEAN
  /\ library \in Seq(Tag \union {NoTag}) /\ Len(library) <= Chunks
  /\ loading \in [Process -> Ended \union {"fetch", "write", "load", "check"}]
  /\ declared \in [Process -> Tag]
  /\ written \in [Process -> 0..Chunks]
  /\ mapped \in [Process -> Tag \union {NoTag}]
  /\ rewritten \in [Process -> BOOLEAN]
  /\ imports \in 0..MaxImports
  /\ cutOff \in BOOLEAN
  /\ mixed \in BOOLEAN

LoaderInit ==
  /\ package \in Tag
  /\ says \in Published
  /\ exists = FALSE
  /\ library = <<>>
  /\ loading = [p \in Process |-> "off"]
  /\ declared = [p \in Process |-> package]
  /\ written = [p \in Process |-> 0]
  /\ mapped = [p \in Process |-> NoTag]
  /\ rewritten = [p \in Process |-> FALSE]
  /\ imports = 0
  /\ cutOff = FALSE
  /\ mixed = FALSE

GoTo(p, place) == loading' = [loading EXCEPT ![p] = place]

Whole == Len(library) = Chunks /\ \A i \in 1..Chunks : library[i] \in Tag /\ library[i] = library[1]

\* import neonize, in a new process.
Import(p) ==
  /\ loading[p] \in Ended
  /\ imports < MaxImports
  /\ imports' = imports + 1
  /\ declared' = [declared EXCEPT ![p] = package]
  /\ mapped' = [mapped EXCEPT ![p] = NoTag]
  /\ rewritten' = [rewritten EXCEPT ![p] = FALSE]
  /\ GoTo(p, IF exists THEN "load" ELSE "fetch")
  /\ UNCHANGED <<package, says, exists, library, written, cutOff, mixed>>

\* No connection, or a status that is not 200.
Unavailable(p) ==
  /\ loading[p] = "fetch"
  /\ GoTo(p, "failed")
  /\ UNCHANGED <<package, says, exists, library, declared, written, mapped,
                 rewritten, imports, cutOff, mixed>>

\* open(fname, "wb") empties the file, also where it is mapped.
Open(p) ==
  /\ loading[p] = "fetch"
  /\ exists' = TRUE
  /\ library' = <<>>
  /\ written' = [written EXCEPT ![p] = 0]
  /\ rewritten' = [q \in Process |-> rewritten[q] \/ mapped[q] # NoTag]
  /\ mixed' = (mixed \/ \E q \in Process :
                  loading[q] = "write" /\ declared[q] # declared[p])
  /\ GoTo(p, "write")
  /\ UNCHANGED <<package, says, declared, mapped, imports, cutOff>>

\* Fault: the file is opened for appending.
MutWrite(p) ==
  /\ loading[p] = "write"
  /\ written[p] < Chunks
  /\ library' = Append(library, declared[p])
  /\ written' = [written EXCEPT ![p] = @ + 1]
  /\ UNCHANGED <<package, says, exists, loading, declared, mapped, rewritten,
                 imports, cutOff, mixed>>

\* A chunk goes where this download has got to, past the end if another one has
\* emptied the file since.
Write(p) ==
  /\ loading[p] = "write"
  /\ written[p] < Chunks
  /\ LET i == written[p] + 1
         end == IF i > Len(library) THEN i ELSE Len(library) IN
       library' = [j \in 1..end |-> IF j = i THEN declared[p]
                                    ELSE IF j <= Len(library) THEN library[j]
                                    ELSE NoTag]
  /\ written' = [written EXCEPT ![p] = @ + 1]
  /\ UNCHANGED <<package, says, exists, loading, declared, mapped, rewritten,
                 imports, cutOff, mixed>>

Downloaded(p) ==
  /\ loading[p] = "write"
  /\ written[p] = Chunks
  /\ GoTo(p, "load")
  /\ UNCHANGED <<package, says, exists, library, declared, written, mapped,
                 rewritten, imports, cutOff, mixed>>

\* The connection breaks or the process ends.
CutOff(p) ==
  /\ loading[p] = "write"
  /\ written[p] < Chunks
  /\ cutOff' = TRUE
  /\ GoTo(p, "failed")
  /\ UNCHANGED <<package, says, exists, library, declared, written, mapped,
                 rewritten, imports, mixed>>

\* Fault: OSError is answered with a download, like a wrong version.
MutLoad(p) ==
  /\ loading[p] = "load"
  /\ \/ mapped[p] # NoTag /\ GoTo(p, "check") /\ UNCHANGED mapped
     \/ /\ mapped[p] = NoTag /\ Whole
        /\ mapped' = [mapped EXCEPT ![p] = library[1]]
        /\ GoTo(p, "check")
     \/ mapped[p] = NoTag /\ ~Whole /\ GoTo(p, "fetch") /\ UNCHANGED mapped
  /\ UNCHANGED <<package, says, exists, library, declared, written, rewritten,
                 imports, cutOff, mixed>>

\* Fault: OSError is answered with another attempt.
MutRetry(p) ==
  /\ loading[p] = "load"
  /\ \/ mapped[p] # NoTag /\ GoTo(p, "check") /\ UNCHANGED mapped
     \/ /\ mapped[p] = NoTag /\ Whole
        /\ mapped' = [mapped EXCEPT ![p] = library[1]]
        /\ GoTo(p, "check")
     \/ mapped[p] = NoTag /\ ~Whole /\ UNCHANGED <<loading, mapped>>
  /\ UNCHANGED <<package, says, exists, library, declared, written, rewritten,
                 imports, cutOff, mixed>>

\* ctypes.CDLL: the library that is open already, the file, or OSError.
Load(p) ==
  /\ loading[p] = "load"
  /\ \/ mapped[p] # NoTag /\ GoTo(p, "check") /\ UNCHANGED mapped
     \/ /\ mapped[p] = NoTag /\ Whole
        /\ mapped' = [mapped EXCEPT ![p] = library[1]]
        /\ GoTo(p, "check")
     \/ mapped[p] = NoTag /\ ~Whole /\ GoTo(p, "failed") /\ UNCHANGED mapped
  /\ UNCHANGED <<package, says, exists, library, declared, written, rewritten,
                 imports, cutOff, mixed>>

\* GetVersion, compared.  Of a library that is written over while it is open
\* it may say anything.
Check(p) ==
  /\ loading[p] = "check"
  /\ \/ /\ rewritten[p] \/ says[mapped[p]] = declared[p]
        /\ GoTo(p, "running")
     \/ /\ rewritten[p] \/ says[mapped[p]] # declared[p]
        /\ GoTo(p, "fetch")
  /\ UNCHANGED <<package, says, exists, library, declared, written, mapped,
                 rewritten, imports, cutOff, mixed>>

\* The code of the library is not there any more, or not where it was.
Fault(p) ==
  /\ rewritten[p]
  /\ loading[p] \notin {"off", "failed"}
  /\ cutOff' = (cutOff \/ loading[p] = "write")
  /\ GoTo(p, "failed")
  /\ UNCHANGED <<package, says, exists, library, declared, written, mapped,
                 rewritten, imports, mixed>>

\* Another version of the package is installed; the file stays where it is.
Upgrade ==
  /\ package' \in {v \in Tag : v > package}
  /\ UNCHANGED <<says, exists, library, loading, declared, written, mapped,
                 rewritten, imports, cutOff, mixed>>

Proceed(p) ==
  Unavailable(p) \/ Open(p) \/ Write(p) \/ Downloaded(p) \/ Load(p) \/ Check(p)

LoaderNext ==
  \/ Upgrade
  \/ \E p \in Process : Import(p) \/ Proceed(p) \/ CutOff(p) \/ Fault(p)

-----------------------------------------------------------------------------
AtRest == \A p \in Process : loading[p] \notin {"fetch", "write"}

\* Downloads that overlap do not harm the file: once all have ended, and if
\* each did write all of its version, the file is a whole library (download.py
\* opens with "wb" and writes at its own place).
CompleteAtRest ==
  AtRest /\ exists /\ ~cutOff /\ ~mixed => Whole

\* A library that was cut off is never repaired: when nobody loads it any more,
\* later imports find the file, fail with OSError and do not download again
\* (_binder.py:27-29, 45), also not after an update of the package.
Broken == exists /\ ~Whole /\ \A p \in Process : loading[p] \in Ended
Unrepaired == [](Broken => []~Whole)

\* An import ends.  It may go on for ever only when its library was written
\* over while it had it open, as it does itself when it finds another version.
ImportEnds ==
  \A p \in Process : loading[p] \notin Ended ~> (loading[p] \in Ended \/ rewritten[p])
==============================================================================
