------------------------- MODULE LibraryCacheProofs -------------------------
(***************************************************************************)
(* What holds of the library cache for any number of processes, threads,   *)
(* sources and outputs, whatever is killed or fails.                       *)
(***************************************************************************)
EXTENDS LibraryCache, TLAPS

FileType == [exists : BOOLEAN, content : Contents, mtime : Nat]

Control ==
  {"idle", "check", "compare", "lock", "wait", "locked", "writing", "written", "failed",
   "renamed", "load", "done", "killed"}

CacheTypeOK ==
  /\ clock \in Nat
  /\ sources \in [Sources -> [version : Nat \ {0}, mtime : Nat]]
  /\ library \in [Outputs -> FileType]
  /\ temp \in [Threads -> FileType]
  /\ locked \subseteq Outputs
  /\ pc \in [Threads -> Control]
  /\ output \in [Threads -> Outputs]
  /\ lib_mtime \in [Threads -> Nat]
  /\ unchecked \in [Threads -> SUBSET Sources]
  /\ input \in [Threads -> Contents]
  /\ began \in [Threads -> Contents]
  /\ compiled \in [Threads -> BOOLEAN]
  /\ result \in [Threads -> [done : BOOLEAN, of : SUBSET Contents]]

-----------------------------------------------------------------------------
\* The initial state has the types, for any threads, sources and outputs.
LEMMA InitType == CacheInit => CacheTypeOK
<1> SUFFICES ASSUME CacheInit PROVE CacheTypeOK
  OBVIOUS
<1>1. NoContent \in Contents BY DEF NoContent, Contents
<1>2. NoFile \in FileType BY <1>1 DEF NoFile, FileType
<1>3. NoAnswer \in [done : BOOLEAN, of : SUBSET Contents] BY DEF NoAnswer
<1>4. (CHOOSE o \in Outputs : TRUE) \in Outputs BY CacheAssumption
<1>5. QED
  BY <1>1, <1>2, <1>3, <1>4 DEF CacheInit, CacheTypeOK, Control

\* Every action keeps the types.
LEMMA NextType == CacheTypeOK /\ [CacheNext]_cacheVars => CacheTypeOK'
<1> SUFFICES ASSUME CacheTypeOK, [CacheNext]_cacheVars PROVE CacheTypeOK'
  OBVIOUS
<1> USE DEF CacheTypeOK, localVars, Control
<1>a. NoContent \in Contents /\ Versions \in Contents
  BY DEF NoContent, Contents, Versions
<1>b. NoFile \in FileType /\ \A c \in Contents, m \in Nat : File(c, m) \in FileType
  BY <1>a DEF NoFile, File, FileType
<1>c. Failure \in [done : BOOLEAN, of : SUBSET Contents] BY DEF Failure
<1>d. \A o \in Outputs : library[o].content \in Contents BY DEF FileType
<1>e. \A o \in Outputs : library[o].mtime \in Nat BY DEF FileType
<1>1. ASSUME NEW p \in Threads, NEW o \in Outputs, NEW force \in BOOLEAN, Begin(p, o, force)
      PROVE  CacheTypeOK'
  BY <1>1, <1>a DEF Begin, Goto
<1>2. ASSUME NEW p \in Threads, CheckLibrary(p) PROVE CacheTypeOK'
  <2>0. library[output[p]].mtime \in Nat BY <1>e
  <2>1. CASE library[output[p]].exists
    <3>1. /\ pc' = [pc EXCEPT ![p] = "compare"]
          /\ lib_mtime' = [lib_mtime EXCEPT ![p] = library[output[p]].mtime]
          /\ unchecked' = [unchecked EXCEPT ![p] = Sources]
      BY <1>2, <2>1 DEF CheckLibrary, Goto
    <3>2. QED BY <1>2, <2>0, <3>1 DEF CheckLibrary
  <2>2. CASE ~library[output[p]].exists
    BY <1>2, <2>2 DEF CheckLibrary, Goto
  <2>3. QED BY <2>1, <2>2
<1>3. ASSUME NEW p \in Threads, NEW s \in Sources, CheckSource(p, s) PROVE CacheTypeOK'
  BY <1>3 DEF CheckSource, Goto
<1>4. ASSUME NEW p \in Threads, CreateLock(p) PROVE CacheTypeOK'
  BY <1>4 DEF CreateLock, Goto
<1>5. ASSUME NEW p \in Threads, WaitForRemoval(p) PROVE CacheTypeOK'
  <2>1. CASE Goto(p, "load") /\ UNCHANGED result
    BY <1>5, <2>1 DEF WaitForRemoval, Goto
  <2>2. CASE Return(p, Failure)
    BY <1>5, <2>2, <1>c DEF WaitForRemoval, Goto, Return
  <2>3. QED BY <1>5, <2>1, <2>2 DEF WaitForRemoval
<1>6. ASSUME NEW p \in Threads, PrepareTools(p) PROVE CacheTypeOK'
  BY <1>6 DEF PrepareTools
<1>7. ASSUME NEW p \in Threads, ReadSources(p) PROVE CacheTypeOK'
  BY <1>7, <1>a, <1>b DEF ReadSources, Goto, WriteOutput
<1>8. ASSUME NEW p \in Threads, FinishOutput(p) PROVE CacheTypeOK'
  BY <1>8, <1>a, <1>b DEF FinishOutput, Goto, WriteOutput
<1>9. ASSUME NEW p \in Threads, RenameOutput(p) PROVE CacheTypeOK'
  BY <1>9, <1>b DEF RenameOutput, Goto, Renamed
<1>10. ASSUME NEW p \in Threads, FailCompile(p) PROVE CacheTypeOK'
  BY <1>10, <1>b DEF FailCompile, Goto, Remove
<1>11. ASSUME NEW p \in Threads, DropLock(p) PROVE CacheTypeOK'
  <2>1. CASE pc[p] = "failed"
    BY <1>11, <2>1, <1>c DEF DropLock, Goto, Return
  <2>2. CASE pc[p] # "failed"
    BY <1>11, <2>2 DEF DropLock, Goto
  <2>3. QED BY <2>1, <2>2
<1>12. ASSUME NEW p \in Threads, LoadLanguage(p) PROVE CacheTypeOK'
  BY <1>12, <1>c, <1>d DEF LoadLanguage, Goto, Return
<1>13. ASSUME NEW p \in Threads, Kill(ProcessOf(p)) PROVE CacheTypeOK'
  BY <1>13 DEF Kill
<1>14. ASSUME NEW s \in Sources, Write(s) PROVE CacheTypeOK'
  BY <1>14 DEF Write
<1>15. CASE UNCHANGED cacheVars
  BY <1>15 DEF cacheVars
<1>16. QED
  BY <1>1, <1>2, <1>3, <1>4, <1>5, <1>6, <1>7, <1>8, <1>9, <1>10, <1>11, <1>12, <1>13, <1>14,
     <1>15 DEF CacheNext, Step

-----------------------------------------------------------------------------
(* The lock file keeps the others out from its creation to its removal: what *)
(* a thread read of the sources, and then what it wrote, stays newer than    *)
(* the library it is going to replace.                                       *)

Positive == [Sources -> Nat \ {0}]

LocksHeld == \A p \in Threads : Owns(p) => output[p] \in locked

\* c is of sources that existed, and may be installed by p.
Fresh(p, c) ==
  /\ c \in Positive
  /\ NotOlder(Versions, c) /\ NotOlder(c, began[p])
  /\ library[output[p]].exists => NotOlder(c, library[output[p]].content)

\* By its time a file is of the sources as they are, only if it is.
Timely(file) ==
  /\ ~EditsDuringCompile
  /\ \A s \in Sources : sources[s].mtime <= file.mtime
  => file.content = Versions

InputFresh ==
  \A p \in Threads : pc[p] = "writing" =>
    Fresh(p, input[p]) /\ (~EditsDuringCompile => input[p] = Versions)

TempFresh ==
  \A p \in Threads : pc[p] = "written" =>
    /\ temp[p].exists /\ Fresh(p, temp[p].content)
    /\ temp[p].mtime <= clock /\ Timely(temp[p])

LibraryPast ==
  \A o \in Outputs : library[o].exists =>
    /\ library[o].content \in Positive /\ NotOlder(Versions, library[o].content)
    /\ library[o].mtime <= clock /\ Timely(library[o])

BeganPast == \A p \in Threads : NotOlder(Versions, began[p])

\* From its rename on, the compiler finds its library or a newer one.
CompiledStays ==
  \A p \in Threads : compiled[p] =>
    /\ pc[p] \in {"renamed", "load", "done", "killed"}
    /\ pc[p] \in {"renamed", "load"} =>
         library[output[p]].exists /\ NotOlder(library[output[p]].content, began[p])

Unanswered == \A p \in Threads : pc[p] # "done" => result[p] = NoAnswer

CacheInv ==
  /\ CacheTypeOK /\ LocksHeld /\ CompileExclusive
  /\ InputFresh /\ TempFresh /\ LibraryPast /\ BeganPast
  /\ CompiledStays /\ CompilerLoadsNew /\ Unanswered

\* Versions are compared source by source.
LEMMA NotOlderTransitive ==
  ASSUME NEW a \in Contents, NEW b \in Contents, NEW c \in Contents,
         NotOlder(a, b), NotOlder(b, c)
  PROVE  NotOlder(a, c)
BY DEF NotOlder, Contents

LEMMA NotOlderReflexive == ASSUME NEW a \in Contents PROVE NotOlder(a, a)
BY DEF NotOlder, Contents

\* No thread runs at first, and there are no libraries.
LEMMA InitInv == CacheInit => CacheInv
<1> SUFFICES ASSUME CacheInit PROVE CacheInv
  OBVIOUS
<1>1. CacheTypeOK BY InitType
<1>2. BeganPast BY DEF CacheInit, BeganPast, NotOlder, Versions, NoContent
<1>3. \A o \in Outputs : ~library[o].exists BY DEF CacheInit, NoFile
<1>4. QED
  BY <1>1, <1>2, <1>3
  DEF CacheInit, CacheInv, LocksHeld, Owns, CompileExclusive, InputFresh, TempFresh, LibraryPast,
      CompiledStays, CompilerLoadsNew, Unanswered

\* Steps that change only where a thread is, not into or within a compilation.
LEMMA QuietOK ==
  ASSUME CacheInv, CacheTypeOK', NEW p \in Threads, NEW l \in Control,
         ~Owns(p), l \notin {"locked", "writing", "written", "failed", "renamed", "done"},
         compiled[p] => l = pc[p],
         pc[p] # "done", Goto(p, l),
         UNCHANGED <<clock, sources, library, temp, locked, output, input, began, compiled, result>>
  PROVE  CacheInv'
<1> USE DEF CacheInv
<1>0. pc \in [Threads -> Control] BY DEF CacheTypeOK
<1>1. LocksHeld' /\ CompileExclusive' BY <1>0 DEF LocksHeld, CompileExclusive, Owns, Goto
<1>2. InputFresh' /\ TempFresh'
  BY <1>0 DEF InputFresh, TempFresh, Goto, Fresh, Timely, Versions
<1>3. LibraryPast' /\ BeganPast' BY DEF LibraryPast, BeganPast, Timely, Versions
<1>4. CompiledStays' /\ CompilerLoadsNew' /\ Unanswered'
  BY <1>0 DEF CompiledStays, CompilerLoadsNew, Unanswered, Goto
<1>5. QED BY <1>1, <1>2, <1>3, <1>4

\* Steps of the tools alone, or of nothing.
LEMMA UnchangedOK ==
  ASSUME CacheInv, CacheTypeOK',
         UNCHANGED <<clock, sources, library, temp, locked, pc, output, input, began, compiled, result>>
  PROVE  CacheInv'
<1> USE DEF CacheInv
<1>1. LocksHeld' /\ CompileExclusive' BY DEF LocksHeld, CompileExclusive, Owns
<1>2. InputFresh' /\ TempFresh' BY DEF InputFresh, TempFresh, Fresh, Timely, Versions
<1>3. LibraryPast' /\ BeganPast' BY DEF LibraryPast, BeganPast, Timely, Versions
<1>4. CompiledStays' /\ CompilerLoadsNew' /\ Unanswered'
  BY DEF CompiledStays, CompilerLoadsNew, Unanswered
<1>5. QED BY <1>1, <1>2, <1>3, <1>4

\* A call returns r, and drops its lock if it has one.
LEMMA AnswerOK ==
  ASSUME CacheInv, CacheTypeOK', NEW p \in Threads, NEW r, Return(p, r),
         locked' = locked \/ (Owns(p) /\ locked' = locked \ {output[p]}),
         compiled[p] => \A c \in r.of : NotOlder(c, began[p]),
         UNCHANGED <<clock, sources, library, temp, output, input, began, compiled>>
  PROVE  CacheInv'
<1> USE DEF CacheInv
<1>0. /\ pc \in [Threads -> Control] /\ pc' = [pc EXCEPT ![p] = "done"]
      /\ result' = [result EXCEPT ![p] = r] /\ DOMAIN result = Threads
  BY DEF CacheTypeOK, Return, Goto
<1>1. LocksHeld' /\ CompileExclusive' BY <1>0 DEF LocksHeld, CompileExclusive, Owns
<1>2. InputFresh' /\ TempFresh'
  BY <1>0 DEF InputFresh, TempFresh, Fresh, Timely, Versions
<1>3. LibraryPast' /\ BeganPast' BY DEF LibraryPast, BeganPast, Timely, Versions
<1>4. CompiledStays' /\ Unanswered' BY <1>0 DEF CompiledStays, Unanswered
<1>5. CompilerLoadsNew' BY <1>0 DEF CompilerLoadsNew
<1>6. QED BY <1>1, <1>2, <1>3, <1>4, <1>5

\* Every step keeps the invariant.
LEMMA NextInv == CacheInv /\ [CacheNext]_cacheVars => CacheInv'
<1> SUFFICES ASSUME CacheInv, [CacheNext]_cacheVars PROVE CacheInv'
  OBVIOUS
<1>a. CacheTypeOK /\ CacheTypeOK' BY NextType DEF CacheInv
<1>b. pc \in [Threads -> Control] BY <1>a DEF CacheTypeOK
<1>1. ASSUME NEW p \in Threads, NEW o \in Outputs, NEW force \in BOOLEAN, Begin(p, o, force)
      PROVE  CacheInv'
  <2>1. /\ pc[p] = "idle" /\ ~compiled[p] /\ result[p] = NoAnswer
        /\ pc' = [pc EXCEPT ![p] = IF force THEN "lock" ELSE "check"]
        /\ output' = [output EXCEPT ![p] = o]
        /\ began' = [began EXCEPT ![p] = Versions]
        /\ UNCHANGED <<clock, sources, library, temp, locked, input, compiled, result>>
    BY <1>1 DEF Begin, Goto, CacheInv, CompiledStays, Unanswered
  <2>2. LocksHeld' /\ CompileExclusive'
    BY <2>1, <1>a DEF CacheInv, LocksHeld, CompileExclusive, Owns, CacheTypeOK
  <2>3. InputFresh' /\ TempFresh'
    BY <2>1, <1>a DEF CacheInv, InputFresh, TempFresh, Fresh, Timely, Versions, CacheTypeOK
  <2>4. LibraryPast' BY <2>1 DEF CacheInv, LibraryPast, Timely, Versions
  <2>5. Versions' = Versions /\ NotOlder(Versions, Versions)
    BY <2>1, <1>a, NotOlderReflexive DEF Versions, CacheTypeOK, Contents
  <2>6. BeganPast' BY <2>1, <2>5, <1>a DEF CacheInv, BeganPast, CacheTypeOK
  <2>7. CompiledStays' /\ CompilerLoadsNew' /\ Unanswered'
    BY <2>1, <1>a DEF CacheInv, CompiledStays, CompilerLoadsNew, Unanswered, CacheTypeOK
  <2>8. QED BY <1>a, <2>2, <2>3, <2>4, <2>6, <2>7 DEF CacheInv
<1>2. ASSUME NEW p \in Threads, CheckLibrary(p) PROVE CacheInv'
  <2>1. /\ pc[p] = "check" /\ ~Owns(p) /\ ~compiled[p]
        /\ Goto(p, "compare") \/ Goto(p, "lock")
        /\ UNCHANGED <<clock, sources, library, temp, locked, output, input, began, compiled, result>>
    BY <1>2 DEF CheckLibrary, Owns, CacheInv, CompiledStays
  <2>2. QED BY <1>a, <2>1, QuietOK DEF Control
<1>3. ASSUME NEW p \in Threads, NEW s \in Sources, CheckSource(p, s) PROVE CacheInv'
  <2>1. /\ pc[p] = "compare" /\ ~Owns(p) /\ ~compiled[p]
        /\ Goto(p, "compare") \/ Goto(p, "lock") \/ Goto(p, "load")
        /\ UNCHANGED <<clock, sources, library, temp, locked, output, input, began, compiled, result>>
    BY <1>3 DEF CheckSource, Owns, CacheInv, CompiledStays
  <2>2. QED BY <1>a, <2>1, QuietOK DEF Control
<1>4. ASSUME NEW p \in Threads, CreateLock(p) PROVE CacheInv'
  <2>1. /\ pc[p] = "lock" /\ ~Owns(p) /\ ~compiled[p]
        /\ UNCHANGED <<clock, sources, library, temp, output, input, began, compiled, result>>
    BY <1>4 DEF CreateLock, Owns, localVars, CacheInv, CompiledStays
  <2>2. CASE output[p] \in locked
    BY <1>4, <1>a, <2>1, <2>2, QuietOK DEF CreateLock, MayLock, Control
  <2>3. CASE output[p] \notin locked
    <3>1. pc' = [pc EXCEPT ![p] = "locked"] /\ locked' = locked \cup {output[p]}
      BY <1>4, <2>3 DEF CreateLock, MayLock, Goto
    <3>2. LocksHeld' /\ CompileExclusive'
      BY <2>1, <2>3, <3>1, <1>b DEF CacheInv, LocksHeld, CompileExclusive, Owns
    <3>3. InputFresh' /\ TempFresh'
      BY <2>1, <3>1, <1>b DEF CacheInv, InputFresh, TempFresh, Fresh, Timely, Versions
    <3>4. LibraryPast' /\ BeganPast' BY <2>1 DEF CacheInv, LibraryPast, BeganPast, Timely, Versions
    <3>5. CompiledStays' /\ CompilerLoadsNew' /\ Unanswered'
      BY <2>1, <3>1, <1>b DEF CacheInv, CompiledStays, CompilerLoadsNew, Unanswered
    <3>6. QED BY <1>a, <3>2, <3>3, <3>4, <3>5 DEF CacheInv
  <2>4. QED BY <2>2, <2>3
<1>5. ASSUME NEW p \in Threads, WaitForRemoval(p) PROVE CacheInv'
  <2>1. /\ pc[p] = "wait" /\ ~Owns(p) /\ ~compiled[p]
        /\ UNCHANGED <<clock, sources, library, temp, locked, output, input, began, compiled>>
    BY <1>5 DEF WaitForRemoval, Owns, localVars, CacheInv, CompiledStays
  <2>2. CASE Goto(p, "load") /\ UNCHANGED result BY <1>a, <2>1, <2>2, QuietOK DEF Control
  <2>3. CASE Return(p, Failure) BY <1>a, <2>1, <2>3, AnswerOK
  <2>4. QED BY <1>5, <2>2, <2>3 DEF WaitForRemoval
<1>6. ASSUME NEW p \in Threads, PrepareTools(p) PROVE CacheInv'
  BY <1>6, <1>a, UnchangedOK DEF PrepareTools, localVars
<1>7. ASSUME NEW p \in Threads, ReadSources(p) PROVE CacheInv'
  <2>1. /\ pc[p] = "locked" /\ ~compiled[p] /\ pc' = [pc EXCEPT ![p] = "writing"]
        /\ input' = [input EXCEPT ![p] = Versions]
        /\ temp' = [temp EXCEPT ![p] = File(NoContent, clock)]
        /\ UNCHANGED <<clock, sources, library, locked, output, began, compiled, result>>
    BY <1>7 DEF ReadSources, Goto, WriteOutput, CacheInv, CompiledStays
  <2>2. Versions' = Versions /\ Versions \in Positive /\ NotOlder(Versions, Versions)
    BY <2>1, <1>a, NotOlderReflexive DEF Versions, Positive, CacheTypeOK, Contents
  <2>3. LocksHeld' /\ CompileExclusive'
    BY <2>1, <1>b DEF CacheInv, LocksHeld, CompileExclusive, Owns
  <2>4. Fresh(p, Versions) BY <2>2, <1>a DEF CacheInv, LibraryPast, BeganPast, Fresh, CacheTypeOK
  <2>5. InputFresh'
    <3> SUFFICES ASSUME NEW q \in Threads, pc'[q] = "writing"
                 PROVE  Fresh(q, input[q])' /\ (~EditsDuringCompile => input'[q] = Versions')
      BY DEF InputFresh
    <3>1. Fresh(q, input'[q]) /\ (~EditsDuringCompile => input'[q] = Versions)
      BY <2>1, <2>4, <1>a, <1>b DEF CacheInv, InputFresh, CacheTypeOK
    <3>2. QED BY <2>1, <2>2, <3>1 DEF Fresh
  <2>6. TempFresh'
    <3> SUFFICES ASSUME NEW q \in Threads, pc'[q] = "written"
                 PROVE  /\ temp'[q].exists /\ Fresh(q, temp[q].content)'
                        /\ temp'[q].mtime <= clock' /\ Timely(temp[q])'
      BY DEF TempFresh
    <3>1. q # p /\ temp'[q] = temp[q] /\ pc[q] = "written" BY <2>1, <1>a, <1>b DEF CacheTypeOK
    <3>2. QED BY <2>1, <2>2, <3>1 DEF CacheInv, TempFresh, Fresh, Timely
  <2>7. LibraryPast' /\ BeganPast' BY <2>1, <2>2 DEF CacheInv, LibraryPast, BeganPast, Timely
  <2>8. CompiledStays' /\ CompilerLoadsNew' /\ Unanswered'
    BY <2>1, <1>b DEF CacheInv, CompiledStays, CompilerLoadsNew, Unanswered
  <2>9. QED BY <1>a, <2>3, <2>5, <2>6, <2>7, <2>8 DEF CacheInv
<1>8. ASSUME NEW p \in Threads, FinishOutput(p) PROVE CacheInv'
  <2>1. /\ pc[p] = "writing" /\ ~compiled[p] /\ pc' = [pc EXCEPT ![p] = "written"]
        /\ clock' = clock + 1
        /\ temp' = [temp EXCEPT ![p] = File(input[p], clock + 1)]
        /\ input' = [input EXCEPT ![p] = NoContent]
        /\ UNCHANGED <<sources, library, locked, output, began, compiled, result>>
    BY <1>8 DEF FinishOutput, Goto, WriteOutput, CacheInv, CompiledStays
  <2>2. Versions' = Versions BY <2>1 DEF Versions
  <2>3. LocksHeld' /\ CompileExclusive'
    BY <2>1, <1>b DEF CacheInv, LocksHeld, CompileExclusive, Owns
  <2>4. Fresh(p, input[p]) /\ (~EditsDuringCompile => input[p] = Versions)
    BY <2>1 DEF CacheInv, InputFresh
  <2>5. InputFresh'
    <3> SUFFICES ASSUME NEW q \in Threads, pc'[q] = "writing"
                 PROVE  Fresh(q, input[q])' /\ (~EditsDuringCompile => input'[q] = Versions')
      BY DEF InputFresh
    <3>1. q # p /\ input'[q] = input[q] /\ pc[q] = "writing" BY <2>1, <1>a, <1>b DEF CacheTypeOK
    <3>2. QED BY <2>1, <2>2, <3>1 DEF CacheInv, InputFresh, Fresh
  <2>6. TempFresh'
    <3> SUFFICES ASSUME NEW q \in Threads, pc'[q] = "written"
                 PROVE  /\ temp'[q].exists /\ Fresh(q, temp[q].content)'
                        /\ temp'[q].mtime <= clock' /\ Timely(temp[q])'
      BY DEF TempFresh
    <3>1. CASE q = p
      <4>1. temp'[q] = File(input[p], clock + 1) BY <2>1, <3>1, <1>a DEF CacheTypeOK
      <4>2. temp'[q].exists /\ temp'[q].content = input[p] /\ temp'[q].mtime = clock'
        BY <2>1, <4>1 DEF File
      <4>3. clock' <= clock' BY <1>a DEF CacheTypeOK
      <4>4. Fresh(q, temp[q].content)' BY <2>1, <2>2, <2>4, <3>1, <4>2 DEF Fresh
      <4>5. Timely(temp[q])' BY <2>2, <2>4, <4>2 DEF Timely
      <4>6. QED BY <4>2, <4>3, <4>4, <4>5
    <3>2. CASE q # p
      <4>1. temp'[q] = temp[q] /\ pc[q] = "written" BY <2>1, <3>2, <1>a, <1>b DEF CacheTypeOK
      <4>2. temp[q].mtime <= clock' BY <2>1, <4>1, <1>a DEF CacheInv, TempFresh, CacheTypeOK, FileType
      <4>3. QED BY <2>1, <2>2, <4>1, <4>2 DEF CacheInv, TempFresh, Fresh, Timely
    <3>3. QED BY <3>1, <3>2
  <2>7. LibraryPast' /\ BeganPast'
    BY <2>1, <2>2, <1>a DEF CacheInv, LibraryPast, BeganPast, Timely, CacheTypeOK, FileType
  <2>8. CompiledStays' /\ CompilerLoadsNew' /\ Unanswered'
    BY <2>1, <1>b DEF CacheInv, CompiledStays, CompilerLoadsNew, Unanswered
  <2>9. QED BY <1>a, <2>3, <2>5, <2>6, <2>7, <2>8 DEF CacheInv
<1>9. ASSUME NEW p \in Threads, RenameOutput(p) PROVE CacheInv'
  <2>1. /\ pc[p] = "written" /\ pc' = [pc EXCEPT ![p] = "renamed"]
        /\ library' = [library EXCEPT ![output[p]] = temp[p]]
        /\ temp' = [temp EXCEPT ![p] = NoFile]
        /\ compiled' = [compiled EXCEPT ![p] = TRUE]
        /\ UNCHANGED <<clock, sources, locked, output, input, began, result>>
    BY <1>9 DEF RenameOutput, Goto, Renamed
  <2>2. Versions' = Versions BY <2>1 DEF Versions
  <2>3. LocksHeld' /\ CompileExclusive'
    BY <2>1, <1>b DEF CacheInv, LocksHeld, CompileExclusive, Owns
  <2>4. temp[p].exists /\ Fresh(p, temp[p].content) /\ temp[p].mtime <= clock /\ Timely(temp[p])
    BY <2>1 DEF CacheInv, TempFresh
  <2>5. output[p] \in Outputs /\ DOMAIN library = Outputs /\ DOMAIN temp = Threads
        /\ DOMAIN compiled = Threads
    BY <1>a DEF CacheTypeOK
  <2>6. \A q \in Threads : q # p /\ Owns(q) => library'[output[q]] = library[output[q]]
    BY <2>1, <2>5, <1>a DEF CacheInv, CompileExclusive, Owns, CacheTypeOK
  <2>7. InputFresh'
    <3> SUFFICES ASSUME NEW q \in Threads, pc'[q] = "writing"
                 PROVE  Fresh(q, input[q])' /\ (~EditsDuringCompile => input'[q] = Versions')
      BY DEF InputFresh
    <3>1. q # p /\ pc[q] = "writing" BY <2>1, <1>b
    <3>2. library'[output[q]] = library[output[q]] BY <2>6, <3>1 DEF Owns
    <3>3. QED BY <2>1, <2>2, <3>1, <3>2 DEF CacheInv, InputFresh, Fresh
  <2>8. TempFresh'
    <3> SUFFICES ASSUME NEW q \in Threads, pc'[q] = "written"
                 PROVE  /\ temp'[q].exists /\ Fresh(q, temp[q].content)'
                        /\ temp'[q].mtime <= clock' /\ Timely(temp[q])'
      BY DEF TempFresh
    <3>1. q # p /\ pc[q] = "written" /\ temp'[q] = temp[q] BY <2>1, <2>5, <1>b
    <3>2. library'[output[q]] = library[output[q]] BY <2>6, <3>1 DEF Owns
    <3>3. QED BY <2>1, <2>2, <3>1, <3>2 DEF CacheInv, TempFresh, Fresh, Timely
  <2>9. LibraryPast'
    <3> SUFFICES ASSUME NEW o \in Outputs, library'[o].exists
                 PROVE  /\ library'[o].content \in Positive
                        /\ NotOlder(Versions', library'[o].content)
                        /\ library'[o].mtime <= clock' /\ Timely(library[o])'
      BY DEF LibraryPast
    <3>1. CASE o = output[p]
      BY <2>1, <2>2, <2>4, <2>5, <3>1 DEF Fresh, Timely
    <3>2. CASE o # output[p]
      BY <2>1, <2>2, <2>5, <3>2 DEF CacheInv, LibraryPast, Timely
    <3>3. QED BY <3>1, <3>2
  <2>10. BeganPast' BY <2>1, <2>2 DEF CacheInv, BeganPast
  <2>11. CompiledStays'
    <3> SUFFICES ASSUME NEW q \in Threads, compiled'[q]
                 PROVE  /\ pc'[q] \in {"renamed", "load", "done", "killed"}
                        /\ pc'[q] \in {"renamed", "load"} =>
                             /\ library'[output[q]].exists
                             /\ NotOlder(library'[output[q]].content, began[q])
      BY <2>1 DEF CompiledStays
    <3>1. CASE q = p BY <2>1, <2>4, <2>5, <1>b, <3>1 DEF Fresh
    <3>2. CASE q # p
      <4>1. compiled[q] /\ pc'[q] = pc[q] BY <2>1, <2>5, <1>b, <3>2
      <4>2. CASE output[q] # output[p]
        BY <2>1, <2>5, <4>1, <4>2, <1>a DEF CacheInv, CompiledStays, CacheTypeOK
      <4>3. CASE output[q] = output[p]
        <5>1. library'[output[q]] = temp[p] BY <2>1, <2>5, <4>3
        <5>2. SUFFICES ASSUME pc[q] \in {"renamed", "load"}
                       PROVE  NotOlder(temp[p].content, began[q])
          BY <2>4, <4>1, <5>1 DEF CacheInv, CompiledStays
        <5>3. /\ library[output[q]].exists /\ NotOlder(library[output[q]].content, began[q])
              /\ NotOlder(temp[p].content, library[output[q]].content)
          BY <2>4, <4>1, <4>3, <5>2 DEF CacheInv, CompiledStays, Fresh
        <5>4. temp[p].content \in Contents /\ library[output[q]].content \in Contents
              /\ began[q] \in Contents
          BY <1>a DEF CacheTypeOK, FileType
        <5>5. QED BY <5>3, <5>4, NotOlderTransitive
      <4>4. QED BY <4>2, <4>3
    <3>3. QED BY <3>1, <3>2
  <2>12. Unanswered' BY <2>1, <1>b DEF CacheInv, Unanswered
  <2>13. CompilerLoadsNew'
    <3>1. result[p].of = {} BY <2>1 DEF CacheInv, Unanswered, NoAnswer
    <3>2. QED BY <2>1, <2>5, <3>1 DEF CacheInv, CompilerLoadsNew
  <2>14. QED BY <1>a, <2>3, <2>7, <2>8, <2>9, <2>10, <2>11, <2>12, <2>13 DEF CacheInv
<1>10. ASSUME NEW p \in Threads, FailCompile(p) PROVE CacheInv'
  <2>1. /\ Owns(p) /\ pc[p] # "renamed" /\ ~compiled[p] /\ pc' = [pc EXCEPT ![p] = "failed"]
        /\ \A q \in Threads \ {p} : temp'[q] = temp[q]
        /\ UNCHANGED <<clock, sources, library, locked, output, input, began, compiled, result>>
    <3>1. temp' = [temp EXCEPT ![p] = NoFile] \/ temp' = temp BY <1>10 DEF FailCompile, Remove
    <3>2. \A q \in Threads \ {p} : temp'[q] = temp[q] BY <3>1, <1>a DEF CacheTypeOK
    <3>3. QED BY <1>10, <3>2 DEF FailCompile, Goto, Remove, Owns, localVars, CacheInv, CompiledStays
  <2>2. LocksHeld' /\ CompileExclusive'
    BY <2>1, <1>b DEF CacheInv, LocksHeld, CompileExclusive, Owns
  <2>3. InputFresh' BY <2>1, <1>b DEF CacheInv, InputFresh, Fresh, Versions
  <2>4. TempFresh'
    BY <2>1, <1>a, <1>b DEF CacheInv, TempFresh, Fresh, Timely, Versions, CacheTypeOK
  <2>5. LibraryPast' /\ BeganPast' BY <2>1 DEF CacheInv, LibraryPast, BeganPast, Timely, Versions
  <2>6. CompiledStays' /\ CompilerLoadsNew' /\ Unanswered'
    BY <2>1, <1>b DEF CacheInv, CompiledStays, CompilerLoadsNew, Unanswered, Owns
  <2>7. QED BY <1>a, <2>2, <2>3, <2>4, <2>5, <2>6 DEF CacheInv
<1>11. ASSUME NEW p \in Threads, DropLock(p) PROVE CacheInv'
  <2>1. /\ Owns(p) /\ locked' = locked \ {output[p]}
        /\ UNCHANGED <<clock, sources, library, temp, output, input, began, compiled>>
    BY <1>11 DEF DropLock, Owns, localVars
  <2>2. CASE pc[p] = "failed"
    <3>1. Return(p, Failure) /\ ~compiled[p] BY <1>11, <2>2 DEF DropLock, CacheInv, CompiledStays
    <3>2. QED BY <1>a, <2>1, <3>1, AnswerOK
  <2>3. CASE pc[p] # "failed"
    <3>1. pc[p] = "renamed" /\ pc' = [pc EXCEPT ![p] = "load"] /\ UNCHANGED result
      BY <1>11, <2>3 DEF DropLock, Goto
    <3>2. LocksHeld' /\ CompileExclusive'
      BY <2>1, <3>1, <1>b DEF CacheInv, LocksHeld, CompileExclusive, Owns
    <3>3. InputFresh' /\ TempFresh'
      BY <2>1, <3>1, <1>b DEF CacheInv, InputFresh, TempFresh, Fresh, Timely, Versions
    <3>4. LibraryPast' /\ BeganPast' BY <2>1 DEF CacheInv, LibraryPast, BeganPast, Timely, Versions
    <3>5. CompiledStays' /\ CompilerLoadsNew' /\ Unanswered'
      BY <2>1, <3>1, <1>b DEF CacheInv, CompiledStays, CompilerLoadsNew, Unanswered
    <3>6. QED BY <1>a, <3>2, <3>3, <3>4, <3>5 DEF CacheInv
  <2>4. QED BY <2>2, <2>3
<1>12. ASSUME NEW p \in Threads, LoadLanguage(p) PROVE CacheInv'
  <2>1. PICK r : /\ Return(p, r)
                 /\ r = IF library[output[p]].exists
                          THEN [done |-> TRUE, of |-> {library[output[p]].content}] ELSE Failure
    BY <1>12 DEF LoadLanguage
  <2>2. compiled[p] => \A c \in r.of : NotOlder(c, began[p])
    BY <1>12, <2>1 DEF LoadLanguage, CacheInv, CompiledStays, Failure
  <2>3. QED BY <1>12, <1>a, <2>1, <2>2, AnswerOK DEF LoadLanguage, localVars
<1>13. ASSUME NEW r \in Threads, Kill(ProcessOf(r)) PROVE CacheInv'
  <2>1. /\ pc' = [p \in Threads |-> IF ProcessOf(p) = ProcessOf(r) /\ pc[p] # "done"
                                    THEN "killed" ELSE pc[p]]
        /\ UNCHANGED <<clock, sources, library, temp, locked, output, input, began, compiled, result>>
    BY <1>13 DEF Kill, localVars
  <2>2. \A p \in Threads : pc'[p] = pc[p] \/ (pc[p] # "done" /\ pc'[p] = "killed")
    BY <2>1
  <2>3. LocksHeld' /\ CompileExclusive'
    BY <2>1, <2>2 DEF CacheInv, LocksHeld, CompileExclusive, Owns
  <2>4. InputFresh' /\ TempFresh'
    BY <2>1, <2>2 DEF CacheInv, InputFresh, TempFresh, Fresh, Timely, Versions
  <2>5. LibraryPast' /\ BeganPast' BY <2>1 DEF CacheInv, LibraryPast, BeganPast, Timely, Versions
  <2>6. CompiledStays' /\ CompilerLoadsNew' /\ Unanswered'
    BY <2>1, <2>2 DEF CacheInv, CompiledStays, CompilerLoadsNew, Unanswered
  <2>7. QED BY <1>a, <2>3, <2>4, <2>5, <2>6 DEF CacheInv
<1>14. ASSUME NEW s \in Sources, Write(s) PROVE CacheInv'
  <2>1. /\ ~EditsDuringCompile => \A p \in Threads : pc[p] # "writing"
        /\ clock' = clock + 1
        /\ sources' = [sources EXCEPT ![s] = [version |-> @.version + 1, mtime |-> clock + 1]]
        /\ UNCHANGED <<library, temp, locked, pc, output, input, began, compiled, result>>
    BY <1>14 DEF Write, localVars
  <2>2. Versions \in Contents /\ Versions' \in Contents /\ NotOlder(Versions', Versions)
    BY <2>1, <1>a DEF Versions, Contents, NotOlder, CacheTypeOK
  <2>3. \A c \in Contents : NotOlder(Versions, c) => NotOlder(Versions', c)
    BY <2>2, NotOlderTransitive
  <2>4. sources'[s].mtime = clock + 1 /\ clock \in Nat BY <2>1, <1>a DEF CacheTypeOK
  <2>5. \A file \in FileType : file.mtime <= clock => Timely(file)' /\ file.mtime <= clock'
    BY <2>1, <2>4 DEF Timely, FileType
  <2>6. LocksHeld' /\ CompileExclusive' BY <2>1 DEF CacheInv, LocksHeld, CompileExclusive, Owns
  <2>7. /\ \A p \in Threads : temp[p] \in FileType /\ input[p] \in Contents /\ began[p] \in Contents
        /\ \A o \in Outputs : library[o] \in FileType
    BY <1>a DEF CacheTypeOK
  <2>8. \A p \in Threads, c \in Contents : Fresh(p, c) => Fresh(p, c)'
    BY <2>1, <2>3 DEF Fresh
  <2>9. InputFresh' BY <2>1, <2>7, <2>8 DEF CacheInv, InputFresh
  <2>10. TempFresh' BY <2>1, <2>5, <2>7, <2>8 DEF CacheInv, TempFresh, FileType
  <2>11. LibraryPast' BY <2>1, <2>3, <2>5, <2>7 DEF CacheInv, LibraryPast, FileType
  <2>12. BeganPast' BY <2>1, <2>3, <2>7 DEF CacheInv, BeganPast
  <2>13. CompiledStays' /\ CompilerLoadsNew' /\ Unanswered'
    BY <2>1 DEF CacheInv, CompiledStays, CompilerLoadsNew, Unanswered
  <2>14. QED BY <1>a, <2>6, <2>9, <2>10, <2>11, <2>12, <2>13 DEF CacheInv
<1>15. CASE UNCHANGED cacheVars
  BY <1>15, <1>a, UnchangedOK DEF cacheVars, localVars
<1>16. QED
  BY <1>1, <1>2, <1>3, <1>4, <1>5, <1>6, <1>7, <1>8, <1>9, <1>10, <1>11, <1>12, <1>13, <1>14,
     <1>15 DEF CacheNext, Step

\* The lock file admits one compiler at a time to an output, whatever fails or is
\* killed (LockFile::create, Drop).
THEOREM CacheCompileExclusive == CacheSpec => []CompileExclusive
<1>1. CacheInv => CompileExclusive BY DEF CacheInv
<1>2. QED BY InitInv, NextInv, <1>1, PTL DEF CacheSpec

\* What a compiler loads after it dropped its lock is no older than the sources it
\* began with, also when others have replaced its library.
THEOREM CacheCompilerLoadsNew == CacheSpec => []CompilerLoadsNew
<1>1. CacheInv => CompilerLoadsNew BY DEF CacheInv
<1>2. QED BY InitInv, NextInv, <1>1, PTL DEF CacheSpec

\* needs_recompile is right about every library whose sources were left alone while
\* they were compiled.
THEOREM CacheTimesTellContents == CacheSpec => []TimesTellContents
<1>1. CacheInv => TimesTellContents
  BY DEF CacheInv, LibraryPast, Timely, TimesTellContents
<1>2. QED BY InitInv, NextInv, <1>1, PTL DEF CacheSpec

-----------------------------------------------------------------------------
(* The cache implements SharedLibrary: only a rename changes what is         *)
(* installed, and a thread is answered once.                                 *)

\* Without a library there is nothing installed, and no thread has an answer.
LEMMA InitAbstract == CacheInit => Abstract!Init
<1> SUFFICES ASSUME CacheInit PROVE Abstract!Init
  OBVIOUS
<1>1. Installed = [o \in Outputs |-> {}] BY DEF CacheInit, Installed, NoFile
<1>2. output \in [Threads -> Outputs] BY InitType DEF CacheTypeOK
<1>3. result = [t \in Threads |-> Abstract!NoAnswer] BY DEF CacheInit, NoAnswer, Abstract!NoAnswer
<1>4. QED BY <1>1, <1>2, <1>3 DEF Abstract!Init

\* Every step is one of SharedLibrary, or changes nothing it knows of.
LEMMA NextAbstract ==
  CacheInv /\ [CacheNext]_cacheVars => [Abstract!Next]_<<Installed, output, result>>
<1> SUFFICES ASSUME CacheInv, [CacheNext]_cacheVars
             PROVE  [Abstract!Next]_<<Installed, output, result>>
  OBVIOUS
<1>a. CacheTypeOK /\ Unanswered BY DEF CacheInv
<1>b. \A p \in Threads : pc[p] # "done" => result[p] = Abstract!NoAnswer
  BY <1>a DEF Unanswered, NoAnswer, Abstract!NoAnswer
<1>c. UNCHANGED library => UNCHANGED Installed BY DEF Installed
<1>d. ASSUME NEW p \in Threads, pc[p] # "done", Return(p, Failure), UNCHANGED <<library, output>>
      PROVE  Abstract!Next
  <2>1. result' = [result EXCEPT ![p] = Abstract!Failure]
    BY <1>d DEF Return, Failure, Abstract!Failure
  <2>2. Abstract!Answer(p) BY <1>b, <1>c, <1>d, <2>1 DEF Abstract!Answer
  <2>3. QED BY <2>2 DEF Abstract!Next
<1>1. ASSUME NEW p \in Threads, NEW o \in Outputs, NEW force \in BOOLEAN, Begin(p, o, force)
      PROVE  Abstract!Next
  <2>1. pc[p] = "idle" /\ output' = [output EXCEPT ![p] = o] /\ UNCHANGED <<library, result>>
    BY <1>1 DEF Begin
  <2>2. Abstract!Ask(p) BY <1>b, <1>c, <2>1 DEF Abstract!Ask
  <2>3. QED BY <2>2 DEF Abstract!Next
<1>2. ASSUME NEW p \in Threads, RenameOutput(p) PROVE Abstract!Next
  <2> DEFINE o == output[p]
             c == temp[p].content
  <2>1. /\ pc[p] = "written" /\ library' = [library EXCEPT ![o] = temp[p]]
        /\ UNCHANGED <<output, result>>
    BY <1>2 DEF RenameOutput, Renamed
  <2>2. o \in Outputs /\ temp[p].exists /\ Fresh(p, c)
    BY <1>a, <2>1 DEF CacheInv, TempFresh, CacheTypeOK
  <2>3. library \in [Outputs -> FileType] /\ library' \in [Outputs -> FileType]
    BY <1>a, NextType DEF CacheTypeOK
  <2>4. Installed' = [Installed EXCEPT ![o] = {c}] /\ Installed'[o] = {c}
    BY <2>1, <2>2, <2>3 DEF Installed
  <2>5. c \in Abstract!Contents BY <2>2 DEF Fresh, Positive, Abstract!Contents
  <2>6. \A d \in Installed[o] : Abstract!NotOlder(c, d)
    BY <2>2 DEF Installed, Fresh, NotOlder, Abstract!NotOlder
  <2>7. Abstract!Install(o) BY <2>1, <2>4, <2>5, <2>6 DEF Abstract!Install
  <2>8. QED BY <2>2, <2>7 DEF Abstract!Next
<1>3. ASSUME NEW p \in Threads, LoadLanguage(p) PROVE Abstract!Next
  <2>1. pc[p] = "load" /\ UNCHANGED <<library, output>> BY <1>3 DEF LoadLanguage, localVars
  <2>2. output[p] \in Outputs BY <1>a DEF CacheTypeOK
  <2>3. CASE ~library[output[p]].exists
    BY <1>3, <1>d, <2>1, <2>3 DEF LoadLanguage
  <2>4. CASE library[output[p]].exists
    <3>1. Installed[output[p]] = {library[output[p]].content} BY <2>2, <2>4 DEF Installed
    <3>2. result' = [result EXCEPT ![p] = [done |-> TRUE, of |-> Installed[output[p]]]]
      BY <1>3, <2>4, <3>1 DEF LoadLanguage, Return
    <3>3. Abstract!Answer(p) BY <1>b, <1>c, <2>1, <3>1, <3>2 DEF Abstract!Answer
    <3>4. QED BY <3>3 DEF Abstract!Next
  <2>5. QED BY <2>3, <2>4
<1>4. ASSUME NEW p \in Threads, WaitForRemoval(p)
      PROVE  [Abstract!Next]_<<Installed, output, result>>
  <2>1. pc[p] = "wait" /\ UNCHANGED <<library, output>> BY <1>4 DEF WaitForRemoval, localVars
  <2>2. CASE Return(p, Failure) BY <1>d, <2>1, <2>2
  <2>3. CASE UNCHANGED result BY <1>c, <2>1, <2>3
  <2>4. QED BY <1>4, <2>2, <2>3 DEF WaitForRemoval
<1>5. ASSUME NEW p \in Threads, DropLock(p)
      PROVE  [Abstract!Next]_<<Installed, output, result>>
  <2>1. pc[p] # "done" /\ UNCHANGED <<library, output>> BY <1>5 DEF DropLock, localVars
  <2>2. CASE Return(p, Failure) BY <1>d, <2>1, <2>2
  <2>3. CASE UNCHANGED result BY <1>c, <2>1, <2>3
  <2>4. QED BY <1>5, <2>2, <2>3 DEF DropLock
<1>6. ASSUME NEW p \in Threads,
             CheckLibrary(p) \/ (\E s \in Sources : CheckSource(p, s)) \/ CreateLock(p)
             \/ PrepareTools(p) \/ ReadSources(p) \/ FinishOutput(p) \/ FailCompile(p)
      PROVE  UNCHANGED <<library, output, result>>
  BY <1>6 DEF CheckLibrary, CheckSource, CreateLock, PrepareTools, ReadSources, FinishOutput,
              FailCompile, WriteOutput, Remove, localVars
<1>7. ASSUME NEW p \in Threads, Kill(ProcessOf(p)) PROVE UNCHANGED <<library, output, result>>
  BY <1>7 DEF Kill, localVars
<1>8. ASSUME NEW s \in Sources, Write(s) PROVE UNCHANGED <<library, output, result>>
  BY <1>8 DEF Write, localVars
<1>9. CASE UNCHANGED cacheVars BY <1>c, <1>9 DEF cacheVars, localVars
<1>10. QED
  BY <1>c, <1>1, <1>2, <1>3, <1>4, <1>5, <1>6, <1>7, <1>8, <1>9 DEF CacheNext, Step

\* Loaders see a complete library, the new or the previous one: the protocol of
\* lock file, temporary file and rename implements SharedLibrary.
THEOREM CacheIsAtomic == CacheSpec => LibraryIsAtomic
BY InitInv, NextInv, InitAbstract, NextAbstract, PTL DEF CacheSpec, LibraryIsAtomic, Abstract!Spec

-----------------------------------------------------------------------------
(* The tools: one process installs them at a time.                           *)

ToolControl ==
  {"out", "look", "make", "unpack", "stamp", "find", "have", "failed", "killed"}

\* The version file is written last, so that a directory that has it has all.
ToolInv ==
  /\ toolchain \in [exists : BOOLEAN, version : BOOLEAN, parts : SUBSET Parts]
  /\ tool_pc \in [Threads -> ToolControl]
  /\ unpacked \in [Threads -> SUBSET Parts]
  /\ toolchain.version => toolchain.exists /\ toolchain.parts = Parts
  /\ ~toolchain.exists => toolchain.parts = {}
  /\ \A t, u \in Threads : Installing(t) /\ Installing(u) => t = u
  /\ \A t \in Threads :
       /\ tool_pc[t] \notin {"unpack", "stamp"} => unpacked[t] = {}
       /\ tool_pc[t] \in {"make", "unpack", "stamp"} => ~toolchain.version
       /\ tool_pc[t] \in {"unpack", "stamp"} => toolchain.exists /\ unpacked[t] \subseteq toolchain.parts
       /\ tool_pc[t] = "stamp" => unpacked[t] = Parts
       /\ tool_pc[t] \in {"find", "have"} => toolchain.version

\* There are no tools at first.
LEMMA InitTools == CacheInit => ToolInv
BY DEF CacheInit, ToolInit, ToolInv, NoToolchain, Installing, ToolControl

\* A step of the tools keeps the invariant.
LEMMA ToolStepOK ==
  ASSUME OneInstaller, ToolInv, NEW t \in Threads, ToolStep(t)
  PROVE  ToolInv'
<1> USE DEF ToolInv, ToolControl, Installing, ToolGoto
<1>1. CASE LockTools(t) BY <1>1 DEF LockTools
<1>2. CASE GetExistingTool(t)
  <2>1. CASE toolchain.exists /\ ~toolchain.version
    <3>1. /\ tool_pc[t] = "look" /\ tool_pc' = [tool_pc EXCEPT ![t] = "make"]
          /\ toolchain' = NoToolchain /\ UNCHANGED unpacked
      BY <1>2, <2>1 DEF GetExistingTool
    <3>2. ~toolchain'.version /\ ~toolchain'.exists /\ toolchain'.parts = {}
          /\ toolchain' \in [exists : BOOLEAN, version : BOOLEAN, parts : SUBSET Parts]
      BY <3>1 DEF NoToolchain
    <3>3. \A u \in Threads : u # t => ~Installing(u) /\ tool_pc[u] # "have"
      BY <2>1, <3>1
    <3>4. QED BY <3>1, <3>2, <3>3
  <2>2. CASE ~(toolchain.exists /\ ~toolchain.version)
    <3>1. ~toolchain.version \/ Exe \in toolchain.parts BY ExeAssumption
    <3>2. CASE Exe \in toolchain.parts /\ toolchain.version
      BY <1>2, <2>2, <3>2 DEF GetExistingTool, Leave
    <3>3. CASE ~toolchain.version
      <4>1. ~toolchain.exists /\ Exe \notin toolchain.parts BY <2>2, <3>3
      <4>2. QED BY <1>2, <2>2, <3>3, <4>1 DEF GetExistingTool
    <3>4. QED BY <3>1, <3>2, <3>3
  <2>3. QED BY <2>1, <2>2
<1>3. CASE MakeToolDir(t) BY <1>3 DEF MakeToolDir, EmptyDir
<1>4. ASSUME NEW part \in Parts, Extract(t, part) PROVE ToolInv'
  BY <1>4 DEF Extract, Stamped
<1>5. CASE WriteVersion(t)
  <2>1. /\ tool_pc[t] = "stamp" /\ tool_pc' = [tool_pc EXCEPT ![t] = "find"]
        /\ unpacked' = [unpacked EXCEPT ![t] = {}]
        /\ toolchain' = [toolchain EXCEPT !.version = toolchain.exists]
    BY <1>5 DEF WriteVersion
  <2>2. toolchain.exists /\ toolchain.parts = Parts BY <2>1
  <2>3. /\ toolchain' \in [exists : BOOLEAN, version : BOOLEAN, parts : SUBSET Parts]
        /\ toolchain'.exists /\ toolchain'.version /\ toolchain'.parts = Parts
    BY <2>1, <2>2
  <2>4. \A u \in Threads : u # t => ~Installing(u) BY <2>1
  <2>5. QED BY <2>1, <2>3, <2>4
<1>6. CASE FindTool(t) BY <1>6 DEF FindTool, Leave
<1>7. CASE FailTool(t) BY <1>7 DEF FailTool, Leave
<1>8. QED BY <1>1, <1>2, <1>3, <1>4, <1>5, <1>6, <1>7 DEF ToolStep

\* So does every other: only a kill touches the tools.
LEMMA NextTools ==
  ASSUME OneInstaller
  PROVE  ToolInv /\ [CacheNext]_cacheVars => ToolInv'
<1> SUFFICES ASSUME ToolInv, [CacheNext]_cacheVars PROVE ToolInv'
  OBVIOUS
<1>1. CASE UNCHANGED toolVars BY <1>1 DEF toolVars, ToolInv, Installing
<1>2. ASSUME NEW p \in Threads, PrepareTools(p) PROVE ToolInv'
  BY <1>2, ToolStepOK DEF PrepareTools
<1>3. ASSUME NEW p \in Threads, Kill(ProcessOf(p)) PROVE ToolInv'
  BY <1>3 DEF Kill, KillTools, ToolInv, ToolControl, Installing
<1>4. ASSUME NEW p \in Threads,
             \/ \E o \in Outputs, force \in BOOLEAN : Begin(p, o, force)
             \/ CheckLibrary(p) \/ (\E s \in Sources : CheckSource(p, s)) \/ CreateLock(p)
             \/ WaitForRemoval(p) \/ ReadSources(p) \/ FinishOutput(p) \/ RenameOutput(p)
             \/ FailCompile(p) \/ DropLock(p) \/ LoadLanguage(p)
      PROVE  UNCHANGED toolVars
  BY <1>4 DEF Begin, CheckLibrary, CheckSource, CreateLock, WaitForRemoval, ReadSources,
              FinishOutput, RenameOutput, FailCompile, DropLock, LoadLanguage
<1>5. ASSUME NEW s \in Sources, Write(s) PROVE UNCHANGED toolVars BY <1>5 DEF Write
<1>6. QED BY <1>1, <1>2, <1>3, <1>4, <1>5 DEF CacheNext, Step, cacheVars

\* A thread that was given the compiler has the whole toolchain, whatever was killed
\* or failed in the middle of an installation, as long as processes do not install
\* at the same time (get_existing_tool, download_tool).
THEOREM CacheToolchainWhole ==
  ASSUME OneInstaller
  PROVE  CacheSpec => []ToolchainWhole
<1>1. ToolInv => ToolchainWhole BY DEF ToolInv, ToolchainWhole
<1>2. QED BY InitTools, NextTools, <1>1, PTL DEF CacheSpec
=============================================================================
