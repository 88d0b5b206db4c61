---------------------------- MODULE LibraryCache ----------------------------
(***************************************************************************)
(* crates/loader/src/loader.rs, load_language_at_path_with_name: threads   *)
(* of several processes that compile and load the libraries of a grammar.  *)
(* An output that is older than its sources is compiled again, under a     *)
(* lock file whose name is a function of the output's path, into a         *)
(* temporary file that is renamed into place.                              *)
(*                                                                         *)
(* A compiler to wasm is kept in a directory of the user's cache and       *)
(* downloaded when it is missing.  The threads of a process take turns by  *)
(* WASM_TOOL_LOCK; nothing stands between two processes.  wasi-sdk and     *)
(* binaryen are installed by the same code into directories of their own,  *)
(* one after the other under one lock: one is modelled.  An archive holds  *)
(* Parts, which tar writes one at a time; Exe is the part that is looked   *)
(* for.                                                                    *)
(*                                                                         *)
(* The sources are parser.c, scanner.c and the external files; a version   *)
(* of one is the number of times it was written.  The system calls of a    *)
(* thread are single steps, anything may happen in between.  A process may *)
(* be killed, and leaves its files behind.                                 *)
(***************************************************************************)
EXTENDS Naturals

CONSTANTS
  Threads, ProcessOf(_),
  Parts, Exe,
  ToolFaults,    \* curl and tar may fail
  OneInstaller,  \* no process looks for the tools while another installs them
  Sources,
  Outputs, WasmOutputs,
  Requests,            \* the requests <<thread, output, force>> that may be made
  MaxVersion,          \* bound of the versions of a source
  Faults,              \* compilers fail and processes are killed
  EditsDuringCompile   \* sources are written while a compiler runs

ASSUME ExeAssumption == Exe \in Parts
ASSUME CacheAssumption ==
  /\ Sources # {} /\ Outputs # {} /\ WasmOutputs \subseteq Outputs
  /\ Requests \subseteq Threads \X Outputs \X BOOLEAN
  /\ MaxVersion \in Nat /\ Faults \in BOOLEAN /\ EditsDuringCompile \in BOOLEAN

VARIABLES
  toolchain,  \* the directory: whether it exists, its version file, its contents
  tool_lock,  \* the processes whose WASM_TOOL_LOCK is taken
  tool_pc,    \* where a thread is in ensure_wasi_sdk_exists
  unpacked,   \* what its tar has written
  clock,
  sources,    \* version and modification time of each
  library,    \* the output files
  temp,       \* the temporary file of each thread
  locked,     \* the outputs whose lock file exists
  pc,
  output,     \* the output path of a thread
  lib_mtime,  \* what it has read of the output's time
  unchecked,  \* the sources whose time it has not read yet
  input,      \* the versions its compiler has read
  began,      \* the versions of the sources when it began
  compiled,   \* it has compiled the library
  result      \* what was loaded

toolVars == <<toolchain, tool_lock, tool_pc, unpacked>>
localVars == <<output, lib_mtime, unchecked, input, began, compiled>>
cacheVars == <<clock, sources, library, temp, locked, pc, result, localVars, toolVars>>

-----------------------------------------------------------------------------
(* The tools for wasm                                                        *)

NoToolchain == [exists |-> FALSE, version |-> FALSE, parts |-> {}]
EmptyDir == [exists |-> TRUE, version |-> FALSE, parts |-> {}]

ToolInit ==
  /\ toolchain = NoToolchain
  /\ tool_lock = {}
  /\ tool_pc = [t \in Threads |-> "out"]
  /\ unpacked = [t \in Threads |-> {}]

ToolGoto(t, l) == tool_pc' = [tool_pc EXCEPT ![t] = l]

Installing(t) == tool_pc[t] \in {"look", "make", "unpack", "stamp", "find"}

\* compile_parser_to_wasm takes the lock of its process.
LockTools(t) ==
  /\ tool_pc[t] = "out" /\ ProcessOf(t) \notin tool_lock
  /\ OneInstaller => \A u \in Threads : ~Installing(u)
  /\ tool_lock' = tool_lock \cup {ProcessOf(t)}
  /\ ToolGoto(t, "look")
  /\ UNCHANGED <<toolchain, unpacked>>

Leave(t, l) ==
  /\ ToolGoto(t, l)
  /\ tool_lock' = tool_lock \ {ProcessOf(t)}

\* get_existing_tool: a directory without the expected version is removed.
GetExistingTool(t) ==
  /\ tool_pc[t] = "look"
  /\ IF toolchain.exists /\ ~toolchain.version
     THEN /\ toolchain' = NoToolchain
          /\ ToolGoto(t, "make") /\ UNCHANGED tool_lock
     ELSE /\ IF Exe \in toolchain.parts THEN Leave(t, "have")
             ELSE ToolGoto(t, "make") /\ UNCHANGED tool_lock
          /\ UNCHANGED toolchain
  /\ UNCHANGED unpacked

\* download_tool: the directory is there before the archive is.
MakeToolDir(t) ==
  /\ tool_pc[t] = "make"
  /\ toolchain' = IF toolchain.exists THEN toolchain ELSE EmptyDir
  /\ ToolGoto(t, "unpack")
  /\ UNCHANGED <<tool_lock, unpacked>>

\* Mutant: the version is written before the archive is extracted.
Stamped_First(dir) == [dir EXCEPT !.version = TRUE]

\* What tar leaves in a directory after it has created a file.
Stamped(dir) == dir

\* extract_tar_gz_with_strip; tar fails when the directory is gone.
Extract(t, part) ==
  /\ tool_pc[t] = "unpack" /\ part \in Parts \ unpacked[t]
  /\ toolchain.exists
  /\ toolchain' = Stamped([toolchain EXCEPT !.parts = @ \cup {part}])
  /\ unpacked' = [unpacked EXCEPT ![t] = @ \cup {part}]
  /\ ToolGoto(t, IF unpacked'[t] = Parts THEN "stamp" ELSE "unpack")
  /\ UNCHANGED tool_lock

\* The failure to write the version file is ignored.
WriteVersion(t) ==
  /\ tool_pc[t] = "stamp"
  /\ toolchain' = [toolchain EXCEPT !.version = toolchain.exists]
  /\ unpacked' = [unpacked EXCEPT ![t] = {}]
  /\ ToolGoto(t, "find")
  /\ UNCHANGED tool_lock

FindTool(t) ==
  /\ tool_pc[t] = "find"
  /\ Leave(t, IF Exe \in toolchain.parts THEN "have" ELSE "failed")
  /\ UNCHANGED <<toolchain, unpacked>>

\* curl or tar fails.
FailTool(t) ==
  /\ \/ ToolFaults /\ tool_pc[t] = "unpack"
     \/ tool_pc[t] = "unpack" /\ ~toolchain.exists
  /\ Leave(t, "failed")
  /\ unpacked' = [unpacked EXCEPT ![t] = {}]
  /\ UNCHANGED toolchain

ToolStep(t) ==
  \/ LockTools(t) \/ GetExistingTool(t) \/ MakeToolDir(t)
  \/ (\E part \in Parts : Extract(t, part)) \/ WriteVersion(t) \/ FindTool(t) \/ FailTool(t)

\* A killed process takes its locks with it, and leaves the directory as it is.
KillTools(P) ==
  /\ tool_lock' = tool_lock \ {P}
  /\ tool_pc' = [t \in Threads |-> IF ProcessOf(t) = P THEN "killed" ELSE tool_pc[t]]
  /\ unpacked' = [t \in Threads |-> IF ProcessOf(t) = P THEN {} ELSE unpacked[t]]
  /\ UNCHANGED toolchain

-----------------------------------------------------------------------------
(* The libraries                                                             *)

Contents == [Sources -> Nat]
NoContent == [s \in Sources |-> 0]
File(content, mtime) == [exists |-> TRUE, content |-> content, mtime |-> mtime]
NoFile == [exists |-> FALSE, content |-> NoContent, mtime |-> 0]
NoAnswer == [done |-> FALSE, of |-> {}]
Failure == [done |-> TRUE, of |-> {}]

Versions == [s \in Sources |-> sources[s].version]
NotOlder(c, d) == \A s \in Sources : c[s] >= d[s]

CacheInit ==
  /\ ToolInit
  /\ clock = 1
  /\ sources = [s \in Sources |-> [version |-> 1, mtime |-> 1]]
  /\ library = [o \in Outputs |-> NoFile] /\ temp = [p \in Threads |-> NoFile]
  /\ locked = {}
  /\ pc = [p \in Threads |-> "idle"]
  /\ output = [p \in Threads |-> CHOOSE o \in Outputs : TRUE]
  /\ lib_mtime = [p \in Threads |-> 0]
  /\ unchecked = [p \in Threads |-> {}]
  /\ input = [p \in Threads |-> NoContent]
  /\ began = [p \in Threads |-> NoContent]
  /\ compiled = [p \in Threads |-> FALSE]
  /\ result = [p \in Threads |-> NoAnswer]

Goto(p, l) == pc' = [pc EXCEPT ![p] = l]

Return(p, r) ==
  /\ Goto(p, "done")
  /\ result' = [result EXCEPT ![p] = r]

\* Between the creation of the lock file and its removal.
Owns(p) == pc[p] \in {"locked", "writing", "written", "failed", "renamed"}

-----------------------------------------------------------------------------
\* force_rebuild and a given output path ask for a compilation whatever there is.
Begin(p, o, force) ==
  /\ pc[p] = "idle" /\ <<p, o, force>> \in Requests
  /\ Goto(p, IF force THEN "lock" ELSE "check")
  /\ output' = [output EXCEPT ![p] = o]
  /\ began' = [began EXCEPT ![p] = Versions]
  /\ UNCHANGED <<clock, sources, library, temp, locked, lib_mtime, unchecked, input, compiled,
                 result, toolVars>>

\* needs_recompile: first the library, then the files.
CheckLibrary(p) ==
  /\ pc[p] = "check"
  /\ LET file == library[output[p]] IN
       IF file.exists
       THEN /\ Goto(p, "compare")
            /\ lib_mtime' = [lib_mtime EXCEPT ![p] = file.mtime]
            /\ unchecked' = [unchecked EXCEPT ![p] = Sources]
       ELSE Goto(p, "lock") /\ UNCHANGED <<lib_mtime, unchecked>>
  /\ UNCHANGED <<clock, sources, library, temp, locked, output, input, began, compiled, result,
                 toolVars>>

\* The files are read one by one; the first that is newer decides.
CheckSource(p, s) ==
  /\ pc[p] = "compare" /\ s \in unchecked[p]
  /\ LET newer == sources[s].mtime > lib_mtime[p]
         rest == IF newer THEN {} ELSE unchecked[p] \ {s}
     IN  /\ unchecked' = [unchecked EXCEPT ![p] = rest]
         /\ lib_mtime' = [lib_mtime EXCEPT ![p] = IF rest = {} THEN 0 ELSE @]
         /\ Goto(p, IF newer THEN "lock" ELSE IF rest = {} THEN "load" ELSE "compare")
  /\ UNCHANGED <<clock, sources, library, temp, locked, output, input, began, compiled,
                 result, toolVars>>

\* Mutant: a lock file that exists is opened.
MayLock_Always(o) == TRUE

\* create_new fails if the file exists.
MayLock(o) == o \notin locked

CreateLock(p) ==
  /\ pc[p] = "lock"
  /\ IF MayLock(output[p])
     THEN Goto(p, "locked") /\ locked' = locked \cup {output[p]}
     ELSE Goto(p, "wait") /\ UNCHANGED locked
  /\ UNCHANGED <<clock, sources, library, temp, result, localVars, toolVars>>

\* Mutant: no deadline.
TimedOut_Never(p) == FALSE

TimedOut(p) == output[p] \in locked

\* wait_for_removal: while the file is there, the deadline may pass.
WaitForRemoval(p) ==
  /\ pc[p] = "wait"
  /\ \/ output[p] \notin locked /\ Goto(p, "load") /\ UNCHANGED result
     \/ TimedOut(p) /\ Return(p, Failure)
  /\ UNCHANGED <<clock, sources, library, temp, locked, localVars, toolVars>>

-----------------------------------------------------------------------------
(* compile_parser_to_dylib and compile_parser_to_wasm                        *)

\* The tools for wasm come first.
PrepareTools(p) ==
  /\ pc[p] = "locked" /\ output[p] \in WasmOutputs
  /\ ToolStep(p)
  /\ UNCHANGED <<clock, sources, library, temp, locked, pc, result, localVars>>

\* Mutant: the compiler writes the library itself.
WriteOutput_InPlace(p, file) == library' = [library EXCEPT ![output[p]] = file] /\ UNCHANGED temp

WriteOutput(p, file) ==
  /\ temp' = [temp EXCEPT ![p] = file]
  /\ UNCHANGED library

\* The compiler reads the sources and opens the output: there is nothing in it yet.
ReadSources(p) ==
  /\ pc[p] = "locked"
  /\ output[p] \in WasmOutputs => tool_pc[p] = "have"
  /\ Goto(p, "writing")
  /\ input' = [input EXCEPT ![p] = Versions]
  /\ WriteOutput(p, File(NoContent, clock))
  /\ UNCHANGED <<clock, sources, locked, output, lib_mtime, unchecked, began, compiled, result,
                 toolVars>>

\* The output is written, its time is now.
FinishOutput(p) ==
  /\ pc[p] = "writing"
  /\ Goto(p, "written")
  /\ clock' = clock + 1
  /\ WriteOutput(p, File(input[p], clock + 1))
  /\ input' = [input EXCEPT ![p] = NoContent]
  /\ UNCHANGED <<sources, locked, output, lib_mtime, unchecked, began, compiled, result, toolVars>>

\* Mutant: the output is left under its temporary name when there is a library.
Renamed_Once(p) ==
  IF library[output[p]].exists THEN library ELSE [library EXCEPT ![output[p]] = temp[p]]

Renamed(p) == [library EXCEPT ![output[p]] = temp[p]]

RenameOutput(p) ==
  /\ pc[p] = "written"
  /\ Goto(p, "renamed")
  /\ library' = Renamed(p)
  /\ temp' = [temp EXCEPT ![p] = NoFile]
  /\ compiled' = [compiled EXCEPT ![p] = TRUE]
  /\ UNCHANGED <<clock, sources, locked, output, lib_mtime, unchecked, input, began, result,
                 toolVars>>

\* Mutant: a failure removes the output.
Remove_Output(p) == library' = [library EXCEPT ![output[p]] = NoFile] /\ UNCHANGED temp

Remove(p) == temp' = [temp EXCEPT ![p] = NoFile] /\ UNCHANGED library

\* The tools are missing, or the compiler or the rename fails: the temporary file
\* is removed.  It stays when wasm-opt, which comes after the compiler, cannot be started.
FailCompile(p) ==
  /\ \/ Faults /\ pc[p] \in {"writing", "written"}
     \/ pc[p] = "locked" /\ tool_pc[p] = "failed"
  /\ Goto(p, "failed")
  /\ \/ Remove(p)
     \/ output[p] \in WasmOutputs /\ pc[p] = "writing" /\ UNCHANGED <<temp, library>>
  /\ UNCHANGED <<clock, sources, locked, result, localVars, toolVars>>

\* The lock is dropped, then the library is loaded or the error returned.
DropLock(p) ==
  /\ pc[p] \in {"renamed", "failed"}
  /\ locked' = locked \ {output[p]}
  /\ IF pc[p] = "failed" THEN Return(p, Failure) ELSE Goto(p, "load") /\ UNCHANGED result
  /\ UNCHANGED <<clock, sources, library, temp, localVars, toolVars>>

\* load_language, or the bytes of the wasm file.
LoadLanguage(p) ==
  /\ pc[p] = "load"
  /\ LET file == library[output[p]] IN
       Return(p, IF file.exists THEN [done |-> TRUE, of |-> {file.content}] ELSE Failure)
  /\ UNCHANGED <<clock, sources, library, temp, locked, localVars, toolVars>>

-----------------------------------------------------------------------------
\* A process is killed, with the compilers it runs; files stay.
Kill(P) ==
  /\ Faults
  /\ \E p \in Threads : ProcessOf(p) = P /\ pc[p] \notin {"idle", "done", "killed"}
  /\ pc' = [p \in Threads |-> IF ProcessOf(p) = P /\ pc[p] # "done" THEN "killed" ELSE pc[p]]
  /\ KillTools(P)
  /\ UNCHANGED <<clock, sources, library, temp, locked, result, localVars>>

\* generate writes parser.c, or a user writes a file.
Write(s) ==
  /\ sources[s].version < MaxVersion
  /\ ~EditsDuringCompile => \A p \in Threads : pc[p] # "writing"
  /\ clock' = clock + 1
  /\ sources' = [sources EXCEPT ![s] = [version |-> @.version + 1, mtime |-> clock + 1]]
  /\ UNCHANGED <<library, temp, locked, pc, result, localVars, toolVars>>

Step(p) ==
  \/ CheckLibrary(p) \/ (\E s \in Sources : CheckSource(p, s))
  \/ CreateLock(p) \/ WaitForRemoval(p) \/ PrepareTools(p)
  \/ ReadSources(p) \/ FinishOutput(p) \/ RenameOutput(p)
  \/ FailCompile(p) \/ DropLock(p) \/ LoadLanguage(p)

CacheNext ==
  \/ \E p \in Threads : (\E o \in Outputs, force \in BOOLEAN : Begin(p, o, force)) \/ Step(p)
  \/ \E p \in Threads : Kill(ProcessOf(p))
  \/ \E s \in Sources : Write(s)

CacheSpec == CacheInit /\ [][CacheNext]_cacheVars
FairCacheSpec == CacheSpec /\ \A p \in Threads : WF_cacheVars(Step(p))

-----------------------------------------------------------------------------
\* "Exactly one caller wins the race to compile": no two threads are between the
\* creation of the lock file of an output and its removal.
CompileExclusive ==
  \A p, q \in Threads : Owns(p) /\ Owns(q) /\ output[p] = output[q] => p = q

\* A thread that compiled the library loads one of sources that are no older than
\* those it began with.
CompilerLoadsNew ==
  \A p \in Threads : compiled[p] => \A c \in result[p].of : NotOlder(c, began[p])

\* needs_recompile: a library that is no older than its sources by their times was
\* compiled from them, unless one was written while a compiler ran.
TimesTellContents ==
  \A o \in Outputs :
    /\ library[o].exists /\ ~EditsDuringCompile
    /\ \A s \in Sources : sources[s].mtime <= library[o].mtime
    => library[o].content = Versions

\* "This ensures that wasi-sdk is available": a thread that was given the compiler
\* finds all of the archive beside it, whatever was left behind by a process that
\* was killed or failed while it downloaded or extracted.
ToolchainWhole == \A t \in Threads : tool_pc[t] = "have" => toolchain.parts = Parts

\* wait_for_removal has a deadline and the lock is dropped on every path: each call
\* returns, whatever process is killed.
LoadReturns ==
  \A p \in Threads : (pc[p] # "idle") ~> (pc[p] \in {"done", "killed"})

Installed == [o \in Outputs |-> IF library[o].exists THEN {library[o].content} ELSE {}]

Abstract == INSTANCE SharedLibrary WITH installed <- Installed, wants <- output, got <- result

\* "loaders always see a complete shared library (either the new or previous copy)":
\* each output is only ever replaced as a whole, by one of sources no older.
LibraryIsAtomic == Abstract!Spec
=============================================================================
