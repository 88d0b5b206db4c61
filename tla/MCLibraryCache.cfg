SPECIFICATION FairCacheSpec
CONSTANTS
  t1 = t1
  t2 = t2
  t3 = t3
  dylib = dylib
  wasm = wasm
  given = given
  Threads = {t1, t2, t3}
  ProcessOf <- MCProcessOf
  Parts = {clang, headers}
  Exe = clang
  ToolFaults = TRUE
  OneInstaller = TRUE
  Sources = {parser}
  Outputs = {dylib, wasm, given}
  WasmOutputs = {wasm, given}
  Requests <- MCRequests
  MaxVersion = 2
  Faults = TRUE
  EditsDuringCompile = FALSE
INVARIANTS
  CompileExclusive
  CompilerLoadsNew
  TimesTellContents
  ToolchainWhole
PROPERTIES
  LoadReturns
  LibraryIsAtomic
CHECK_DEADLOCK FALSE
