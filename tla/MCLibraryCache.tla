--------------------------- MODULE MCLibraryCache ---------------------------
EXTENDS LibraryCache

CONSTANTS t1, t2, t3, dylib, wasm, given

\* t1 and t2 are threads of one process.
MCProcessOf(t) == IF t = t3 THEN "second" ELSE "first"

\* A given output path is always compiled.
MCRequests ==
  { <<t1, wasm, FALSE>>, <<t2, given, TRUE>>, <<t3, wasm, FALSE>>, <<t3, dylib, FALSE>> }
=============================================================================
