--------------------------- MODULE SharedLibrary ----------------------------
(***************************************************************************)
(* What the cache of compiled parsers promises the threads that share it:  *)
(* libraries that are replaced as a whole, by ones of sources no older,    *)
(* and that each thread loads in one step or not at all.                   *)
(***************************************************************************)
EXTENDS Naturals

CONSTANTS Threads, Sources, Outputs

VARIABLES
  installed,  \* the set of an output's contents: empty until there is one
  wants,      \* the output a thread has asked for
  got         \* what it was given

\* The version of each source, the number of times it was written.
Contents == [Sources -> Nat \ {0}]
NoAnswer == [done |-> FALSE, of |-> {}]
Failure == [done |-> TRUE, of |-> {}]

NotOlder(c, d) == \A s \in Sources : c[s] >= d[s]

Init ==
  /\ installed = [o \in Outputs |-> {}]
  /\ wants \in [Threads -> Outputs]
  /\ got = [t \in Threads |-> NoAnswer]

Ask(t) ==
  /\ got[t] = NoAnswer
  /\ \E o \in Outputs : wants' = [wants EXCEPT ![t] = o]
  /\ UNCHANGED <<installed, got>>

Install(o) ==
  /\ \E c \in installed'[o] :
       /\ c \in Contents
       /\ \A d \in installed[o] : NotOlder(c, d)
       /\ installed' = [installed EXCEPT ![o] = {c}]
  /\ UNCHANGED <<wants, got>>

Answer(t) ==
  /\ got[t] = NoAnswer
  /\ \/ got' = [got EXCEPT ![t] = Failure]
     \/ /\ installed[wants[t]] # {}
        /\ got' = [got EXCEPT ![t] = [done |-> TRUE, of |-> installed[wants[t]]]]
  /\ UNCHANGED <<installed, wants>>

Next ==
  \/ \E o \in Outputs : Install(o)
  \/ \E t \in Threads : Ask(t) \/ Answer(t)

Spec == Init /\ [][Next]_<<installed, wants, got>>
=============================================================================
