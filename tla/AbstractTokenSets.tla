------------------------- MODULE AbstractTokenSets --------------------------
(***************************************************************************)
(* What crates/generate promises of its token sets: they are sets, and a   *)
(* call that reports a change has made one.                                *)
(***************************************************************************)
CONSTANTS Sets, Tokens, Terminal(_)

VARIABLES tokens, changed

absVars == <<tokens, changed>>

Init == tokens = [s \in Sets |-> {}] /\ changed = FALSE

Becomes(s, S) == tokens' = [tokens EXCEPT ![s] = S]

Clear(s) == Becomes(s, {}) /\ UNCHANGED changed
Insert(s, x) == Becomes(s, tokens[s] \cup {x}) /\ UNCHANGED changed
Remove(s, x) == Becomes(s, tokens[s] \ {x}) /\ changed' = (x \in tokens[s])
Copy(s, u) == Becomes(u, tokens[s]) /\ UNCHANGED changed
Union(s, S) == Becomes(s, tokens[s] \cup S) /\ changed' = ~(S \subseteq tokens[s])

Next ==
  \E s \in Sets :
    \/ Clear(s)
    \/ \E x \in Tokens : Insert(s, x) \/ Remove(s, x)
    \/ \E u \in Sets :
         Copy(s, u) \/ Union(s, tokens[u]) \/ Union(s, {x \in tokens[u] : Terminal(x)})

Spec == Init /\ [][Next]_absVars
=============================================================================
