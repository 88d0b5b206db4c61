----------------------------- MODULE TokenSets ------------------------------
(***************************************************************************)
(* crates/generate/src/rules.rs, TokenSet: the lookahead sets of items,    *)
(* which the table builder unites, copies, compares and drops all the      *)
(* time.  A set has two bit vectors and two flags; the vectors of all sets *)
(* share the arena of BitVec.                                              *)
(***************************************************************************)
EXTENDS BitVec

CONSTANTS
  Sets,
  Terminals, Externals,  \* the indices of tokens
  MaxWords               \* bound of the memory

ASSUME TokenAssumption == Terminals \subseteq Nat /\ Externals \subseteq Nat

VARIABLES heap, eof, end_of_nonterminal_extra,
  changed  \* what the last insert_all or remove returned

tokVars == <<heap, eof, end_of_nonterminal_extra, changed>>

terminal(i) == <<"terminal", i>>
external(i) == <<"external", i>>
end == <<"end", 0>>
extra == <<"extra", 0>>
Symbols == {terminal(i) : i \in Terminals} \cup {external(i) : i \in Externals} \cup {end, extra}

T(s) == <<s, "terminal">>
X(s) == <<s, "external">>
Vecs == Sets \X {"terminal", "external"}

TokInit ==
  /\ heap = NewHeap(Vecs)
  /\ eof = [s \in Sets |-> FALSE] /\ end_of_nonterminal_extra = [s \in Sets |-> FALSE]
  /\ changed = FALSE

\* The set is as new() makes it.
Unmade(s) ==
  /\ heap.vec[T(s)] = NewVec /\ heap.vec[X(s)] = NewVec
  /\ ~eof[s] /\ ~end_of_nonterminal_extra[s]

WithCapacity(s, n_terminals, n_externals) ==
  /\ Unmade(s)
  /\ heap' = with_capacity(with_capacity(heap, T(s), n_terminals), X(s), n_externals)
  /\ UNCHANGED <<eof, end_of_nonterminal_extra, changed>>

Drop(s) ==
  /\ heap' = drop(drop(heap, T(s)), X(s))
  /\ eof' = [eof EXCEPT ![s] = FALSE]
  /\ end_of_nonterminal_extra' = [end_of_nonterminal_extra EXCEPT ![s] = FALSE]
  /\ UNCHANGED changed

Clone(s, u) ==
  /\ s # u /\ Unmade(u)
  /\ heap' = clone(clone(heap, T(s), T(u)), X(s), X(u))
  /\ eof' = [eof EXCEPT ![u] = eof[s]]
  /\ end_of_nonterminal_extra' = [end_of_nonterminal_extra EXCEPT ![u] = end_of_nonterminal_extra[s]]
  /\ UNCHANGED changed

\* insert: a vector that is too short is resized first.
InsertBit(h, v, i) == set(IF i >= h.vec[v].num_bits THEN resize(h, v, i + 1) ELSE h, v, i, TRUE)

Insert(v, i) ==
  /\ heap' = InsertBit(heap, v, i)
  /\ UNCHANGED <<eof, end_of_nonterminal_extra, changed>>
InsertEnd(s) ==
  /\ eof' = [eof EXCEPT ![s] = TRUE] /\ UNCHANGED <<heap, end_of_nonterminal_extra, changed>>
InsertExtra(s) ==
  /\ end_of_nonterminal_extra' = [end_of_nonterminal_extra EXCEPT ![s] = TRUE]
  /\ UNCHANGED <<heap, eof, changed>>

\* remove
Remove(v, i) ==
  /\ changed' = get(heap, v, i)
  /\ heap' = IF get(heap, v, i) THEN pop_zeros(set(heap, v, i, FALSE), v) ELSE heap
  /\ UNCHANGED <<eof, end_of_nonterminal_extra>>
RemoveEnd(s) ==
  /\ changed' = eof[s] /\ eof' = [eof EXCEPT ![s] = FALSE]
  /\ UNCHANGED <<heap, end_of_nonterminal_extra>>
RemoveExtra(s) ==
  /\ changed' = end_of_nonterminal_extra[s]
  /\ end_of_nonterminal_extra' = [end_of_nonterminal_extra EXCEPT ![s] = FALSE]
  /\ UNCHANGED <<heap, eof>>

\* insert_all_terminals, insert_all
InsertAllTerminals(s, u) ==
  /\ s # u
  /\ heap' = insert_all(heap, T(s), T(u))
  /\ changed' = AnyNew(heap, T(s), T(u))
  /\ UNCHANGED <<eof, end_of_nonterminal_extra>>

InsertAll(s, u) ==
  /\ s # u
  /\ heap' = insert_all(insert_all(heap, T(s), T(u)), X(s), X(u))
  /\ eof' = [eof EXCEPT ![s] = @ \/ eof[u]]
  /\ end_of_nonterminal_extra' =
       [end_of_nonterminal_extra EXCEPT ![s] = @ \/ end_of_nonterminal_extra[u]]
  /\ changed' = \/ eof[u] /\ ~eof[s]
                \/ end_of_nonterminal_extra[u] /\ ~end_of_nonterminal_extra[s]
                \/ AnyNew(heap, T(s), T(u))
                \/ AnyNew(insert_all(heap, T(s), T(u)), X(s), X(u))

Call(s) ==
  \/ Drop(s) \/ InsertEnd(s) \/ InsertExtra(s) \/ RemoveEnd(s) \/ RemoveExtra(s)
  \/ \E i \in Terminals : Insert(T(s), i) \/ Remove(T(s), i)
  \/ \E i \in Externals : Insert(X(s), i) \/ Remove(X(s), i)
  \/ \E n \in Terminals, m \in Externals \cup {0} : WithCapacity(s, n, m)
  \/ \E u \in Sets : Clone(s, u) \/ InsertAllTerminals(s, u) \/ InsertAll(s, u)

TokNext ==
  /\ \E s \in Sets : Call(s)
  /\ heap'.size <= MaxWords

TokSpec == TokInit /\ [][TokNext]_tokVars

-----------------------------------------------------------------------------
\* iter
Indices(v) == iter(heap, v)
TokensOf(s) ==
  {terminal(i) : i \in Indices(T(s))} \cup {external(i) : i \in Indices(X(s))}
  \cup (IF eof[s] THEN {end} ELSE {}) \cup (IF end_of_nonterminal_extra[s] THEN {extra} ELSE {})

IsTerminal(x) == x[1] = "terminal"

Abstract == INSTANCE AbstractTokenSets
  WITH tokens <- [s \in Sets |-> TokensOf(s)], Tokens <- Symbols, Terminal <- IsTerminal

\* The SAFETY comments of bitvec.rs: "data points to at least `capacity` valid words",
\* "new_data points to new_cap valid zeroed words".  The blocks of vectors and the free
\* blocks lie apart from one another in memory that was allocated; what is free, and
\* what a vector does not use, is zero.
BlockOf(v) == [ptr |-> heap.vec[v].data, words |-> heap.vec[v].capacity]
Addresses(b) == b.ptr .. (b.ptr + b.words - 1)
ArenaSound ==
  /\ \A v \in Vecs : Used(heap, v) <= heap.vec[v].capacity
  /\ \A b \in heap.free \cup {BlockOf(v) : v \in Vecs} : b.words > 0 => Addresses(b) \subseteq 0..(heap.size - 1)
  /\ \A b, c \in heap.free : b # c => Addresses(b) \cap Addresses(c) = {}
  /\ \A v, w \in Vecs : v # w => Addresses(BlockOf(v)) \cap Addresses(BlockOf(w)) = {}
  /\ \A v \in Vecs, b \in heap.free : Addresses(BlockOf(v)) \cap Addresses(b) = {}
  /\ \A b \in heap.free : \A a \in Addresses(b) : heap.mem[a] = {}
  /\ \A v \in Vecs : \A k \in Used(heap, v) .. (heap.vec[v].capacity - 1) : Word(heap, v, k) = {}
  /\ \A v \in Vecs : \A i \in iter(heap, v) : i < heap.vec[v].num_bits

\* The comparisons and the hash of vectors, which may differ in length and capacity,
\* are those of the sets: equal ones are equal by eq, cmp and hash.
ComparisonsAgree ==
  \A v, w \in Vecs :
    /\ eq(heap, v, w) <=> iter(heap, v) = iter(heap, w)
    /\ cmp(heap, v, w) = "equal" <=> eq(heap, v, w)
    /\ hash_input(heap, v) = hash_input(heap, w) <=> eq(heap, v, w)
    /\ cmp(heap, v, w) = "less" <=> cmp(heap, w, v) = "greater"

\* Whatever sequence of calls, with blocks of the arena freed and handed out again,
\* a TokenSet is a set of tokens, no call changes another set, insert_all and remove
\* report a change if and only if they made one, and sets compare and hash by their
\* tokens: the builder stops when no lookahead set grows, and finds equal item sets.
TokenSetsAreSets == Abstract!Spec /\ []ComparisonsAgree
=============================================================================
