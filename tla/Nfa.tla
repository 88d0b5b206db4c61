-------------------------------- MODULE Nfa --------------------------------
(***************************************************************************)
(* crates/generate/src/nfa.rs.                                             *)
(*                                                                         *)
(* A CharacterSet is a sorted sequence of half-open ranges that neither    *)
(* overlap nor touch.  Characters are the numbers below END; END - 1 is    *)
(* char::MAX.  An Nfa is a sequence of states; state ids are indices, from *)
(* 1.  An NfaCursor is the set of the states it is in, none of them a      *)
(* Split.                                                                  *)
(***************************************************************************)
EXTENDS Integers, Sequences, SequencesExt, FiniteSetsExt

CONSTANT END  \* one more than the largest character

ASSUME EndAssumption == END \in Nat \ {0}

-----------------------------------------------------------------------------
(* CharacterSet                                                              *)

empty == <<>>

from_char(c) == <<[start |-> c, end |-> c + 1]>>

Chars(s) == UNION {s[i].start .. (s[i].end - 1) : i \in DOMAIN s}

range_count(s) == Len(s)

\* The gaps between the ranges, before the first and after the last.
negate(s) ==
  LET n    == Len(s)
      gaps == [i \in 1 .. n + 1 |->
                 [start |-> IF i = 1 THEN 0 ELSE s[i - 1].end,
                  end   |-> IF i > n THEN END ELSE s[i].start]]
  IN  SelectSeq(gaps, LAMBDA r : r.start < r.end)

\* Ranges are joined also where they only touch.  The index returned is where
\* the next range is looked for: `add` passes it on, since its ranges ascend.
Joined(s, k, last, start, end) ==
  SubSeq(s, 1, k - 1)
    \o <<[start |-> Min({start, s[k].start}), end |-> Max({end, s[last].end})]>>
    \o SubSeq(s, last + 1, Len(s))

InsertRange(s, k, start, end) ==
  IF k > Len(s) THEN Append(s, [start |-> start, end |-> end])
  ELSE IF s[k].start > end
    THEN SubSeq(s, 1, k - 1) \o <<[start |-> start, end |-> end]>> \o SubSeq(s, k, Len(s))
  ELSE Joined(s, k, Max({j \in k .. Len(s) : s[j].start <= end}), start, end)

add_int_range(s, i, start, end) ==
  LET k == Min({Len(s) + 1} \union {k \in i .. Len(s) : s[k].start > end \/ s[k].end >= start})
  IN  [at |-> k, set |-> InsertRange(s, k, start, end)]

add_range(s, first, last) == add_int_range(s, 1, first, last + 1).set

add_char(s, c) == add_range(s, c, c)

add(s, other) ==
  FoldLeft(LAMBDA acc, r : add_int_range(acc.set, acc.at, r.start, r.end),
           [at |-> 1, set |-> s], other).set

does_intersect(s, other) ==
  \E i \in DOMAIN s, j \in DOMAIN other :
     s[i].start < other[j].end /\ other[j].start < s[i].end

Part(from, to) == IF from < to THEN <<[start |-> from, end |-> to]>> ELSE <<>>

\* Both operands lose what they have in common.  Where two ranges overlap, what
\* stands before the overlap is finished and what stands after it is looked at
\* again.
RECURSIVE RemoveIntersection(_, _, _)
RemoveIntersection(s, other, acc) ==
  IF s = <<>> \/ other = <<>>
    THEN [acc EXCEPT !.left = @ \o s, !.right = @ \o other]
    ELSE LET x  == Head(s)
             y  == Head(other)
             lo == IF x.start < y.start THEN y.start ELSE x.start
             hi == IF x.end < y.end THEN x.end ELSE y.end
         IN  IF x.end <= y.start
               THEN RemoveIntersection(Tail(s), other, [acc EXCEPT !.left = Append(@, x)])
             ELSE IF x.start >= y.end
               THEN RemoveIntersection(s, Tail(other), [acc EXCEPT !.right = Append(@, y)])
             ELSE RemoveIntersection(Part(hi, x.end) \o Tail(s), Part(hi, y.end) \o Tail(other),
                    [left  |-> acc.left \o Part(x.start, lo),
                     right |-> acc.right \o Part(y.start, lo),
                     both  |-> acc.both \o Part(lo, hi)])

remove_intersection(s, other) ==
  RemoveIntersection(s, other, [left |-> <<>>, right |-> <<>>, both |-> <<>>])

contains_codepoint_range(s, from, to) ==
  \E i \in DOMAIN s : s[i].start <= from /\ s[i].end >= to

contains(s, c) == contains_codepoint_range(s, c, c + 1)

\* Mutant: two ranges are joined over any gap.
simplify_ignoring_AnyGap(s, ruled_out) ==
  IF s = <<>> THEN s ELSE <<[start |-> s[1].start, end |-> s[Len(s)].end]>>

\* Fewer ranges that agree with the set outside the ruled out characters.
simplify_ignoring(s, ruled_out) ==
  FoldLeft(LAMBDA acc, r :
             IF contains_codepoint_range(ruled_out, r.start, r.end) THEN acc
             ELSE IF /\ acc # <<>>
                     /\ contains_codepoint_range(ruled_out, acc[Len(acc)].end, r.start)
               THEN [acc EXCEPT ![Len(acc)].end = r.end]
             ELSE Append(acc, r),
           <<>>, s)

\* The order of sets: by size, then range by range by length and start.
cmp_key(s) ==
  <<Cardinality(Chars(s))>>
    \o FlattenSeq([i \in DOMAIN s |-> <<s[i].end - s[i].start, s[i].start>>])

RECURSIVE KeyLess(_, _)
KeyLess(a, b) ==
  /\ b # <<>>
  /\ \/ a = <<>>
     \/ Head(a) < Head(b)
     \/ Head(a) = Head(b) /\ KeyLess(Tail(a), Tail(b))

cmp_less(s, other) == KeyLess(cmp_key(s), cmp_key(other))

-----------------------------------------------------------------------------
(* Nfa and NfaCursor                                                         *)

AdvanceState(chars, state_id, is_sep, precedence) ==
  [kind |-> "Advance", chars |-> chars, state_id |-> state_id, is_sep |-> is_sep,
   precedence |-> precedence]
SplitState(left, right) == [kind |-> "Split", left |-> left, right |-> right]
AcceptState(variable_index, precedence) ==
  [kind |-> "Accept", variable_index |-> variable_index, precedence |-> precedence]

\* NfaCursor::add_states: Splits are followed until no new state is found.
RECURSIVE add_states(_, _)
add_states(nfa, ids) ==
  LET splits == {i \in ids : nfa[i].kind = "Split"}
      more   == UNION {{nfa[i].left, nfa[i].right} : i \in splits}
  IN  IF more \subseteq ids THEN ids \ splits ELSE add_states(nfa, ids \union more)

RECURSIVE Ascending(_)
Ascending(S) == IF S = {} THEN <<>> ELSE <<Min(S)>> \o Ascending(S \ {Min(S)})

raw_transitions(nfa, state_ids) ==
  LET ids == Ascending({i \in state_ids : nfa[i].kind = "Advance"})
  IN  [k \in DOMAIN ids |-> nfa[ids[k]]]

transition_chars(nfa, state_ids) ==
  {nfa[i] : i \in {j \in state_ids : nfa[j].kind = "Advance"}}

AnySeparator(nfa, state_ids) == \E t \in transition_chars(nfa, state_ids) : t.is_sep

completions(nfa, state_ids) ==
  LET ids == Ascending({i \in state_ids : nfa[i].kind = "Accept"})
  IN  [k \in DOMAIN ids |-> nfa[ids[k]]]

\* The first loop of group_transitions: a raw transition splits each transition
\* found so far at the characters they share; what is left of its own
\* characters becomes a transition of its own.
Overlap(t, raw, chars) ==
  IF chars = <<>> THEN <<>>
  ELSE <<[characters |-> chars, is_separator |-> t.is_separator /\ raw.is_sep,
          precedence |-> Max({t.precedence, raw.precedence}),
          states |-> t.states \union {raw.state_id}]>>

Remainder(t, chars) == IF chars = <<>> THEN <<>> ELSE <<[t EXCEPT !.characters = chars]>>

Cut(acc, raw, t, cut) ==
  [list  |-> acc.list \o Remainder(t, cut.left) \o Overlap(t, raw, cut.both),
   chars |-> cut.right]

AddRemaining(acc, raw) ==
  acc.list \o Remainder([characters |-> <<>>, is_separator |-> raw.is_sep,
                         precedence |-> raw.precedence, states |-> {raw.state_id}], acc.chars)

SplitTransition(found, raw) ==
  AddRemaining(FoldLeft(LAMBDA acc, t : Cut(acc, raw, t, remove_intersection(t.characters, acc.chars)),
                        [list |-> <<>>, chars |-> raw.chars], found),
               raw)

SameTarget(t, u) ==
  t.states = u.states /\ t.is_separator = u.is_separator /\ t.precedence = u.precedence

\* The second loop: transitions with the same target become one.
MergeTransition(merged, t) ==
  IF \E i \in DOMAIN merged : SameTarget(merged[i], t)
    THEN [i \in DOMAIN merged |->
            IF SameTarget(merged[i], t)
              THEN [t EXCEPT !.characters = add(merged[i].characters, @)] ELSE merged[i]]
    ELSE Append(merged, t)

RECURSIVE ByCharacters(_)
ByCharacters(T) ==
  IF T = {} THEN <<>>
  ELSE LET t == CHOOSE t \in T : \A u \in T \ {t} : cmp_less(t.characters, u.characters)
       IN  <<t>> \o ByCharacters(T \ {t})

transitions(nfa, state_ids) ==
  ByCharacters(ToSet(FoldLeft(MergeTransition, <<>>,
    FoldLeft(SplitTransition, <<>>, raw_transitions(nfa, state_ids)))))
=============================================================================
