------------------------------- MODULE Dedup -------------------------------
(***************************************************************************)
(* crates/generate/src/dedup.rs: groups of states are split until no two   *)
(* states of a group differ.  A state's group is its group's index.        *)
(***************************************************************************)
EXTENDS Integers, Sequences, SequencesExt

CONSTANT Differ(_, _, _)  \* should_split(left, right, group_ids_by_state_id)

GroupOf(groups) ==
  [id \in UNION {ToSet(groups[k]) : k \in DOMAIN groups} |->
     CHOOSE k \in DOMAIN groups : id \in ToSet(groups[k])]

\* Those that differ from a state kept before them leave the group together,
\* as a new last group, which this pass then visits too.
RECURSIVE SplitFrom(_, _, _)
SplitFrom(states, groups, k) ==
  IF k > Len(groups) THEN groups
  ELSE LET ids   == GroupOf(groups)
           parts == FoldLeft(LAMBDA acc, id :
                       IF \E j \in DOMAIN acc.kept : Differ(states[acc.kept[j]], states[id], ids)
                         THEN [acc EXCEPT !.out = Append(@, id)]
                         ELSE [acc EXCEPT !.kept = Append(@, id)],
                       [kept |-> <<>>, out |-> <<>>], groups[k])
       IN  SplitFrom(states,
                     IF parts.out = <<>> THEN groups
                     ELSE Append([groups EXCEPT ![k] = parts.kept], parts.out),
                     k + 1)

\* split_state_id_groups, called until it splits nothing.
RECURSIVE SplitAll(_, _, _)
SplitAll(states, groups, start) ==
  LET next == SplitFrom(states, groups, start)
  IN  IF next = groups THEN groups ELSE SplitAll(states, next, start)
=============================================================================
