---------------------------- MODULE ExpandTokens ----------------------------
(***************************************************************************)
(* crates/generate/src/prepare_grammar/expand_tokens.rs: the rules of the  *)
(* tokens become one Nfa.  It is built from the end: the accepting state of *)
(* a token first, its start state last.                                    *)
(*                                                                         *)
(* A pattern holds the Hir that pattern.rs makes of a regular expression.  *)
(***************************************************************************)
EXTENDS Nfa, Rules

Literal(s) == [kind |-> "Literal", value |-> s]
Class(chars) == [kind |-> "Class", chars |-> chars]
Look == [kind |-> "Look"]
Concat(subs) == [kind |-> "Concat", subs |-> subs]
Alternation(subs) == [kind |-> "Alternation", subs |-> subs]
\* max = Unbounded where the repetition has no upper bound.
Unbounded == -1
Repetition(sub, min, max) == [kind |-> "Repetition", sub |-> sub, min |-> min, max |-> max]

-----------------------------------------------------------------------------
(* NfaBuilder. The context c is is_sep and the top of precedence_stack; a    *)
(* result r has the states so far and whether the rule added any (did).      *)

push_advance(states, c, chars, next) ==
  Append(states, AdvanceState(chars, next, c.is_sep, c.precedence))

push_split(states, state_id) == Append(states, SplitState(state_id, Len(states)))

PushString(states, c, string, next) ==
  FoldLeft(LAMBDA acc, char :
             [states |-> push_advance(acc.states, c, from_char(char), acc.next),
              next   |-> Len(acc.states) + 1],
           [states |-> states, next |-> next], Reverse(string)).states

\* The alternatives of a choice or an alternation: splits to all but the last.
PushAlternatives(states, ids) ==
  FoldLeft(push_split, states, Ascending(ids \ {Len(states)}))

\* Mutant: the split of a repeat does not lead back.
CloseRepeat_Once(states, inner, next) ==
  [inner EXCEPT !.states[Len(states) + 1] = SplitState(next, next)]

\* expand_one_or_more and the repeat of expand_rule: the split's place is
\* taken before the content is expanded, and given up if it adds nothing.
CloseRepeat(states, inner, next) ==
  IF inner.did
    THEN [states |-> [inner.states EXCEPT ![Len(states) + 1] =
                        SplitState(Len(inner.states), next)],
          did |-> TRUE]
    ELSE [states |-> SubSeq(inner.states, 1, Len(inner.states) - 1), did |-> FALSE]

OrSkip(r, next) == IF r.did THEN [r EXCEPT !.states = push_split(@, next)] ELSE r

RECURSIVE expand_regex(_, _, _, _)
expand_regex(states, c, hir, next) ==
  LET one_or_more(s, sub) ==
        CloseRepeat(s, expand_regex(Append(s, AcceptState(1, 0)), c, sub, Len(s) + 1), next)
      zero_or_one(s, sub, to) == OrSkip(expand_regex(s, c, sub, to), to)
      zero_or_more(s, sub) == OrSkip(one_or_more(s, sub), next)
      \* one more copy of the expression in front of the last that added states
      copy(acc, sub) ==
        LET r == expand_regex(acc.states, c, sub, acc.next)
        IN  [states |-> r.states, did |-> acc.did \/ r.did,
             next |-> IF r.did THEN Len(r.states) ELSE acc.next]
      count(s, sub, n) ==
        FoldLeft(copy, [states |-> s, did |-> FALSE, next |-> next], [k \in 1 .. n |-> sub])
      optional(acc, sub) ==
        LET to == IF acc.did THEN Len(acc.states) ELSE next
            r  == zero_or_one(acc.states, sub, to)
        IN  [states |-> r.states, did |-> acc.did \/ r.did]
      alternative(acc, sub) ==
        LET r == expand_regex(acc.states, c, sub, next)
        IN  [states |-> r.states,
             ids |-> acc.ids \union {IF r.did THEN Len(r.states) ELSE next}]
      Result(r) == [states |-> r.states, did |-> r.did]
  IN  CASE hir.kind = "Empty" -> [states |-> states, did |-> FALSE]
        [] hir.kind = "Literal" ->
             [states |-> PushString(states, c, hir.value, next), did |-> TRUE]
        [] hir.kind = "Class" ->
             [states |-> push_advance(states, c, hir.chars, next), did |-> TRUE]
        [] hir.kind = "Repetition" /\ hir.min = 0 /\ hir.max = 1 ->
             zero_or_one(states, hir.sub, next)
        [] hir.kind = "Repetition" /\ hir.min = 1 /\ hir.max = Unbounded ->
             one_or_more(states, hir.sub)
        [] hir.kind = "Repetition" /\ hir.min = 0 /\ hir.max = Unbounded ->
             zero_or_more(states, hir.sub)
        [] hir.kind = "Repetition" /\ hir.min = hir.max ->
             Result(count(states, hir.sub, hir.min))
        [] hir.kind = "Repetition" /\ hir.min > 1 /\ hir.max = Unbounded ->
             LET loop == zero_or_more(states, hir.sub)
             IN  IF loop.did THEN Result(count(loop.states, hir.sub, hir.min)) ELSE loop
        [] hir.kind = "Repetition" /\ hir.max > Max({hir.min, 1}) ->
             FoldLeft(optional, Result(count(states, hir.sub, hir.min)),
                      [k \in 1 .. hir.max - hir.min |-> hir.sub])
        [] hir.kind = "Concat" ->
             Result(FoldLeft(copy, [states |-> states, did |-> FALSE, next |-> next],
                             Reverse(hir.subs)))
        [] hir.kind = "Alternation" ->
             LET all == FoldLeft(alternative, [states |-> states, ids |-> {}], hir.subs)
             IN  [states |-> PushAlternatives(all.states, all.ids), did |-> TRUE]

HasPrec(rule) == rule.type = "METADATA" /\ rule.params.precedence[1] = "Integer"

RECURSIVE expand_rule(_, _, _, _)
expand_rule(states, c, rule, next) ==
  LET alternative(acc, member) ==
        LET r == expand_rule(acc.states, c, member, next)
        IN  [states |-> r.states, did |-> acc.did \/ r.did,
             ids |-> acc.ids \union {IF r.did THEN Len(r.states) ELSE next}]
      \* What precedes a member goes to the last state, whether it added one or not.
      member_before(acc, member) ==
        LET r == expand_rule(acc.states, c, member, acc.next)
        IN  [states |-> r.states, did |-> acc.did \/ r.did, next |-> Len(r.states)]
  IN  CASE rule.type = "BLANK" -> [states |-> states, did |-> FALSE]
        [] rule.type = "STRING" ->
             [states |-> PushString(states, c, rule.value, next), did |-> rule.value # <<>>]
        [] rule.type = "PATTERN" -> expand_regex(states, c, rule.hir, next)
        [] rule.type = "CHOICE" ->
             LET all == FoldLeft(alternative, [states |-> states, did |-> FALSE, ids |-> {}],
                                 rule.members)
             IN  [states |-> PushAlternatives(all.states, all.ids), did |-> all.did]
        [] rule.type = "SEQ" ->
             LET all == FoldLeft(member_before,
                                 [states |-> states, did |-> FALSE, next |-> next],
                                 Reverse(rule.members))
             IN  [states |-> all.states, did |-> all.did]
        [] rule.type = "REPEAT" ->
             CloseRepeat(states,
               expand_rule(Append(states, AcceptState(1, 0)), c, rule.content, Len(states) + 1),
               next)
        [] rule.type = "METADATA" ->
             expand_rule(states,
               IF HasPrec(rule) THEN [c EXCEPT !.precedence = rule.params.precedence[2]] ELSE c,
               rule.content, next)

-----------------------------------------------------------------------------
RECURSIVE get_implicit_precedence(_)
get_implicit_precedence(rule) ==
  CASE rule.type = "STRING" -> 2
    [] rule.type = "METADATA" ->
         (IF rule.params.is_main_token THEN 1 ELSE 0) + get_implicit_precedence(rule.content)
    [] OTHER -> 0

get_completion_precedence(rule) ==
  IF HasPrec(rule) THEN rule.params.precedence[2] ELSE 0

is_immediate_token(rule) == rule.type = "METADATA" /\ rule.params.is_main_token

\* The separators in front of a token: any number of the lexical extras.
build_separator(separators) ==
  IF separators = <<>> THEN Blank
  ELSE Repeat(choice(Append(separators, Blank)))

\* What expand_rule and expand_regex refuse: symbols in a token and assertions.
RECURSIVE HirRefused(_)
HirRefused(hir) ==
  CASE hir.kind = "Look" -> TRUE
    [] hir.kind = "Repetition" -> HirRefused(hir.sub)
    [] hir.kind \in {"Concat", "Alternation"} ->
         \E i \in DOMAIN hir.subs : HirRefused(hir.subs[i])
    [] OTHER -> FALSE

RECURSIVE Refused(_)
Refused(rule) ==
  CASE rule.type = "SYMBOL" -> TRUE
    [] rule.type = "PATTERN" -> HirRefused(rule.hir)
    [] rule.type \in {"METADATA", "REPEAT"} -> Refused(rule.content)
    [] rule.type \in {"CHOICE", "SEQ"} ->
         \E i \in DOMAIN rule.members : Refused(rule.members[i])
    [] OTHER -> FALSE

\* One token: its accepting state, its rule, and in front of it the separators.
ExpandToken(g, rule, separators) ==
  LET accept == Append(g.nfa, AcceptState(Len(g.variables) + 1,
                                          get_completion_precedence(rule)))
      own    == expand_rule(accept, [is_sep |-> FALSE, precedence |-> 0], rule,
                            Len(accept)).states
      all    == IF is_immediate_token(rule) THEN own
                ELSE expand_rule(own, [is_sep |-> TRUE, precedence |-> 0],
                                 build_separator(separators), Len(own)).states
  IN  [nfa |-> all,
       variables |-> Append(g.variables,
         [rule |-> rule, implicit_precedence |-> get_implicit_precedence(rule),
          start_state |-> Len(all)])]

expand_tokens(tokens, separators) ==
  FoldLeft(LAMBDA g, rule : ExpandToken(g, rule, separators),
           [nfa |-> <<>>, variables |-> <<>>], tokens)

Expandable(tokens, separators) ==
  /\ \A i \in DOMAIN tokens : ~subtree_matches_empty_str(tokens[i]) /\ ~Refused(tokens[i])
  /\ \A i \in DOMAIN separators : ~Refused(separators[i])

-----------------------------------------------------------------------------
(* What rules mean: the strings of at most n characters that match.          *)

Cat(A, B, n) == {a \o b : a \in A, b \in B} \intersect UNION {[1 .. k -> 0 .. END - 1] : k \in 0 .. n}

RECURSIVE Star(_, _, _)
Star(A, S, n) == LET more == S \union Cat(S, A, n) IN IF more = S THEN S ELSE Star(A, more, n)

RECURSIVE Power(_, _, _)
Power(A, k, n) == IF k = 0 THEN {<<>>} ELSE Cat(A, Power(A, k - 1, n), n)

RECURSIVE HirStrings(_, _)
HirStrings(hir, n) ==
  CASE hir.kind = "Empty" -> {<<>>}
    [] hir.kind = "Literal" -> {hir.value}
    [] hir.kind = "Class" -> {<<char>> : char \in Chars(hir.chars)}
    [] hir.kind = "Concat" ->
         FoldLeft(LAMBDA acc, sub : Cat(acc, HirStrings(sub, n), n), {<<>>}, hir.subs)
    [] hir.kind = "Alternation" -> UNION {HirStrings(hir.subs[i], n) : i \in DOMAIN hir.subs}
    [] hir.kind = "Repetition" ->
         LET A == HirStrings(hir.sub, n)
         IN  IF hir.max = Unbounded THEN Cat(Power(A, hir.min, n), Star(A, {<<>>}, n), n)
             ELSE UNION {Power(A, k, n) : k \in hir.min .. hir.max}

RECURSIVE Strings(_, _)
Strings(rule, n) ==
  CASE rule.type = "BLANK" -> {<<>>}
    [] rule.type = "STRING" -> {rule.value}
    [] rule.type = "PATTERN" -> HirStrings(rule.hir, n)
    [] rule.type = "SEQ" ->
         FoldLeft(LAMBDA acc, m : Cat(acc, Strings(m, n), n), {<<>>}, rule.members)
    [] rule.type = "CHOICE" -> UNION {Strings(rule.members[i], n) : i \in DOMAIN rule.members}
    [] rule.type = "REPEAT" ->
         LET A == Strings(rule.content, n) IN Cat(A, Star(A, {<<>>}, n), n)
    [] rule.type = "METADATA" -> Strings(rule.content, n)
=============================================================================
