------------------------------- MODULE Rules -------------------------------
(***************************************************************************)
(* crates/generate/src/rules.rs: symbols and rules.                        *)
(*                                                                         *)
(* A symbol is <<kind, index>>, ordered as SymbolType and the index are.   *)
(* A rule is a record with a field type; the pool's nodes are its parts.   *)
(* A name or a string is a sequence, the empty string is <<>>; what an     *)
(* Option leaves out is <<>> too.                                          *)
(***************************************************************************)
EXTENDS Integers, Sequences, SequencesExt, FiniteSets

External == 0
End == 1
EndOfNonTerminalExtra == 2
Terminal == 3
NonTerminal == 4

terminal(i) == <<Terminal, i>>
non_terminal(i) == <<NonTerminal, i>>
external(i) == <<External, i>>
end == <<End, 0>>
end_of_nonterminal_extra == <<EndOfNonTerminalExtra, 0>>

is_terminal(symbol) == symbol[1] = Terminal
is_non_terminal(symbol) == symbol[1] = NonTerminal
is_external(symbol) == symbol[1] = External

SymbolLess(a, b) == a[1] < b[1] \/ (a[1] = b[1] /\ a[2] < b[2])

\* A set in the order that Less gives.
SortedBy(S, Less(_, _)) ==
  [k \in 1 .. Cardinality(S) |->
     CHOOSE x \in S : Cardinality({y \in S : Less(y, x)}) = k - 1]

SortedSymbols(S) == SortedBy(S, SymbolLess)

-----------------------------------------------------------------------------
Blank == [type |-> "BLANK"]
String(s) == [type |-> "STRING", value |-> s]
Pattern(hir) == [type |-> "PATTERN", hir |-> hir]
NamedSymbol(name) == [type |-> "SYMBOL", name |-> name]
Sym(symbol) == [type |-> "SYM", symbol |-> symbol]
Seqn(members) == [type |-> "SEQ", members |-> members]
Choice(members) == [type |-> "CHOICE", members |-> members]
Repeat(content) == [type |-> "REPEAT", content |-> content]
EndOfFile == [type |-> "EOF"]
Metadata(params, content) == [type |-> "METADATA", params |-> params, content |-> content]
Reserved(content, ctx) == [type |-> "RESERVED", content |-> content, ctx |-> ctx]

Wrapper == {"METADATA", "REPEAT", "RESERVED"}
Group == {"SEQ", "CHOICE"}

NoPrec == <<"None">>
IntPrec(n) == <<"Integer", n>>
NamedPrec(name) == <<"Name", name>>

\* MetadataParams::default
DefaultParams ==
  [precedence |-> NoPrec, associativity |-> "None", dynamic_precedence |-> 0,
   alias |-> <<>>, field |-> <<>>, is_token |-> FALSE, is_main_token |-> FALSE]

\* Metadata that is put on metadata other than a token's is put into it.
metadata_with(content, F(_)) ==
  IF content.type = "METADATA" /\ ~content.params.is_token
    THEN [content EXCEPT !.params = F(@)]
    ELSE Metadata(F(DefaultParams), content)

field(name, content) == metadata_with(content, LAMBDA p : [p EXCEPT !.field = name])
alias(content, value, is_named) ==
  metadata_with(content, LAMBDA p : [p EXCEPT !.alias = <<value, is_named>>])
token(content) == metadata_with(content, LAMBDA p : [p EXCEPT !.is_token = TRUE])
immediate_token(content) ==
  metadata_with(content, LAMBDA p : [p EXCEPT !.is_token = TRUE, !.is_main_token = TRUE])
prec(value, content) == metadata_with(content, LAMBDA p : [p EXCEPT !.precedence = value])
prec_assoc(side, value, content) ==
  metadata_with(content, LAMBDA p : [p EXCEPT !.associativity = side, !.precedence = value])
prec_dynamic(value, content) ==
  metadata_with(content, LAMBDA p : [p EXCEPT !.dynamic_precedence = value])

\* RulePool::choice: nested choices are flattened and equal members kept once.
RECURSIVE FlattenChoice(_)
FlattenChoice(members) ==
  FoldLeft(LAMBDA acc, m :
             FoldLeft(LAMBDA a, x : IF x \in ToSet(a) THEN a ELSE Append(a, x), acc,
                      IF m.type = "CHOICE" THEN FlattenChoice(m.members) ELSE <<m>>),
           <<>>, members)

choice(members) == Choice(FlattenChoice(members))

\* "Whether the subtree at `id` can only match the empty string."
RECURSIVE subtree_matches_empty_str(_)
subtree_matches_empty_str(rule) ==
  CASE rule.type = "STRING" -> rule.value = <<>>
    [] rule.type \in Wrapper -> subtree_matches_empty_str(rule.content)
    [] rule.type = "CHOICE" ->
         \E i \in DOMAIN rule.members : subtree_matches_empty_str(rule.members[i])
    [] rule.type = "SEQ" ->
         \A i \in DOMAIN rule.members : subtree_matches_empty_str(rule.members[i])
    [] OTHER -> FALSE

\* collect_referenced_ids; an external token's own name is not a reference.
RECURSIVE collect_referenced_ids(_, _)
collect_referenced_ids(rule, skip_top_level) ==
  CASE rule.type = "SYMBOL" -> IF skip_top_level THEN {} ELSE {rule.name}
    [] rule.type \in Group ->
         UNION {collect_referenced_ids(rule.members[i], FALSE) : i \in DOMAIN rule.members}
    [] rule.type = "REPEAT" -> collect_referenced_ids(rule.content, FALSE)
    [] rule.type \in Wrapper \ {"REPEAT"} -> collect_referenced_ids(rule.content, skip_top_level)
    [] OTHER -> {}

rule_is_referenced(rule, target, is_external_) ==
  target \in collect_referenced_ids(rule, is_external_)
=============================================================================
