--------------------------- MODULE FlattenGrammar ---------------------------
(***************************************************************************)
(* crates/generate/src/prepare_grammar: flatten_grammar,                   *)
(* extract_default_aliases and process_inlines.  Rules become productions. *)
(*                                                                         *)
(* A step is a record of symbol, prec, assoc, alias, field and reserved; a *)
(* production of steps, dynamic_precedence and eof; a store holds the      *)
(* productions and, for each variable, the ids of its own.                 *)
(***************************************************************************)
EXTENDS PrepareGrammar

Abs(n) == IF n < 0 THEN -n ELSE n
LargerAbs(old, new) == IF Abs(new) > Abs(old) THEN new ELSE old

DefaultCtx == [prec |-> NoPrec, assoc |-> "None", alias |-> <<>>, field |-> <<>>, reserved |-> 1]

\* The last set of a name wins.
ReservedId(g, name) ==
  LET same == {k \in DOMAIN g.reserved : g.reserved[k].name = name}
  IN  IF same = {} THEN 0 ELSE CHOOSE k \in same : \A j \in same : j <= k

RECURSIVE ReservedContexts(_)
ReservedContexts(rule) ==
  CASE rule.type \in Group ->
         UNION {ReservedContexts(rule.members[i]) : i \in DOMAIN rule.members}
    [] rule.type = "RESERVED" -> {rule.ctx} \union ReservedContexts(rule.content)
    [] rule.type \in Wrapper \ {"RESERVED"} -> ReservedContexts(rule.content)
    [] OTHER -> {}

Path(steps, dyn, dead) == [steps |-> steps, dyn |-> dyn, dead |-> dead]

\* The context inside metadata.
InnerCtx(ctx, p) ==
  [ctx EXCEPT !.prec  = IF p.precedence # NoPrec THEN p.precedence ELSE @,
              !.assoc = IF p.associativity # "None" THEN p.associativity ELSE @,
              !.alias = IF p.alias # <<>> THEN p.alias ELSE @,
              !.field = IF p.field # <<>> THEN p.field ELSE @]

\* The last step of a region that more steps follow has the outer precedence.
RestoreOuter(path, p, ctx, at_end) ==
  IF at_end \/ path.steps = <<>> THEN path
  ELSE [path EXCEPT !.steps[Len(path.steps)] =
          [@ EXCEPT !.prec  = IF p.precedence # NoPrec THEN ctx.prec ELSE @,
                    !.assoc = IF p.associativity # "None" THEN ctx.assoc ELSE @]]

\* One path for each way to choose, in the order the cursor counts.
RECURSIVE apply(_, _, _, _)
apply(g, rule, ctx, at_end) ==
  LET Step(symbol) == [symbol |-> symbol, prec |-> ctx.prec, assoc |-> ctx.assoc,
                       alias |-> ctx.alias, field |-> ctx.field, reserved |-> ctx.reserved]
      Then(path, tails) ==
        IF path.dead THEN <<path>>
        ELSE [i \in DOMAIN tails |-> Path(path.steps \o tails[i].steps,
                                          LargerAbs(path.dyn, tails[i].dyn), tails[i].dead)]
      Member(paths, i) ==
        FlattenSeq([k \in DOMAIN paths |->
                      Then(paths[k], apply(g, rule.members[i], ctx,
                                           at_end /\ i = Len(rule.members)))])
  IN  CASE rule.type = "SYM" -> <<Path(<<Step(rule.symbol)>>, 0, FALSE)>>
        [] rule.type = "EOF" -> <<Path(<<Step(end)>>, 0, FALSE)>>
        [] rule.type = "SEQ" ->
             FoldLeft(Member, <<Path(<<>>, 0, FALSE)>>, [i \in DOMAIN rule.members |-> i])
        [] rule.type = "CHOICE" ->
             IF rule.members = <<>> THEN <<Path(<<>>, 0, TRUE)>>
             ELSE FlattenSeq([i \in DOMAIN rule.members |-> apply(g, rule.members[i], ctx, at_end)])
        [] rule.type = "METADATA" ->
             LET inner == apply(g, rule.content, InnerCtx(ctx, rule.params), at_end)
             IN  [i \in DOMAIN inner |->
                    [RestoreOuter(inner[i], rule.params, ctx, at_end)
                       EXCEPT !.dyn = LargerAbs(rule.params.dynamic_precedence, @)]]
        [] rule.type = "RESERVED" ->
             apply(g, rule.content, [ctx EXCEPT !.reserved = ReservedId(g, rule.ctx)], at_end)
        [] OTHER -> <<Path(<<>>, 0, FALSE)>>

Production(steps, dyn, eof) == [steps |-> steps, dynamic_precedence |-> dyn, eof |-> eof]

\* The positions of eof() in a path.
EofSteps(path) == {i \in DOMAIN path.steps : path.steps[i].symbol = end}

DroppedForEof(path) ==
  /\ ~path.dead
  /\ EofSteps(path) # {}
  /\ (CHOOSE i \in EofSteps(path) : \A j \in EofSteps(path) : i <= j) # Len(path.steps)

Emit(path) ==
  IF EofSteps(path) = {} THEN Production(path.steps, path.dyn, FALSE)
  ELSE Production(SelectSeq(path.steps, LAMBDA s : s.symbol # end), path.dyn, TRUE)

FlattenVariable(g, root) == apply(g, root, DefaultCtx, TRUE)

\* The productions of a variable's paths, each once.
Emitted(paths) ==
  FoldLeft(LAMBDA acc, p : IF p.dead \/ DroppedForEof(p) \/ Emit(p) \in ToSet(acc) THEN acc
                           ELSE Append(acc, Emit(p)), <<>>, paths)

FlattenPaths(g) == [v \in DOMAIN g.variables |-> FlattenVariable(g, g.variables[v].root)]

\* The store: one sequence of productions, those of a variable side by side.
Store(lists) ==
  LET Earlier(v) == FoldLeft(LAMBDA n, i : n + Len(lists[i]), 0, [i \in 1 .. v - 1 |-> i])
  IN  [productions |-> FlattenSeq(lists),
       var_prods   |-> [v \in DOMAIN lists |-> [k \in 1 .. Len(lists[v]) |-> Earlier(v) + k]]]

flatten_grammar(paths) == Store([v \in DOMAIN paths |-> Emitted(paths[v])])

SymbolsOf(production) == {production.steps[i].symbol : i \in DOMAIN production.steps}
UsedIn(store, symbol) ==
  \E p \in DOMAIN store.productions : symbol \in SymbolsOf(store.productions[p])

FlattenRefused(g, paths, store) ==
  \/ \E v \in DOMAIN g.variables :
       \E c \in ReservedContexts(g.variables[v].root) : ReservedId(g, c) = 0
  \/ \E v \in DOMAIN paths :
       /\ \E i \in DOMAIN paths[v] : DroppedForEof(paths[v][i])
       /\ store.var_prods[v] = <<>>
  \/ \E v \in DOMAIN paths : \E p \in ToSet(store.var_prods[v]) :
       LET production == store.productions[p]
       IN  \/ production.steps = <<>> /\ ~production.eof /\ UsedIn(store, non_terminal(v))
           \/ non_terminal(v) \in ToSet(g.inline) /\ non_terminal(v) \in SymbolsOf(production)

\* The reserved word sets, with an empty one when there are none.
ReservedSets(g) ==
  IF g.reserved = <<>> THEN <<{}>> ELSE [k \in DOMAIN g.reserved |-> g.reserved[k].words]

-----------------------------------------------------------------------------
(* extract_default_aliases.rs                                                *)

\* Every use of a symbol, in the order of the store.
Uses(store, symbol) ==
  FlattenSeq([p \in DOMAIN store.productions |->
                SelectSeq(store.productions[p].steps, LAMBDA s : s.symbol = symbol)])

AlwaysAliased(g, symbol, uses) ==
  /\ symbol \notin ToSet(g.inline) \union ToSet(g.extras)
  /\ uses # <<>>
  /\ \A i \in DOMAIN uses : uses[i].alias # <<>>

\* The alias used most often, the first of those used equally often.
MostUsed(uses) ==
  LET Count(a) == Cardinality({i \in DOMAIN uses : uses[i].alias = a})
      best == {i \in DOMAIN uses :
                 \A j \in DOMAIN uses : Count(uses[j].alias) <= Count(uses[i].alias)}
  IN  uses[CHOOSE i \in best : \A j \in best : i <= j].alias

UsedSymbols(store) == UNION {SymbolsOf(store.productions[p]) : p \in DOMAIN store.productions}

default_aliases(g, store) ==
  [s \in {s \in UsedSymbols(store) : AlwaysAliased(g, s, Uses(store, s))} |->
     MostUsed(Uses(store, s))]

Lookup(aliases, symbol) == IF symbol \in DOMAIN aliases THEN aliases[symbol] ELSE <<>>

\* Another production of the variable needs the alias at this place.
MustUseAlias(store, aliases, v, p, j) ==
  LET step == store.productions[p].steps[j]
  IN  \E q \in ToSet(store.var_prods[v]) \ {p} :
        LET steps == store.productions[q].steps
        IN  Len(steps) >= j /\ steps[j].alias = step.alias
            /\ Lookup(aliases, steps[j].symbol) # step.alias

ClearAliases(store, aliases) ==
  LET VariableOf(p) == CHOOSE v \in DOMAIN store.var_prods : p \in ToSet(store.var_prods[v])
      Clear(p, j) ==
        LET step == store.productions[p].steps[j]
        IN  step.alias # <<>> /\ step.alias = Lookup(aliases, step.symbol)
            /\ ~MustUseAlias(store, aliases, VariableOf(p), p, j)
  IN  [store EXCEPT !.productions =
         [p \in DOMAIN @ |->
            [@[p] EXCEPT !.steps = [j \in DOMAIN @ |-> IF Clear(p, j) THEN [@[j] EXCEPT !.alias = <<>>]
                                                       ELSE @[j]]]]]

-----------------------------------------------------------------------------
(* process_inlines.rs                                                        *)

\* The steps that take the place of the removed one.
Inserted(removed, steps) ==
  [k \in DOMAIN steps |->
     [steps[k] EXCEPT
        !.alias = IF removed.alias # <<>> THEN removed.alias ELSE @,
        !.field = IF removed.field # <<>> THEN removed.field ELSE @,
        !.prec  = IF k = Len(steps) /\ @ = NoPrec THEN removed.prec ELSE @,
        !.assoc = IF k = Len(steps) /\ @ = "None" THEN removed.assoc ELSE @]]

\* Productions with the inlined symbol at a step replaced, until the step has another.
RECURSIVE InlineAt(_, _, _, _)
InlineAt(store, inline, production, si) ==
  IF si > Len(production.steps) \/ production.steps[si].symbol \notin inline THEN <<production>>
  ELSE LET removed == production.steps[si]
           ids  == SelectSeq(store.var_prods[removed.symbol[2]],
                     LAMBDA q : ~(store.productions[q].eof /\ si < Len(production.steps)))
           With(q) ==
             Production(SubSeq(production.steps, 1, si - 1) \o Inserted(removed, q.steps)
                          \o SubSeq(production.steps, si + 1, Len(production.steps)),
                        LargerAbs(production.dynamic_precedence, q.dynamic_precedence),
                        production.eof \/ q.eof)
       IN  FlattenSeq([k \in DOMAIN ids |->
                         InlineAt(store, inline, With(store.productions[ids[k]]), si)])

\* The id of an inlined production: equal ones are stored once.
AddInlined(b, production) ==
  LET same == {p \in b.first + 1 .. Len(b.store.productions) : b.store.productions[p] = production}
  IN  IF same # {}
        THEN [b EXCEPT !.ids = Append(@, CHOOSE p \in same : TRUE)]
        ELSE [b EXCEPT !.store.productions = Append(@, production),
                       !.ids = Append(@, Len(b.store.productions) + 1)]

inline_production_at_step(b, inline, p, si) ==
  IF <<p, si>> \in DOMAIN b.map THEN [b EXCEPT !.ids = b.map[<<p, si>>]]
  ELSE LET c == FoldLeft(AddInlined, [b EXCEPT !.ids = <<>>],
                         InlineAt(b.store, inline, b.store.productions[p], si))
       IN  [c EXCEPT !.map = c.map @@ (<<p, si>> :> c.ids)]

\* InlineBuilder::build for one production: all (production, step) to look at.
RECURSIVE BuildInlines(_, _, _)
BuildInlines(b, inline, work) ==
  IF work = <<>> THEN b
  ELSE LET p == work[1][1]
           si == work[1][2]
       IN  IF si > Len(b.store.productions[p].steps)
             THEN BuildInlines([b EXCEPT !.survived = TRUE], inline, Tail(work))
           ELSE IF b.store.productions[p].steps[si].symbol \in inline
             THEN LET c == inline_production_at_step(b, inline, p, si)
                  IN  BuildInlines(c, inline, [k \in DOMAIN c.ids |-> <<c.ids[k], si>>] \o Tail(work))
           ELSE BuildInlines(b, inline, Append(Tail(work), <<p, si + 1>>))

BuildInlinesOf(b, inline, p) ==
  LET c == BuildInlines([b EXCEPT !.survived = FALSE], inline, <<<<p, 1>>>>)
  IN  [c EXCEPT !.dead = IF c.survived THEN @ ELSE @ \union {p}]

process_inlines(g, store) ==
  LET b == [store |-> store, first |-> Len(store.productions), map |-> <<>>, ids |-> <<>>,
            survived |-> FALSE, dead |-> {}]
  IN  IF g.inline = <<>> THEN b
      ELSE FoldLeft(LAMBDA acc, p : BuildInlinesOf(acc, ToSet(g.inline), p), b,
                    [p \in 1 .. b.first |-> p])

InlinesRefused(g, b) ==
  \/ \E s \in ToSet(g.inline) : ~is_non_terminal(s) \/ s[2] = 1
  \/ \E v \in DOMAIN b.store.var_prods :
       /\ b.store.var_prods[v] # <<>>
       /\ ToSet(b.store.var_prods[v]) \subseteq b.dead
       /\ v = 1 \/ UsedIn(b.store, non_terminal(v))
=============================================================================
