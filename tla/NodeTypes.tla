------------------------------ MODULE NodeTypes -----------------------------
(***************************************************************************)
(* crates/generate/src/node_types.rs: what children and fields the visible *)
(* nodes of a grammar can have.                                            *)
(*                                                                         *)
(* A child type is <<"alias", name, named>> or <<"symbol", symbol>>.  The  *)
(* info of a variable has fields (a FieldInfo for each), children,         *)
(* without (the named children that have no field) and multi.              *)
(***************************************************************************)
EXTENDS FlattenGrammar

Quantity(exists, required, multiple) ==
  [exists |-> exists, required |-> required, multiple |-> multiple]
Zero == Quantity(FALSE, FALSE, FALSE)
One == Quantity(TRUE, TRUE, FALSE)

append(q, other) ==
  IF ~other.exists THEN q
  ELSE Quantity(TRUE, q.required \/ other.required, q.multiple \/ q.exists \/ other.multiple)

\* Mutant: a child stays required though an alternative lacks it.
union_Required(q, other) ==
  Quantity(q.exists \/ other.exists, q.required, q.multiple \/ other.multiple)

union(q, other) ==
  Quantity(q.exists \/ other.exists, q.required /\ other.required, q.multiple \/ other.multiple)

NoField == [quantity |-> One, types |-> {}]
NoVariableInfo == [fields |-> <<>>, children |-> NoField, without |-> NoField, multi |-> FALSE]

-----------------------------------------------------------------------------
child_type(g, s) ==
  LET a == IF s.alias # <<>> THEN s.alias ELSE Lookup(g.default_aliases, s.symbol)
  IN  IF a # <<>> THEN <<"alias", a[1], a[2]>> ELSE <<"symbol", s.symbol>>

KindOf(g, symbol) ==
  IF is_non_terminal(symbol) THEN g.variables[symbol[2]].kind
  ELSE IF is_terminal(symbol) THEN g.lexical[symbol[2]].kind
  ELSE g.externals[symbol[2]].kind

NameOf(g, symbol) ==
  IF is_non_terminal(symbol) THEN g.variables[symbol[2]].name
  ELSE IF is_terminal(symbol) THEN g.lexical[symbol[2]].name
  ELSE g.externals[symbol[2]].name

\* Aliases first, then supertypes are named and inlined rules hidden.
variable_type_for_child_type(g, t) ==
  IF t[1] = "alias" THEN IF t[3] THEN Named ELSE Anonymous
  ELSE IF t[2] \in ToSet(g.supertypes) THEN Named
  ELSE IF t[2] \in ToSet(g.inline) THEN Hidden
  ELSE KindOf(g, t[2])

child_type_is_visible(g, t) == variable_type_for_child_type(g, t) \in {Anonymous, Named}

ChildIsHidden(g, s) ==
  ~child_type_is_visible(g, child_type(g, s)) /\ s.symbol \notin ToSet(g.supertypes)

FieldOf(fields, f, default) == IF f \in DOMAIN fields THEN fields[f] ELSE default
WithTypes(fields, f, types) ==
  (f :> [FieldOf(fields, f, NoField) EXCEPT !.types = @ \union types]) @@ fields

\* What a hidden child has, its parent has.
inherit_hidden_child_info(acc, child, s) ==
  LET names == DOMAIN child.fields
      named == s.field = <<>> /\ child.without.types # {}
  IN  [acc EXCEPT
        !.info.multi = @ \/ child.multi,
        !.info.fields =
           [f \in names |-> [FieldOf(@, f, NoField) EXCEPT !.types = @ \union child.fields[f].types]] @@ @,
        !.q.fields = [f \in names |-> append(FieldOf(@, f, Zero), child.fields[f].quantity)] @@ @,
        !.q.children = append(@, child.children.quantity),
        !.info.children.types = @ \union child.children.types,
        !.q.without = IF named THEN append(@, child.without.quantity) ELSE @,
        !.info.without.types = IF named THEN @ \union child.without.types ELSE @]

\* One step of a production: acc has the variable's info and the quantities of
\* the production so far.
AddStep(g, result, acc, s) ==
  LET type   == child_type(g, s)
      hidden == ChildIsHidden(g, s)
      inner  == hidden /\ is_non_terminal(s.symbol)
      child  == IF inner THEN result[s.symbol[2]] ELSE NoVariableInfo
      types  == {type} \union (IF inner THEN child.children.types ELSE {})
      named  == s.field = <<>> /\ variable_type_for_child_type(g, type) = Named
      next   == [acc EXCEPT
                   !.info.children.types = @ \union {type},
                   !.q.children = IF hidden THEN @ ELSE append(@, One),
                   !.info.fields = IF s.field = <<>> THEN @ ELSE WithTypes(@, s.field, types),
                   !.q.fields = IF s.field = <<>> THEN @
                                ELSE (s.field :> append(FieldOf(@, s.field, Zero),
                                        IF inner THEN child.children.quantity ELSE One)) @@ @,
                   !.q.without = IF named THEN append(@, One) ELSE @,
                   !.info.without.types = IF named THEN @ \union {type} ELSE @]
  IN  IF inner THEN inherit_hidden_child_info(next, child, s) ELSE next

\* The first pass leaves out productions with children that come later.
AddProduction(g, result, v, all_initialized, info, production) ==
  LET none == [fields |-> <<>>, children |-> Zero, without |-> Zero]
      acc  == FoldLeft(LAMBDA a, s : AddStep(g, result, a, s),
                       [info |-> [info EXCEPT !.multi = @ \/ Len(production.steps) > 1], q |-> none],
                       production.steps)
      ready == all_initialized \/ \A i \in DOMAIN production.steps : production.steps[i].symbol[2] < v
  IN  IF ~ready THEN acc.info
      ELSE [acc.info EXCEPT
              !.children.quantity = union(@, acc.q.children),
              !.without.quantity = union(@, acc.q.without),
              !.fields = [f \in DOMAIN @ |->
                            [@[f] EXCEPT !.quantity = union(@, FieldOf(acc.q.fields, f, Zero))]]]

InfoPass(g, result, all_initialized) ==
  FoldLeft(LAMBDA r, v :
             [r EXCEPT ![v] = FoldLeft(LAMBDA info, p : AddProduction(g, r, v, all_initialized, info,
                                                                      g.productions[p]),
                                       r[v], g.var_prods[v])],
           result, [v \in DOMAIN g.variables |-> v])

\* A change of multi alone does not ask for another pass.
Changed(old, new) ==
  \E v \in DOMAIN old : [new[v] EXCEPT !.multi = FALSE] # [old[v] EXCEPT !.multi = FALSE]

RECURSIVE FixedPoint(_, _, _)
FixedPoint(g, old, new) ==
  IF Changed(old, new) THEN FixedPoint(g, new, InfoPass(g, new, TRUE)) ELSE new

compute_variable_info_fixed_point(g) ==
  LET none == [v \in DOMAIN g.variables |-> NoVariableInfo]
  IN  FixedPoint(g, none, InfoPass(g, none, FALSE))

VariableInfoRefused(g, result) ==
  \/ \E s \in ToSet(g.supertypes) :
       \/ <<g.variables[s[2]].name, TRUE>> \in
            {g.default_aliases[x] : x \in DOMAIN g.default_aliases}
              \union UNION {{step.alias : step \in ToSet(g.productions[p].steps)} :
                              p \in UNION {ToSet(g.var_prods[v]) : v \in DOMAIN g.var_prods}}
       \/ result[s[2]].multi

strip_hidden_child_types(g, result) ==
  LET Visible(types) == {t \in types : child_type_is_visible(g, t)}
      Kept(fields)   == {f \in DOMAIN fields : Visible(fields[f].types) # {}}
  IN  [v \in DOMAIN result |->
         [result[v] EXCEPT
            !.children.types = IF non_terminal(v) \in ToSet(g.supertypes) THEN Visible(@) ELSE @,
            !.without.types = Visible(@),
            !.fields = [f \in Kept(@) |-> [@[f] EXCEPT !.types = Visible(@)]]]]

-----------------------------------------------------------------------------
(* The node types file                                                       *)

\* The names, and none, under which a symbol appears.
get_aliases_by_symbol(g) ==
  LET steps == UNION {ToSet(g.productions[p].steps) : p \in UNION {ToSet(l) : l \in ToSet(g.var_prods)}}
      Of(s) == (IF s \in DOMAIN g.default_aliases THEN {g.default_aliases[s]} ELSE {})
                 \union (IF s \in ToSet(g.extras) /\ s \notin DOMAIN g.default_aliases THEN {<<>>} ELSE {})
                 \union {IF x.alias # <<>> THEN x.alias ELSE Lookup(g.default_aliases, s) :
                           x \in {x \in steps : x.symbol = s}}
  IN  [s \in {x.symbol : x \in steps} \union ToSet(g.extras) \union {non_terminal(1)} |->
         IF s = non_terminal(1) THEN {<<>>} ELSE Of(s)]

NodeType(kind, named) == <<kind, named>>

child_type_to_node_type(g, t) ==
  IF t[1] = "alias" THEN NodeType(t[2], t[3])
  ELSE IF t[2] \in DOMAIN g.default_aliases
    THEN NodeType(g.default_aliases[t[2]][1], g.default_aliases[t[2]][2])
  ELSE NodeType(NameOf(g, t[2]), KindOf(g, t[2]) # Anonymous)

FieldJSON(multiple, required, types) ==
  [multiple |-> multiple, required |-> required, types |-> types]

populate_field_info_json(g, json, info) ==
  IF info.types = {} THEN [json EXCEPT !.required = FALSE]
  ELSE FieldJSON(json.multiple \/ info.quantity.multiple, json.required /\ info.quantity.required,
                 json.types \union {child_type_to_node_type(g, t) : t \in info.types})

\* Where a node type has an entry already, a field new to it is not required,
\* and neither is one that this rule lacks.
RegularEntry(g, old, info) ==
  LET exists == old # <<>>
      base   == IF exists THEN old ELSE [fields |-> <<>>, children |-> FieldJSON(FALSE, TRUE, {})]
      names  == DOMAIN info.fields
      Field(f) == FieldOf(base.fields, f, FieldJSON(FALSE, ~exists, {}))
  IN  [fields |-> [f \in DOMAIN base.fields \union names |->
                     IF f \in names THEN populate_field_info_json(g, Field(f), info.fields[f])
                     ELSE [base.fields[f] EXCEPT !.required = FALSE]],
       children |-> populate_field_info_json(g, base.children, info.without)]

AliasesOf(aliases, s) == IF s \in DOMAIN aliases THEN aliases[s] ELSE {}

\* The regular entries: <<variable, node type>> in the order they are merged.
RegularTypes(g, aliases, v) ==
  LET symbol == non_terminal(v)
      super  == symbol \in ToSet(g.supertypes)
      own    == IF KindOf(g, symbol) \in {Named, Anonymous}
                  THEN {NodeType(NameOf(g, symbol), KindOf(g, symbol) = Named)} ELSE {}
  IN  IF symbol \in ToSet(g.inline) THEN {}
      ELSE UNION {IF a # <<>> THEN {NodeType(a[1], a[2])} ELSE IF super THEN {} ELSE own :
                    a \in AliasesOf(aliases, symbol)}

build_regular_entries(g, aliases, infos) ==
  FoldLeft(LAMBDA acc, v :
             [n \in RegularTypes(g, aliases, v) |->
                RegularEntry(g, IF n \in DOMAIN acc THEN acc[n] ELSE <<>>, infos[v])] @@ acc,
           <<>>, [v \in DOMAIN g.variables |-> v])

\* The supertypes that have visible subtypes, and these.
SubtypeMap(g, infos) ==
  LET Super(s)    == NodeType(g.variables[s[2]].name, TRUE)
      Subtypes(s) == {child_type_to_node_type(g, t) : t \in infos[s[2]].children.types}
  IN  {<<Super(s), Subtypes(s)>> : s \in {s \in ToSet(g.supertypes) : Subtypes(s) # {}}}

\* A supertype cannot be sorted after itself.
RECURSIVE Below(_, _)
Below(map, types) ==
  LET more == UNION {m[2] : m \in {m \in map : m[1] \in types}}
  IN  IF more \subseteq types THEN types ELSE Below(map, types \union more)

SupertypeCycle(map) == \E m \in map : m[1] \in Below(map, m[2])

\* A supertype stands for its subtypes, those of subtypes first.
RECURSIVE Collapse(_, _)
Collapse(map, types) ==
  LET lowest == {m \in map : \A n \in map : n[1] \notin Below(map, m[2])}
      gone   == UNION {m[2] : m \in {m \in lowest : m[1] \in types}}
  IN  IF lowest = {} THEN types ELSE Collapse(map \ lowest, types \ gone)

apply_supertype_collapsing(entries, map) ==
  [n \in DOMAIN entries |->
     [entries[n] EXCEPT
        !.children = [@ EXCEPT !.types = Collapse(map, @)],
        !.fields = [f \in DOMAIN @ |-> [@[f] EXCEPT !.types = Collapse(map, @)]]]]

\* The node types of the visible tokens.
TokenTypes(g, aliases) ==
  UNION {{IF a # <<>> THEN NodeType(a[1], a[2]) ELSE NodeType(NameOf(g, s), KindOf(g, s) = Named) :
            a \in {a \in aliases[s] : a # <<>> \/ KindOf(g, s) \in {Named, Anonymous}}} :
          s \in {s \in DOMAIN aliases : ~is_non_terminal(s)}}

\* A leaf of the same name makes all children and fields optional.
build_token_entries(entries, tokens) ==
  [n \in DOMAIN entries \union tokens |->
     IF n \notin DOMAIN entries THEN [fields |-> <<>>, children |-> FieldJSON(FALSE, FALSE, {})]
     ELSE IF n \notin tokens THEN entries[n]
     ELSE [fields |-> [f \in DOMAIN entries[n].fields |-> [entries[n].fields[f] EXCEPT !.required = FALSE]],
           children |-> [entries[n].children EXCEPT !.required = FALSE]]]

generate_node_types(g, infos, aliases, map) ==
  [supertypes |-> map,
   entries |-> build_token_entries(
                 apply_supertype_collapsing(build_regular_entries(g, aliases, infos), map),
                 TokenTypes(g, aliases))]
=============================================================================
