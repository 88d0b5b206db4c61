----------------------------- MODULE MCParser ------------------------------
(***************************************************************************)
(* Small languages and documents to check module Parser with.              *)
(***************************************************************************)
EXTENDS Parser

CONSTANTS Alphabet,       \* of the documents of the grouping language
          MaxLength,      \* of these documents
          LanguageNames

-----------------------------------------------------------------------------
\* S -> S S | "(" S ")" | "a", with comments: every S S S is ambiguous.
\* 1 is a, 2 is (, 3 is ), 4 is a comment and 5 is S.
Grouping ==
  LET Pair == <<Reduce(5, 2, 0)>>
      Group == <<Reduce(5, 3, 0)>>
      Atom == <<Reduce(5, 1, 0)>>
      Operand(s) == (<<s, 1>> :> <<Shift(3)>>) @@ (<<s, 2>> :> <<Shift(5)>>)
      Always(s, actions) == [k \in {s} \X {0, 1, 2, 3} |-> actions]
      Extras == [k \in (0 .. 7) \X {4} |-> <<ShiftExtra>>]
      table ==
        Operand(1) @@ Operand(2) @@ Operand(5) @@ Operand(6)
          @@ (<<2, 0>> :> <<Accept>>)
          @@ (<<6, 3>> :> <<Shift(7)>>)
          @@ Always(3, Atom)
          @@ (<<4, 0>> :> Pair) @@ (<<4, 3>> :> Pair)
          @@ (<<4, 1>> :> Append(Pair, Shift(3))) @@ (<<4, 2>> :> Append(Pair, Shift(5)))
          @@ Always(7, Group)
          @@ Always(0, <<Recover>>)
          @@ Extras
  IN  [name |-> "grouping", root |-> 5, extras |-> {4}, token_count |-> 5,
       actions |-> table,
       gotos |-> (<<1, 5>> :> 2) @@ (<<2, 5>> :> 4) @@ (<<4, 5>> :> 4)
                   @@ (<<5, 5>> :> 6) @@ (<<6, 5>> :> 4),
       productions |-> {[symbol |-> 5, symbols |-> <<5, 5>>, precedence |-> 0],
                        [symbol |-> 5, symbols |-> <<2, 5, 3>>, precedence |-> 0],
                        [symbol |-> 5, symbols |-> <<1>>, precedence |-> 0]}]

\* S -> A "b" | B "b", A -> "a", B -> "a", where B has the higher precedence.
\* 1 is a, 2 is b, 3 is S, 4 is A and 5 is B.
Choice ==
  LET table ==
        (<<1, 1>> :> <<Shift(3)>>)
          @@ (<<2, 0>> :> <<Accept>>)
          @@ (<<3, 2>> :> <<Reduce(4, 1, 0), Reduce(5, 1, 1)>>)
          @@ (<<4, 2>> :> <<Shift(6)>>) @@ (<<5, 2>> :> <<Shift(7)>>)
          @@ (<<6, 0>> :> <<Reduce(3, 2, 0)>>) @@ (<<7, 0>> :> <<Reduce(3, 2, 0)>>)
          @@ [k \in {0} \X {0, 1, 2} |-> <<Recover>>]
  IN  [name |-> "choice", root |-> 3, extras |-> {}, token_count |-> 3,
       actions |-> table,
       gotos |-> (<<1, 3>> :> 2) @@ (<<1, 4>> :> 4) @@ (<<1, 5>> :> 5),
       productions |-> {[symbol |-> 3, symbols |-> <<4, 2>>, precedence |-> 0],
                        [symbol |-> 3, symbols |-> <<5, 2>>, precedence |-> 0],
                        [symbol |-> 4, symbols |-> <<1>>, precedence |-> 0],
                        [symbol |-> 5, symbols |-> <<1>>, precedence |-> 1]}]

Everything == {1, 2, 3, 4, Blank, Unknown}

MCLanguages == {l \in {Grouping, Choice} : l.name \in LanguageNames}

MCDocuments ==
  ("grouping" :> BoundedSeq(Alphabet, MaxLength))
    @@ ("choice" :> BoundedSeq({1, 2, Blank, Unknown}, 3))
=============================================================================
