----------------------- MODULE ConfigurationsProofs -----------------------
(***************************************************************************)
(* Proofs about Configurations, for any directories with any number of     *)
(* grammars, query files, captures and names.  What the model folds over a *)
(* sequence is described with instances of FoldInduction.                  *)
(***************************************************************************)
EXTENDS Configurations, FiniteSetTheorems, SequenceTheorems, WellFoundedInduction, TLAPS

-----------------------------------------------------------------------------
(* Sequences of anything                                                     *)

IsSeq(s) == s \in Seq({s[i] : i \in DOMAIN s})

\* Whatever a sequence is one of, it is a sequence.
LEMMA AnySeq ==
  ASSUME NEW S, NEW s \in Seq(S)
  PROVE  IsSeq(s) /\ Len(s) \in Nat /\ DOMAIN s = 1..Len(s)
<1>1. Len(s) \in Nat /\ s \in [1..Len(s) -> S] /\ DOMAIN s = 1..Len(s) BY LenProperties
<1>2. s \in [1..Len(s) -> {s[i] : i \in DOMAIN s}] BY <1>1
<1>3. QED BY <1>1, <1>2, SeqDef DEF IsSeq

\* Append, whatever is appended.
LEMMA AppendFacts ==
  ASSUME NEW s, IsSeq(s), NEW e
  PROVE  /\ IsSeq(Append(s, e)) /\ Len(s) \in Nat /\ DOMAIN s = 1..Len(s)
         /\ Len(Append(s, e)) = Len(s) + 1 /\ DOMAIN Append(s, e) = 1..(Len(s) + 1)
         /\ \A i \in 1..Len(s) : Append(s, e)[i] = s[i]
         /\ Append(s, e)[Len(s) + 1] = e
<1> DEFINE S == {s[i] : i \in DOMAIN s}
           T == S \cup {e}
<1>1. s \in Seq(S) BY DEF IsSeq
<1>2. s \in Seq(T) BY <1>1, SeqMonotonic
<1>3. e \in T OBVIOUS
<1> HIDE DEF T, S
<1>4. Append(s, e) \in Seq(T) /\ Len(Append(s, e)) = Len(s) + 1
      /\ (\A i \in 1..Len(s) : Append(s, e)[i] = s[i]) /\ Append(s, e)[Len(s) + 1] = e
  BY <1>2, <1>3, AppendProperties
<1>5. QED BY <1>2, <1>4, AnySeq

\* The replacement of one element.
LEMMA ExceptFacts ==
  ASSUME NEW s, IsSeq(s), NEW k \in 1..Len(s), NEW e
  PROVE  LET t == [s EXCEPT ![k] = e]
         IN  /\ IsSeq(t) /\ Len(s) \in Nat /\ DOMAIN s = 1..Len(s)
             /\ Len(t) = Len(s) /\ DOMAIN t = 1..Len(s)
             /\ \A i \in 1..Len(s) : t[i] = IF i = k THEN e ELSE s[i]
<1> DEFINE S == {s[i] : i \in DOMAIN s}
           T == S \cup {e}
           t == [s EXCEPT ![k] = e]
<1>1. s \in Seq(S) BY DEF IsSeq
<1>2. s \in Seq(T) BY <1>1, SeqMonotonic
<1>3. e \in T OBVIOUS
<1> HIDE DEF T, S
<1>4. t \in Seq(T) /\ Len(t) = Len(s) /\ \A i \in 1..Len(s) : t[i] = IF i = k THEN e ELSE s[i]
  BY <1>2, <1>3, ExceptSeq
<1> HIDE DEF t
<1>5. IsSeq(t) /\ DOMAIN t = 1..Len(s) /\ Len(s) \in Nat /\ DOMAIN s = 1..Len(s)
  BY <1>2, <1>4, AnySeq
<1>6. QED BY <1>4, <1>5 DEF t

\* The empty sequence.
LEMMA EmptyIsSeq == IsSeq(<<>>) /\ Len(<<>>) = 0 /\ DOMAIN <<>> = {}
<1>1. <<>> \in Seq({}) BY EmptySeq
<1>2. IsSeq(<<>>) /\ DOMAIN <<>> = 1..0 BY <1>1, AnySeq
<1>3. QED BY <1>2

-----------------------------------------------------------------------------
(* The registry                                                              *)

IsLanguage(l) == l = [path |-> l.path, loaded |-> l.loaded]

\* A configuration is that of a grammar of its directory.
IsConfig(c) ==
  /\ c = [root |-> c.root, language |-> c.language, path |-> c.path, scope |-> c.scope,
          file_types |-> c.file_types, content |-> c.content, first_line |-> c.first_line,
          injection |-> c.injection, queries |-> c.queries, highlight |-> c.highlight, tags |-> c.tags]
  /\ c.root \in Directories
  /\ \E g \in GrammarsAt(c.root) :
       c.file_types = g.file_types /\ c.content = g.content /\ c.queries = g.queries

LanguagesOK(languages, cs) ==
  \A i \in DOMAIN cs :
    /\ cs[i].language \in DOMAIN languages
    /\ languages[cs[i].language].path = <<cs[i].root, cs[i].path>>

TypesOK(types, cs) ==
  /\ types = [k \in DOMAIN types |-> types[k]]
  /\ \A k \in DOMAIN types :
       /\ IsSeq(types[k]) /\ DOMAIN types[k] # {}
       /\ ToSet(types[k]) = {i \in DOMAIN cs : k \in ToSet(cs[i].file_types)}
       /\ \A m, n \in DOMAIN types[k] : m < n => types[k][m] < types[k][n]
  /\ \A i \in DOMAIN cs : \A t \in ToSet(cs[i].file_types) : t \in DOMAIN types

LinesOK(lines, cs) ==
  /\ lines = [l \in DOMAIN lines |-> lines[l]] /\ IsFiniteSet(DOMAIN lines)
  /\ \A l \in DOMAIN lines : IsSeq(lines[l])
  /\ \A i \in DOMAIN cs : cs[i].first_line # "" =>
       cs[i].first_line \in DOMAIN lines /\ i \in ToSet(lines[cs[i].first_line])

Shaped(r) ==
  /\ r = [languages |-> r.languages, configurations |-> r.configurations, types |-> r.types,
          lines |-> r.lines, current |-> r.current]
  /\ IsSeq(r.languages) /\ \A i \in DOMAIN r.languages : IsLanguage(r.languages[i])
  /\ IsSeq(r.configurations) /\ \A i \in DOMAIN r.configurations : IsConfig(r.configurations[i])

RegistryOK(r) ==
  /\ Shaped(r)
  /\ LanguagesOK(r.languages, r.configurations)
  /\ TypesOK(r.types, r.configurations)
  /\ LinesOK(r.lines, r.configurations)

\* The index of file types after a configuration with the given ones was added.
Extended(types, id, new) ==
  [k \in DOMAIN types \cup new |->
     IF k \in new THEN Append(IF k \in DOMAIN types THEN types[k] ELSE <<>>, id) ELSE types[k]]

TypesOp(types, id, ts, index, t) == Pushed(index, t, id)
TypesSoFar(types, id, ts, k, index) == index = Extended(types, id, {ts[j] : j \in 1..k})
TypesFold == INSTANCE FoldInduction WITH Op <- TypesOp, P <- TypesSoFar

\* Append to something that has no elements.
LEMMA AppendEmpty == ASSUME NEW e PROVE Append(<<>>, e) = <<e>>
OBVIOUS

\* One file type more.
LEMMA PushedStep ==
  ASSUME NEW types, NEW id, NEW new, NEW t, t \notin new,
         types = [k \in DOMAIN types |-> types[k]]
  PROVE  Pushed(Extended(types, id, new), t, id) = Extended(types, id, new \cup {t})
<1> DEFINE e == Extended(types, id, new)
           f == Extended(types, id, new \cup {t})
<1>1. DOMAIN e = DOMAIN types \cup new /\ DOMAIN f = DOMAIN types \cup new \cup {t}
  BY DEF Extended
<1>2. \A k \in DOMAIN e : e[k] = IF k \in new THEN Append(IF k \in DOMAIN types THEN types[k] ELSE <<>>, id) ELSE types[k]
  BY DEF Extended
<1>3. \A k \in DOMAIN f : f[k] = IF k \in new \cup {t} THEN Append(IF k \in DOMAIN types THEN types[k] ELSE <<>>, id) ELSE types[k]
  BY DEF Extended
<1>4. e = [k \in DOMAIN e |-> e[k]] /\ f = [k \in DOMAIN f |-> f[k]] BY DEF Extended
<1> HIDE DEF e, f
<1>5. CASE t \in DOMAIN e
  <2>1. t \in DOMAIN types BY <1>1, <1>5
  <2>2. Pushed(e, t, id) = [e EXCEPT ![t] = Append(e[t], id)] BY <1>5 DEF Pushed
  <2>3. DOMAIN e = DOMAIN f BY <1>1, <1>5
  <2>4. f[t] = Append(e[t], id) BY <1>1, <1>2, <1>3, <2>1
  <2>5. \A k \in DOMAIN f : k # t => f[k] = e[k] BY <1>2, <1>3, <2>3
  <2>6. [e EXCEPT ![t] = Append(e[t], id)] = f BY <1>4, <2>3, <2>4, <2>5
  <2>7. QED BY <2>2, <2>6 DEF e, f
<1>6. CASE t \notin DOMAIN e
  <2>1. t \notin DOMAIN types BY <1>1, <1>6
  <2>2. Pushed(e, t, id) = [k \in DOMAIN e \cup {t} |-> IF k = t THEN <<id>> ELSE e[k]] BY <1>6 DEF Pushed
  <2>3. DOMAIN e \cup {t} = DOMAIN f BY <1>1
  <2>4. f[t] = <<id>> BY <1>1, <1>3, <2>1, AppendEmpty
  <2>5. \A k \in DOMAIN f : k # t => f[k] = e[k] BY <1>2, <1>3, <2>3
  <2>6. f = [k \in DOMAIN e \cup {t} |-> IF k = t THEN <<id>> ELSE e[k]] BY <1>4, <2>3, <2>4, <2>5
  <2>7. QED BY <2>2, <2>6 DEF e, f
<1>7. QED BY <1>5, <1>6

\* All file types of a grammar.
LEMMA TypesFolded ==
  ASSUME NEW types, NEW id, NEW ts, IsSeq(ts),
         \A i, j \in DOMAIN ts : ts[i] = ts[j] => i = j,
         types = [k \in DOMAIN types |-> types[k]]
  PROVE  PushedAll(types, ts, id) = Extended(types, id, ToSet(ts))
<1>1. PICK n : n = Len(ts) OBVIOUS
<1>2. n \in Nat /\ DOMAIN ts = 1..n BY <1>1, AnySeq DEF IsSeq
<1>3. PushedAll(types, ts, id) = TypesFold!Fold(types, id, ts, types, ts)
  BY Zenon DEF PushedAll, TypesFold!Fold, TypesOp, FoldLeft, MapThenFoldSet, Max,
               TypesFold!FoldLeft, TypesFold!MapThenFoldSet, TypesFold!Max
<1>4. TypesSoFar(types, id, ts, 0, types)
  <2>1. {ts[j] : j \in 1..0} = {} OBVIOUS
  <2>2. types = Extended(types, id, {}) BY DEF Extended
  <2>3. QED BY <2>1, <2>2 DEF TypesSoFar
<1>5. ASSUME NEW k \in 1..n, NEW x, TypesSoFar(types, id, ts, k - 1, x)
      PROVE  TypesSoFar(types, id, ts, k, TypesOp(types, id, ts, x, ts[k]))
  <2>1. PICK new : new = {ts[j] : j \in 1..(k - 1)} OBVIOUS
  <2>2. ts[k] \notin new
    <3>1. SUFFICES ASSUME NEW j \in 1..(k - 1), ts[j] = ts[k] PROVE FALSE BY <2>1
    <3>2. j \in DOMAIN ts /\ k \in DOMAIN ts /\ j # k BY <1>2
    <3>3. QED BY <3>1, <3>2
  <2>3. {ts[j] : j \in 1..k} = new \cup {ts[k]} BY <1>2, <2>1
  <2>4. x = Extended(types, id, new) BY <1>5, <2>1 DEF TypesSoFar
  <2>5. Pushed(x, ts[k], id) = Extended(types, id, new \cup {ts[k]}) BY <2>2, <2>4, PushedStep
  <2>6. QED BY <2>3, <2>5 DEF TypesSoFar, TypesOp
<1> HIDE DEF TypesSoFar, TypesOp
<1>6. TypesSoFar(types, id, ts, n, TypesFold!Fold(types, id, ts, types, ts))
  BY <1>2, <1>4, <1>5, TypesFold!FoldKeeps
<1>7. ToSet(ts) = {ts[j] : j \in 1..n} BY <1>2 DEF ToSet
<1>8. QED BY <1>3, <1>6, <1>7 DEF TypesSoFar

\* The index has the configuration that is added.
LEMMA TypesAdded ==
  ASSUME NEW types, NEW cs, TypesOK(types, cs), IsSeq(cs), NEW c, IsSeq(c.file_types),
         NEW n, n = Len(cs) + 1
  PROVE  TypesOK(Extended(types, n, ToSet(c.file_types)), Append(cs, c))
<1> DEFINE new == ToSet(c.file_types)
           e == Extended(types, n, new)
           ds == Append(cs, c)
<1>1. /\ Len(cs) \in Nat /\ DOMAIN cs = 1..Len(cs) /\ DOMAIN ds = 1..n
      /\ (\A i \in 1..Len(cs) : ds[i] = cs[i]) /\ ds[n] = c
  BY AppendFacts
<1>2. DOMAIN ds = DOMAIN cs \cup {n} /\ n \notin DOMAIN cs /\ n \in Nat BY <1>1
<1>3. e = [k \in DOMAIN e |-> e[k]] /\ DOMAIN e = DOMAIN types \cup new BY DEF Extended
<1>4. \A k \in DOMAIN e :
        e[k] = IF k \in new THEN Append(IF k \in DOMAIN types THEN types[k] ELSE <<>>, n) ELSE types[k]
  BY DEF Extended
<1> HIDE DEF e, ds
<1>5. ASSUME NEW k \in DOMAIN e
      PROVE  /\ IsSeq(e[k]) /\ DOMAIN e[k] # {}
             /\ ToSet(e[k]) = {i \in DOMAIN ds : k \in ToSet(ds[i].file_types)}
             /\ \A m, p \in DOMAIN e[k] : m < p => e[k][m] < e[k][p]
  <2> DEFINE old == IF k \in DOMAIN types THEN types[k] ELSE <<>>
             had == {i \in DOMAIN cs : k \in ToSet(cs[i].file_types)}
  <2>1. IsSeq(old) /\ ToSet(old) = had /\ \A m, p \in DOMAIN old : m < p => old[m] < old[p]
    <3>1. CASE k \in DOMAIN types BY <3>1 DEF TypesOK
    <3>2. CASE k \notin DOMAIN types
      <4>1. had = {} BY <3>2 DEF TypesOK
      <4>2. ToSet(<<>>) = {} BY EmptyIsSeq DEF ToSet
      <4>3. QED BY <3>2, <4>1, <4>2, EmptyIsSeq
    <3>3. QED BY <3>1, <3>2
  <2>2. {i \in DOMAIN ds : k \in ToSet(ds[i].file_types)} = had \cup (IF k \in new THEN {n} ELSE {})
    BY <1>1, <1>2
  <2>3. \A i \in had : i < n BY <1>1
  <2> HIDE DEF old, had
  <2>4. CASE k \in new
    <3>1. e[k] = Append(old, n) BY <1>4, <2>4 DEF old
    <3>2. /\ IsSeq(e[k]) /\ Len(old) \in Nat /\ DOMAIN old = 1..Len(old)
          /\ DOMAIN e[k] = 1..(Len(old) + 1)
          /\ (\A i \in 1..Len(old) : e[k][i] = old[i]) /\ e[k][Len(old) + 1] = n
      BY <2>1, <3>1, AppendFacts
    <3>3. ToSet(e[k]) = ToSet(old) \cup {n} BY <3>2 DEF ToSet
    <3>4. \A m, p \in DOMAIN e[k] : m < p => e[k][m] < e[k][p]
      <4>1. SUFFICES ASSUME NEW m \in DOMAIN e[k], NEW p \in DOMAIN e[k], m < p PROVE e[k][m] < e[k][p]
        OBVIOUS
      <4>2. m \in DOMAIN old /\ e[k][m] = old[m] BY <3>2, <4>1
      <4>3. CASE p \in DOMAIN old BY <2>1, <3>2, <4>1, <4>2, <4>3
      <4>4. CASE p \notin DOMAIN old
        <5>1. e[k][p] = n BY <3>2, <4>4
        <5>2. old[m] \in had BY <2>1, <4>2 DEF ToSet
        <5>3. QED BY <2>3, <4>2, <5>1, <5>2
      <4>5. QED BY <4>3, <4>4
    <3>5. Len(old) + 1 \in DOMAIN e[k] BY <3>2
    <3>6. QED BY <2>1, <2>2, <2>4, <3>2, <3>3, <3>4, <3>5
  <2>5. CASE k \notin new
    <3>1. e[k] = old /\ DOMAIN old # {} BY <1>3, <1>4, <2>5 DEF old, TypesOK
    <3>2. QED BY <2>1, <2>2, <2>5, <3>1
  <2>6. QED BY <2>4, <2>5
<1>6. ASSUME NEW i \in DOMAIN ds, NEW t \in ToSet(ds[i].file_types) PROVE t \in DOMAIN e
  <2>1. CASE i \in DOMAIN cs BY <1>1, <1>3, <2>1, <1>6 DEF TypesOK
  <2>2. CASE i = n BY <1>1, <1>3, <2>2, <1>6
  <2>3. QED BY <1>2, <2>1, <2>2
<1>7. TypesOK(e, ds) BY <1>3, <1>5, <1>6 DEF TypesOK
<1>8. QED BY <1>7 DEF e, ds

\* The index of first lines has the configuration that is added.
LEMMA LinesAdded ==
  ASSUME NEW lines, NEW cs, LinesOK(lines, cs), IsSeq(cs), NEW c, NEW n, n = Len(cs) + 1
  PROVE  LinesOK(IF c.first_line = "" THEN lines ELSE Pushed(lines, c.first_line, n), Append(cs, c))
<1>0. PICK l : l = c.first_line OBVIOUS
<1> DEFINE e == Pushed(lines, l, n)
           ds == Append(cs, c)
<1>1. /\ Len(cs) \in Nat /\ DOMAIN cs = 1..Len(cs) /\ DOMAIN ds = 1..n
      /\ (\A i \in 1..Len(cs) : ds[i] = cs[i]) /\ ds[n] = c
  BY AppendFacts
<1>2. DOMAIN ds = DOMAIN cs \cup {n} BY <1>1
<1> HIDE DEF ds
<1>3. CASE l = ""
  <2>1. \A i \in DOMAIN ds : ds[i].first_line # "" => i \in DOMAIN cs /\ ds[i] = cs[i] BY <1>0, <1>1, <1>2, <1>3
  <2>2. LinesOK(lines, ds) BY <2>1 DEF LinesOK
  <2>3. QED BY <1>0, <1>3, <2>2 DEF ds
<1>4. CASE l # ""
  <2> DEFINE old == IF l \in DOMAIN lines THEN lines[l] ELSE <<>>
  <2>1. IsSeq(old) BY EmptyIsSeq DEF LinesOK
  <2>2. /\ e = [k \in DOMAIN e |-> e[k]] /\ DOMAIN e = DOMAIN lines \cup {l}
        /\ e[l] = Append(old, n) /\ \A k \in DOMAIN lines : k # l => e[k] = lines[k]
    <3>1. CASE l \in DOMAIN lines
      <4>1. e = [lines EXCEPT ![l] = Append(lines[l], n)] BY <3>1 DEF Pushed
      <4>2. lines = [k \in DOMAIN lines |-> lines[k]] BY DEF LinesOK
      <4> HIDE DEF e
      <4>3. QED BY <3>1, <4>1, <4>2
    <3>2. CASE l \notin DOMAIN lines
      <4>1. e = [k \in DOMAIN lines \cup {l} |-> IF k = l THEN <<n>> ELSE lines[k]] BY <3>2 DEF Pushed
      <4> HIDE DEF e
      <4>2. QED BY <3>2, <4>1, AppendEmpty
    <3>3. QED BY <3>1, <3>2
  <2> HIDE DEF e
  <2>3. /\ IsSeq(e[l]) /\ Len(old) \in Nat /\ DOMAIN old = 1..Len(old) /\ DOMAIN e[l] = 1..(Len(old) + 1)
        /\ (\A i \in 1..Len(old) : e[l][i] = old[i]) /\ e[l][Len(old) + 1] = n
    <3> HIDE DEF old
    <3>1. QED BY <2>1, <2>2, AppendFacts
  <2>4. ToSet(e[l]) = ToSet(old) \cup {n} BY <2>3 DEF ToSet
  <2>5. \A k \in DOMAIN e : IsSeq(e[k]) BY <2>2, <2>3 DEF LinesOK
  <2>6. ASSUME NEW i \in DOMAIN ds, ds[i].first_line # ""
        PROVE  ds[i].first_line \in DOMAIN e /\ i \in ToSet(e[ds[i].first_line])
    <3>1. CASE i = n BY <1>0, <1>1, <2>2, <2>4, <3>1
    <3>2. CASE i \in DOMAIN cs
      <4>1. ds[i] = cs[i] /\ cs[i].first_line \in DOMAIN lines /\ i \in ToSet(lines[cs[i].first_line])
        BY <1>1, <2>6, <3>2 DEF LinesOK
      <4>2. CASE cs[i].first_line = l BY <2>2, <2>4, <4>1, <4>2
      <4>3. CASE cs[i].first_line # l BY <2>2, <4>1, <4>3
      <4>4. QED BY <4>2, <4>3
    <3>3. QED BY <1>2, <3>1, <3>2
  <2>7. IsFiniteSet(DOMAIN e)
    <3>1. IsFiniteSet(DOMAIN lines) BY DEF LinesOK
    <3>2. IsFiniteSet(DOMAIN lines \cup {l}) BY <3>1, FS_AddElement
    <3>3. QED BY <2>2, <3>2
  <2>8. LinesOK(e, ds) BY <2>2, <2>5, <2>6, <2>7 DEF LinesOK
  <2>9. QED BY <1>0, <1>4, <2>8 DEF e, ds
<1>5. QED BY <1>3, <1>4

\* The language of a grammar, new or known.
LEMMA LanguageFacts ==
  ASSUME NEW languages, IsSeq(languages), NEW first, NEW path
  PROVE  LET known == LanguageOf(languages, first, path)
         IN  known = 0 \/ (known \in DOMAIN languages /\ languages[known].path = path)
<1> DEFINE I == {i \in 1..Len(languages) : languages[i].path = path}
<1>1. SelectLastInSeq(languages, LAMBDA l : l.path = path) = IF I # {} THEN Max(I) ELSE 0
  BY DEF SelectLastInSeq
<1>2. Len(languages) \in Nat /\ DOMAIN languages = 1..Len(languages) BY AnySeq DEF IsSeq
<1>3. I # {} => Max(I) \in I
  <2>1. SUFFICES ASSUME I # {} PROVE \E x \in I : \A y \in I : x >= y BY DEF Max
  <2> DEFINE B == {b \in Nat : \A i \in I : i <= b}
  <2>2. B \subseteq Nat /\ Len(languages) \in B BY <1>2
  <2>3. PICK b \in B : \A m \in 0..(b - 1) : m \notin B
    <3> HIDE DEF B
    <3>1. QED BY <2>2, TypesFold!LeastNumber
  <2>4. b \in Nat /\ \A i \in I : i <= b BY <2>3
  <2>5. b \in I
    <3>1. SUFFICES ASSUME b \notin I PROVE FALSE OBVIOUS
    <3>2. \A i \in I : i \in Nat /\ i >= 1 /\ i <= b - 1 BY <1>2, <2>4, <3>1
    <3>3. b - 1 \in 0..(b - 1) BY <2>1, <2>4, <3>2
    <3>4. b - 1 \in B BY <3>2, <3>3
    <3>5. QED BY <2>3, <3>3, <3>4
  <2>6. QED BY <2>4, <2>5, <1>2
<1>4. \A i \in I : i \in DOMAIN languages /\ languages[i].path = path BY <1>2
<1> HIDE DEF I
<1>5. QED BY <1>1, <1>3, <1>4 DEF LanguageOf

\* A grammar is added, or the registry stays as it is.
AddedTo(r, dir, first, set_current, g) ==
  LET path == <<dir, g.path>>
      known == LanguageOf(r.languages, first, path)
      id == IF known = 0 THEN Len(r.languages) + 1 ELSE known
      n == Len(r.configurations) + 1
  IN  [ languages |-> IF known = 0 THEN Append(r.languages, NewLanguage(path)) ELSE r.languages,
        configurations |-> Append(r.configurations, NewConfiguration(dir, id, g)),
        types |-> Extended(r.types, n, ToSet(g.file_types)),
        lines |-> IF g.first_line = "" THEN r.lines ELSE Pushed(r.lines, g.first_line, n),
        current |-> IF set_current /\ r.current = 0 THEN n ELSE r.current ]

IsFound(found) == found = [registry |-> found.registry, ok |-> found.ok]

\* What a grammar adds.
LEMMA AddGrammarIs ==
  ASSUME GrammarsGiven, NEW found, IsFound(found), RegistryOK(found.registry),
         NEW dir \in Directories, NEW first, NEW set_current, NEW g \in GrammarsAt(dir)
  PROVE  LET f == AddGrammar(found, dir, first, set_current, g)
         IN  /\ IsFound(f)
             /\ f.registry \in {found.registry, AddedTo(found.registry, dir, first, set_current, g)}
<1>1. PICK r : r = found.registry OBVIOUS
<1>2. PICK path : path = <<dir, g.path>> OBVIOUS
<1>3. PICK known : known = LanguageOf(r.languages, first, path) OBVIOUS
<1>4. PICK n : n = Len(r.configurations) + 1 OBVIOUS
<1>5. PICK types : types = PushedAll(r.types, g.file_types, n) OBVIOUS
<1>6. types = Extended(r.types, n, ToSet(g.file_types))
  <2>1. g.file_types \in Seq(ToSet(g.file_types))
        /\ \A i, j \in DOMAIN g.file_types : g.file_types[i] = g.file_types[j] => i = j
    BY DEF GrammarsGiven
  <2>2. IsSeq(g.file_types) BY <2>1, AnySeq
  <2>3. r.types = [k \in DOMAIN r.types |-> r.types[k]] BY <1>1 DEF RegistryOK, TypesOK
  <2>4. QED BY <1>5, <2>1, <2>2, <2>3, TypesFolded
<1> DEFINE id == IF known = 0 THEN Len(r.languages) + 1 ELSE known
           added == [
             languages |-> IF known = 0 THEN Append(r.languages, NewLanguage(path)) ELSE r.languages,
             configurations |-> Append(r.configurations, NewConfiguration(dir, id, g)),
             types |-> types,
             lines |-> IF g.first_line = "" THEN r.lines ELSE Pushed(r.lines, g.first_line, n),
             current |-> IF set_current /\ r.current = 0 THEN n ELSE r.current ]
<1>7. AddGrammar(found, dir, first, set_current, g)
      = IF ~found.ok \/ (known = 0 /\ g.outside) THEN [found EXCEPT !.ok = FALSE]
        ELSE [found EXCEPT !.registry = added]
  BY <1>1, <1>2, <1>3, <1>4, <1>5 DEF AddGrammar
<1>8. added = AddedTo(r, dir, first, set_current, g) BY <1>2, <1>3, <1>4, <1>6 DEF AddedTo
<1> HIDE DEF added
<1>9. QED BY <1>1, <1>7, <1>8 DEF IsFound

\* The highlight cells are those of the registry as it is, or not made yet.
Cells == {registry.configurations[i].highlight : i \in DOMAIN registry.configurations}
CellsFrom(r) == \A i \in DOMAIN r.configurations : r.configurations[i].highlight \in Cells \cup {NoConfig}
Good(r) == RegistryOK(r) /\ CellsFrom(r)

\* A registry to which a grammar was added is a good one.
LEMMA AddedGood ==
  ASSUME GrammarsGiven, NEW r, Good(r),
         NEW dir \in Directories, NEW first, NEW set_current, NEW g \in GrammarsAt(dir)
  PROVE  Good(AddedTo(r, dir, first, set_current, g))
<1>1. PICK path : path = <<dir, g.path>> OBVIOUS
<1>2. PICK known : known = LanguageOf(r.languages, first, path) OBVIOUS
<1>3. PICK id : id = IF known = 0 THEN Len(r.languages) + 1 ELSE known OBVIOUS
<1>4. PICK n : n = Len(r.configurations) + 1 OBVIOUS
<1>5. PICK c : c = NewConfiguration(dir, id, g) OBVIOUS
<1>6. PICK languages : languages = IF known = 0 THEN Append(r.languages, NewLanguage(path)) ELSE r.languages
  OBVIOUS
<1>7. PICK cs : cs = Append(r.configurations, c) OBVIOUS
<1>8. PICK types : types = Extended(r.types, n, ToSet(g.file_types)) OBVIOUS
<1>9. PICK lines : lines = IF g.first_line = "" THEN r.lines ELSE Pushed(r.lines, g.first_line, n) OBVIOUS
<1>10. PICK q : q = AddedTo(r, dir, first, set_current, g) OBVIOUS
<1>11. /\ q = [languages |-> q.languages, configurations |-> q.configurations, types |-> q.types,
               lines |-> q.lines, current |-> q.current]
       /\ q.languages = languages /\ q.configurations = cs /\ q.types = types /\ q.lines = lines
  BY <1>1, <1>2, <1>3, <1>4, <1>5, <1>6, <1>7, <1>8, <1>9, <1>10 DEF AddedTo
<1>12. /\ c = [root |-> c.root, language |-> c.language, path |-> c.path, scope |-> c.scope,
               file_types |-> c.file_types, content |-> c.content, first_line |-> c.first_line,
               injection |-> c.injection, queries |-> c.queries, highlight |-> c.highlight, tags |-> c.tags]
       /\ c.root = dir /\ c.language = id /\ c.path = g.path /\ c.file_types = g.file_types
       /\ c.content = g.content /\ c.first_line = g.first_line /\ c.queries = g.queries /\ c.highlight = NoConfig
  BY <1>5 DEF NewConfiguration
<1>13. IsConfig(c) BY <1>12 DEF IsConfig
<1>14. /\ IsSeq(r.languages) /\ IsSeq(r.configurations)
       /\ LanguagesOK(r.languages, r.configurations) /\ TypesOK(r.types, r.configurations)
       /\ LinesOK(r.lines, r.configurations)
       /\ (\A i \in DOMAIN r.languages : IsLanguage(r.languages[i]))
       /\ \A i \in DOMAIN r.configurations : IsConfig(r.configurations[i])
  BY DEF Good, RegistryOK, Shaped
<1>15. /\ IsSeq(cs) /\ Len(r.configurations) \in Nat /\ DOMAIN r.configurations = 1..Len(r.configurations)
       /\ DOMAIN cs = 1..n /\ (\A i \in 1..Len(r.configurations) : cs[i] = r.configurations[i]) /\ cs[n] = c
  BY <1>4, <1>7, <1>14, AppendFacts
<1>16. DOMAIN cs = DOMAIN r.configurations \cup {n} BY <1>4, <1>15
<1>17. /\ IsSeq(languages) /\ (\A i \in DOMAIN languages : IsLanguage(languages[i]))
       /\ (\A i \in DOMAIN r.languages : i \in DOMAIN languages /\ languages[i] = r.languages[i])
       /\ id \in DOMAIN languages /\ languages[id].path = path
  <2>1. CASE known = 0
    <3>1. languages = Append(r.languages, NewLanguage(path)) /\ id = Len(r.languages) + 1
      BY <1>3, <1>6, <2>1
    <3>2. /\ IsSeq(languages) /\ Len(r.languages) \in Nat /\ DOMAIN r.languages = 1..Len(r.languages)
          /\ DOMAIN languages = 1..id
          /\ (\A i \in 1..Len(r.languages) : languages[i] = r.languages[i]) /\ languages[id] = NewLanguage(path)
      BY <1>14, <3>1, AppendFacts
    <3>3. IsLanguage(NewLanguage(path)) /\ NewLanguage(path).path = path BY DEF IsLanguage, NewLanguage
    <3>4. \A i \in DOMAIN languages : i = id \/ i \in DOMAIN r.languages BY <3>1, <3>2
    <3>5. QED BY <1>14, <3>1, <3>2, <3>3, <3>4
  <2>2. CASE known # 0
    <3>1. languages = r.languages /\ id = known BY <1>3, <1>6, <2>2
    <3>2. known \in DOMAIN r.languages /\ r.languages[known].path = path
      BY <1>2, <1>14, <2>2, LanguageFacts
    <3>3. QED BY <1>14, <3>1, <3>2
  <2>3. QED BY <2>1, <2>2
<1>18. Shaped(q) BY <1>11, <1>13, <1>14, <1>15, <1>16, <1>17 DEF Shaped
<1>19. LanguagesOK(languages, cs)
  <2>1. SUFFICES ASSUME NEW i \in DOMAIN cs
                 PROVE  cs[i].language \in DOMAIN languages /\ languages[cs[i].language].path = <<cs[i].root, cs[i].path>>
    BY DEF LanguagesOK
  <2>2. CASE i = n BY <1>1, <1>12, <1>15, <1>17, <2>2
  <2>3. CASE i \in DOMAIN r.configurations
    <3>1. cs[i] = r.configurations[i] BY <1>15, <2>3
    <3>2. QED BY <1>14, <1>17, <2>3, <3>1 DEF LanguagesOK
  <2>4. QED BY <1>16, <2>2, <2>3
<1>20. TypesOK(types, cs)
  <2>1. IsSeq(c.file_types) BY <1>12, AnySeq DEF GrammarsGiven
  <2>2. QED BY <1>4, <1>7, <1>8, <1>12, <1>14, <2>1, TypesAdded
<1>21. LinesOK(lines, cs)
  <2>1. LinesOK(IF c.first_line = "" THEN r.lines ELSE Pushed(r.lines, c.first_line, n), Append(r.configurations, c))
    BY <1>4, <1>14, LinesAdded
  <2>2. QED BY <1>7, <1>9, <1>12, <2>1
<1>22. CellsFrom(q)
  <2>1. SUFFICES ASSUME NEW i \in DOMAIN cs PROVE cs[i].highlight \in Cells \cup {NoConfig}
    BY <1>11 DEF CellsFrom
  <2>2. CASE i = n BY <1>12, <1>15, <2>2
  <2>3. CASE i \in DOMAIN r.configurations BY <1>15, <2>3 DEF Good, CellsFrom
  <2>4. QED BY <1>16, <2>2, <2>3
<1>23. QED BY <1>10, <1>11, <1>18, <1>19, <1>20, <1>21, <1>22 DEF Good, RegistryOK

\* Whether a grammar is added or not.
LEMMA AddGrammarGood ==
  ASSUME GrammarsGiven, NEW found, IsFound(found), Good(found.registry),
         NEW dir \in Directories, NEW first, NEW set_current, NEW g \in GrammarsAt(dir)
  PROVE  LET f == AddGrammar(found, dir, first, set_current, g) IN IsFound(f) /\ Good(f.registry)
<1>1. RegistryOK(found.registry) BY DEF Good
<1>2. PICK f : f = AddGrammar(found, dir, first, set_current, g) OBVIOUS
<1>3. IsFound(f) /\ f.registry \in {found.registry, AddedTo(found.registry, dir, first, set_current, g)}
  BY <1>1, <1>2, AddGrammarIs
<1>4. Good(AddedTo(found.registry, dir, first, set_current, g)) BY AddedGood
<1>5. QED BY <1>2, <1>3, <1>4

FindOp(dir, first, set_current, f, g) == AddGrammar(f, dir, first, set_current, g)
FoundGood(dir, first, set_current, k, f) == IsFound(f) /\ Good(f.registry)
FindFold == INSTANCE FoldInduction WITH Op <- FindOp, P <- FoundGood

\* All grammars of a directory.
LEMMA AddGrammarsGood ==
  ASSUME GrammarsGiven, NEW r, Good(r), NEW dir \in Directories, NEW first, NEW set_current
  PROVE  LET f == AddGrammars(r, dir, first, set_current) IN IsFound(f) /\ Good(f.registry)
<1>1. PICK gs : gs = Grammars(dir) OBVIOUS
<1>2. PICK n : n = Len(gs) OBVIOUS
<1>3. gs \in Seq(GrammarsAt(dir)) BY <1>1 DEF GrammarsGiven
<1>4. n \in Nat /\ DOMAIN gs = 1..n BY <1>2, <1>3, AnySeq
<1>5. \A k \in 1..n : gs[k] \in GrammarsAt(dir) BY <1>2, <1>3
<1>6. PICK base : base = [registry |-> r, ok |-> TRUE] OBVIOUS
<1>7. AddGrammars(r, dir, first, set_current) = FindFold!Fold(dir, first, set_current, base, gs)
  BY <1>1, <1>6, Zenon DEF AddGrammars, FindFold!Fold, FindOp, FoldLeft, MapThenFoldSet, Max,
                           FindFold!FoldLeft, FindFold!MapThenFoldSet, FindFold!Max
<1>8. FoundGood(dir, first, set_current, 0, base) BY <1>6 DEF FoundGood, IsFound
<1>9. ASSUME NEW k \in 1..n, NEW x, FoundGood(dir, first, set_current, k - 1, x)
      PROVE  FoundGood(dir, first, set_current, k, FindOp(dir, first, set_current, x, gs[k]))
  <2>1. PICK g \in GrammarsAt(dir) : g = gs[k] BY <1>5
  <2>2. IsFound(x) /\ Good(x.registry) BY <1>9 DEF FoundGood
  <2>3. PICK f : f = AddGrammar(x, dir, first, set_current, g) OBVIOUS
  <2>4. IsFound(f) /\ Good(f.registry) BY <2>2, <2>3, AddGrammarGood
  <2>5. QED BY <2>1, <2>3, <2>4 DEF FoundGood, FindOp
<1> HIDE DEF FoundGood, FindOp
<1>10. FoundGood(dir, first, set_current, n, FindFold!Fold(dir, first, set_current, base, gs))
  BY <1>4, <1>8, <1>9, FindFold!FoldKeeps
<1>11. QED BY <1>7, <1>10 DEF FoundGood

\* A directory.
LEMMA FindAtGood ==
  ASSUME GrammarsGiven, NEW r, Good(r), NEW dir \in Directories, NEW set_current
  PROVE  LET f == FindAt(r, dir, set_current) IN IsFound(f) /\ Good(f.registry)
<1>1. PICK first : first = Len(r.languages) OBVIOUS
<1>2. PICK found : found = AddGrammars(r, dir, first, set_current) OBVIOUS
<1>3. IsFound(found) /\ Good(found.registry) BY <1>2, AddGrammarsGood
<1>4. PICK g \in GrammarsAt(dir) : g = PlainGrammar BY DEF GrammarsAt
<1>5. PICK f : f = AddGrammar(found, dir, first, FALSE, g) OBVIOUS
<1>6. IsFound(f) /\ Good(f.registry) BY <1>3, <1>5, AddGrammarGood
<1>7. FindAt(r, dir, set_current) \in {found, f} BY <1>1, <1>2, <1>4, <1>5 DEF FindAt
<1>8. QED BY <1>3, <1>6, <1>7

AllOp(u, v, w, r, dir) == FindAt(r, dir, FALSE).registry
AllGood(u, v, w, k, r) == Good(r)
AllFold == INSTANCE FoldInduction WITH Op <- AllOp, P <- AllGood

\* All directories.
LEMMA FindAllGood ==
  ASSUME GrammarsGiven, NEW r, Good(r)
  PROVE  Good(FindAll(r))
<1>1. PICK n : n = Len(ParserDirectories) OBVIOUS
<1>2. ParserDirectories \in Seq(Directories) BY DEF GrammarsGiven
<1>3. n \in Nat /\ DOMAIN ParserDirectories = 1..n BY <1>1, <1>2, AnySeq
<1>4. \A k \in 1..n : ParserDirectories[k] \in Directories BY <1>1, <1>2
<1>5. FindAll(r) = AllFold!Fold(0, 0, 0, r, ParserDirectories)
  BY Zenon DEF FindAll, AllFold!Fold, AllOp, FoldLeft, MapThenFoldSet, Max,
               AllFold!FoldLeft, AllFold!MapThenFoldSet, AllFold!Max
<1>6. AllGood(0, 0, 0, 0, r) BY DEF AllGood
<1>7. ASSUME NEW k \in 1..n, NEW x, AllGood(0, 0, 0, k - 1, x)
      PROVE  AllGood(0, 0, 0, k, AllOp(0, 0, 0, x, ParserDirectories[k]))
  <2>1. PICK dir \in Directories : dir = ParserDirectories[k] BY <1>4
  <2>2. PICK f : f = FindAt(x, dir, FALSE) OBVIOUS
  <2>3. Good(f.registry) BY <1>7, <2>2, FindAtGood DEF AllGood
  <2>4. QED BY <2>1, <2>2, <2>3 DEF AllGood, AllOp
<1> HIDE DEF AllGood, AllOp
<1>8. AllGood(0, 0, 0, n, AllFold!Fold(0, 0, 0, r, ParserDirectories))
  BY <1>3, <1>6, <1>7, AllFold!FoldKeeps
<1>9. QED BY <1>5, <1>8 DEF AllGood

-----------------------------------------------------------------------------
(* Languages are loaded                                                      *)

IsAnswer(at) == at = [registry |-> at.registry, ok |-> at.ok, id |-> at.id]

\* A language that is loaded.
LoadedIn(r, id) == [r EXCEPT !.languages[id].loaded = TRUE]

\* Nothing but that a language is loaded changes.
LEMMA LoadedGood ==
  ASSUME NEW r, Good(r), NEW id
  PROVE  /\ Good(LoadedIn(r, id)) /\ LoadedIn(r, id).configurations = r.configurations
         /\ LoadedIn(r, id).lines = r.lines /\ LoadedIn(r, id).current = r.current
<1>1. PICK languages, cs, types, lines, current :
        r = [languages |-> languages, configurations |-> cs, types |-> types, lines |-> lines, current |-> current]
  BY DEF Good, RegistryOK, Shaped
<1>2. PICK new : new = [languages EXCEPT ![id].loaded = TRUE] OBVIOUS
<1>3. LoadedIn(r, id) = [languages |-> new, configurations |-> cs, types |-> types, lines |-> lines, current |-> current]
  <2>1. r.languages = languages BY <1>1
  <2>2. LoadedIn(r, id) = [r EXCEPT !.languages = new] BY <1>2, <2>1 DEF LoadedIn
  <2>3. QED BY <1>1, <2>2
<1>4. /\ IsSeq(languages) /\ \A i \in DOMAIN languages : IsLanguage(languages[i])
      /\ LanguagesOK(languages, cs)
  BY <1>1 DEF Good, RegistryOK, Shaped
<1>5. /\ IsSeq(new) /\ DOMAIN new = DOMAIN languages
      /\ \A i \in DOMAIN new : IsLanguage(new[i]) /\ new[i].path = languages[i].path
  <2>1. CASE id \in DOMAIN languages
    <3>0. PICK old : old = languages[id] OBVIOUS
    <3>1. PICK l : l = [old EXCEPT !.loaded = TRUE] OBVIOUS
    <3>2. new = [languages EXCEPT ![id] = l] BY <1>2, <3>0, <3>1
    <3>3. PICK p, o : old = [path |-> p, loaded |-> o] BY <1>4, <2>1, <3>0 DEF IsLanguage
    <3>4. l = [path |-> p, loaded |-> TRUE] BY <3>1, <3>3
    <3>5. IsLanguage(l) /\ l.path = languages[id].path BY <3>0, <3>3, <3>4 DEF IsLanguage
    <3>6. id \in 1..Len(languages) BY <1>4, <2>1, AnySeq DEF IsSeq
    <3>7. /\ IsSeq(new) /\ DOMAIN languages = 1..Len(languages) /\ DOMAIN new = 1..Len(languages)
          /\ \A i \in 1..Len(languages) : new[i] = IF i = id THEN l ELSE languages[i]
      BY <1>4, <3>2, <3>6, ExceptFacts
    <3>8. QED BY <1>4, <3>5, <3>7
  <2>2. CASE id \notin DOMAIN languages
    <3>1. languages = [i \in DOMAIN languages |-> languages[i]]
      BY <1>4, LenProperties DEF IsSeq
    <3>2. new = languages BY <1>2, <2>2, <3>1
    <3>3. QED BY <1>4, <3>2
  <2>3. QED BY <2>1, <2>2
<1>6. LanguagesOK(new, cs) BY <1>4, <1>5 DEF LanguagesOK
<1>7. PICK q : q = LoadedIn(r, id) OBVIOUS
<1>8. /\ q = [languages |-> q.languages, configurations |-> q.configurations, types |-> q.types,
              lines |-> q.lines, current |-> q.current]
      /\ q.languages = new /\ q.configurations = cs /\ q.types = types /\ q.lines = lines /\ q.current = current
  BY <1>3, <1>7
<1>9. /\ IsSeq(cs) /\ (\A i \in DOMAIN cs : IsConfig(cs[i])) /\ TypesOK(types, cs) /\ LinesOK(lines, cs)
      /\ \A i \in DOMAIN cs : cs[i].highlight \in Cells \cup {NoConfig}
  BY <1>1 DEF Good, RegistryOK, Shaped, CellsFrom
<1>10. Good(q) BY <1>5, <1>6, <1>8, <1>9 DEF Good, RegistryOK, Shaped, CellsFrom
<1>11. QED BY <1>1, <1>7, <1>8, <1>10

\* language_for_id.
LEMMA LoadGood ==
  ASSUME NEW at, IsAnswer(at), Good(at.registry), NEW id, NEW fails
  PROVE  LET q == Load(at, id, fails)
         IN  /\ IsAnswer(q) /\ Good(q.registry) /\ q.id = at.id
             /\ q.registry.configurations = at.registry.configurations
             /\ q.registry.lines = at.registry.lines
             /\ at.ok /\ ~fails => q.ok
<1>1. PICK r, ok, n : at = [registry |-> r, ok |-> ok, id |-> n] BY DEF IsAnswer
<1>2. PICK q : q = Load(at, id, fails) OBVIOUS
<1>3. CASE q = at BY <1>2, <1>3
<1>4. CASE fails /\ q = [at EXCEPT !.ok = FALSE]
  <2>1. q = [registry |-> r, ok |-> FALSE, id |-> n] BY <1>1, <1>4
  <2>2. QED BY <1>1, <1>2, <1>4, <2>1 DEF IsAnswer
<1>5. CASE at.ok /\ q = [at EXCEPT !.registry.languages[id].loaded = TRUE]
  <2>1. q = [registry |-> LoadedIn(r, id), ok |-> ok, id |-> n] BY <1>1, <1>5 DEF LoadedIn
  <2>2. /\ Good(LoadedIn(r, id)) /\ LoadedIn(r, id).configurations = r.configurations
        /\ LoadedIn(r, id).lines = r.lines
    BY <1>1, LoadedGood
  <2>3. IsAnswer(q) /\ q.registry = LoadedIn(r, id) /\ q.id = at.id /\ q.ok = at.ok /\ at.registry = r
    BY <1>1, <2>1 DEF IsAnswer
  <2>4. QED BY <1>2, <1>5, <2>2, <2>3
<1>6. QED BY <1>2, <1>3, <1>4, <1>5 DEF Load

\* The configuration that was found.
LEMMA FoundIsGood ==
  ASSUME NEW r, Good(r), NEW id, NEW fails
  PROVE  LET q == Found(r, id, fails)
         IN  /\ IsAnswer(q) /\ Good(q.registry) /\ q.id = id
             /\ q.registry.configurations = r.configurations /\ q.registry.lines = r.lines
             /\ ~fails => q.ok
<1>1. PICK at : at = Answer(r, TRUE, id) OBVIOUS
<1>2. IsAnswer(at) /\ at.registry = r /\ at.ok = TRUE /\ at.id = id BY <1>1 DEF Answer, IsAnswer
<1>3. CASE id = 0 BY <1>1, <1>2, <1>3 DEF Found
<1>4. CASE id # 0
  <2>1. PICK l : l = r.configurations[id].language OBVIOUS
  <2>2. PICK q : q = Load(at, l, fails) OBVIOUS
  <2>3. q = Found(r, id, fails) BY <1>1, <1>4, <2>1, <2>2 DEF Found
  <2>4. /\ IsAnswer(q) /\ Good(q.registry) /\ q.id = at.id
        /\ q.registry.configurations = at.registry.configurations
        /\ q.registry.lines = at.registry.lines
        /\ at.ok /\ ~fails => q.ok
    BY <1>2, <2>2, LoadGood
  <2>5. QED BY <1>2, <2>3, <2>4
<1>5. QED BY <1>3, <1>4

GoodAnswer(at) == IsAnswer(at) /\ Good(at.registry)

\* An answer with something else than the registry changed.
LEMMA AnswerWith ==
  ASSUME NEW at, GoodAnswer(at), NEW x
  PROVE  /\ GoodAnswer([at EXCEPT !.id = x]) /\ [at EXCEPT !.id = x].registry = at.registry
         /\ GoodAnswer([at EXCEPT !.ok = x]) /\ [at EXCEPT !.ok = x].registry = at.registry
<1>1. PICK r, ok, n : at = [registry |-> r, ok |-> ok, id |-> n] BY DEF GoodAnswer, IsAnswer
<1>2. PICK a, b : a = [at EXCEPT !.id = x] /\ b = [at EXCEPT !.ok = x] OBVIOUS
<1>3. a = [registry |-> r, ok |-> ok, id |-> x] BY <1>1, <1>2
<1>4. b = [registry |-> r, ok |-> x, id |-> n] BY <1>1, <1>2
<1>5. IsAnswer(a) /\ IsAnswer(b) /\ a.registry = r /\ b.registry = r /\ at.registry = r
  BY <1>1, <1>3, <1>4 DEF IsAnswer
<1>6. QED BY <1>2, <1>5 DEF GoodAnswer

LineOp(text, fails, w, at, line) == FirstLineStep(at, line, text, fails)
LineGood(text, fails, w, k, at) == GoodAnswer(at)
LineFold == INSTANCE FoldInduction WITH Op <- LineOp, P <- LineGood

\* The expressions on first lines, in whatever order.
LEMMA FirstLineGood ==
  ASSUME NEW r, Good(r), NEW text, NEW fails, NEW order, NEW n \in Nat, DOMAIN order = 1..n
  PROVE  GoodAnswer(language_configuration_for_first_line_regex(r, text, order, fails))
<1>1. PICK base : base = Answer(r, TRUE, 0) OBVIOUS
<1>2. language_configuration_for_first_line_regex(r, text, order, fails) = LineFold!Fold(text, fails, 0, base, order)
  BY <1>1, Zenon DEF language_configuration_for_first_line_regex, LineFold!Fold, LineOp, FoldLeft, MapThenFoldSet,
                     Max, LineFold!FoldLeft, LineFold!MapThenFoldSet, LineFold!Max
<1>3. LineGood(text, fails, 0, 0, base) BY <1>1 DEF LineGood, GoodAnswer, IsAnswer, Answer
<1>4. ASSUME NEW k \in 1..n, NEW x, LineGood(text, fails, 0, k - 1, x)
      PROVE  LineGood(text, fails, 0, k, LineOp(text, fails, 0, x, order[k]))
  <2>1. PICK id : id = x.registry.lines[order[k]][1] OBVIOUS
  <2>2. PICK q : q = Found(x.registry, id, fails) OBVIOUS
  <2>3. GoodAnswer(x) BY <1>4 DEF LineGood
  <2>4. GoodAnswer(q) BY <2>2, <2>3, FoundIsGood DEF GoodAnswer
  <2>5. GoodAnswer([x EXCEPT !.id = 0]) BY <2>3, AnswerWith
  <2>6. LineOp(text, fails, 0, x, order[k]) \in {x, [x EXCEPT !.id = 0], q}
    BY <2>1, <2>2 DEF LineOp, FirstLineStep
  <2>7. QED BY <2>3, <2>4, <2>5, <2>6 DEF LineGood
<1> HIDE DEF LineGood, LineOp
<1>5. LineGood(text, fails, 0, n, LineFold!Fold(text, fails, 0, base, order))
  BY <1>3, <1>4, LineFold!FoldKeeps
<1>6. QED BY <1>2, <1>5 DEF LineGood

LoadOp(fails, v, w, at, c) == [Load(at, c.language, fails) EXCEPT !.id = IF @ = 0 THEN c.language ELSE @]
LoadKeeps(fails, v, w, k, at) == GoodAnswer(at)
LoadFold == INSTANCE FoldInduction WITH Op <- LoadOp, P <- LoadKeeps

\* All languages of configurations.
LEMMA LoadAllGood ==
  ASSUME NEW r, Good(r), NEW fails, NEW cs, NEW n \in Nat, DOMAIN cs = 1..n
  PROVE  GoodAnswer(LoadEach(r, cs, fails))
<1>1. PICK base : base = Answer(r, TRUE, 0) OBVIOUS
<1>2. LoadEach(r, cs, fails) = LoadFold!Fold(fails, 0, 0, base, cs)
  BY <1>1, Zenon DEF LoadEach, LoadFold!Fold, LoadOp, FoldLeft, MapThenFoldSet,
                     Max, LoadFold!FoldLeft, LoadFold!MapThenFoldSet, LoadFold!Max
<1>3. LoadKeeps(fails, 0, 0, 0, base) BY <1>1 DEF LoadKeeps, GoodAnswer, IsAnswer, Answer
<1>4. ASSUME NEW k \in 1..n, NEW x, LoadKeeps(fails, 0, 0, k - 1, x)
      PROVE  LoadKeeps(fails, 0, 0, k, LoadOp(fails, 0, 0, x, cs[k]))
  <2>1. PICK l : l = cs[k].language OBVIOUS
  <2>2. PICK q : q = Load(x, l, fails) OBVIOUS
  <2>3. GoodAnswer(q) BY <1>4, <2>2, LoadGood DEF LoadKeeps, GoodAnswer
  <2>4. PICK id : id = IF q.id = 0 THEN l ELSE q.id OBVIOUS
  <2>5. GoodAnswer([q EXCEPT !.id = id]) BY <2>3, AnswerWith
  <2>6. LoadOp(fails, 0, 0, x, cs[k]) = [q EXCEPT !.id = id] BY <2>1, <2>2, <2>4 DEF LoadOp
  <2>7. QED BY <2>5, <2>6 DEF LoadKeeps
<1> HIDE DEF LoadKeeps, LoadOp
<1>5. LoadKeeps(fails, 0, 0, n, LoadFold!Fold(fails, 0, 0, base, cs))
  BY <1>3, <1>4, LoadFold!FoldKeeps
<1>6. GoodAnswer(LoadFold!Fold(fails, 0, 0, base, cs)) BY <1>5 DEF LoadKeeps
<1>7. QED BY <1>2, <1>6

\* languages_at_path.
LEMMA LanguagesAtPathGood ==
  ASSUME GrammarsGiven, NEW r, Good(r), NEW fails
  PROVE  GoodAnswer(LanguagesAtPath(r, CurrentDir, fails))
<1>1. CurrentDir \in Directories BY DEF Directories
<1>2. PICK found : found = FindAt(r, CurrentDir, TRUE) OBVIOUS
<1>3. IsFound(found) /\ Good(found.registry) BY <1>1, <1>2, FindAtGood
<1>4. PICK all : all = found.registry.configurations OBVIOUS
<1>5. PICK old : old = Len(r.configurations) OBVIOUS
<1>6. IsSeq(all) /\ Len(all) \in Nat /\ old \in Nat
  BY <1>3, <1>4, <1>5, AnySeq DEF Good, RegistryOK, Shaped, IsSeq
<1>7. PICK cs : cs = IF found.ok THEN SubSeq(all, old + 1, Len(all)) ELSE <<>> OBVIOUS
<1>8. PICK n \in Nat : DOMAIN cs = 1..n
  <2>1. CASE found.ok
    <3>1. DOMAIN cs = 1..(Len(all) - old) BY <1>6, <1>7, <2>1
    <3>2. CASE Len(all) >= old BY <1>6, <3>1, <3>2
    <3>3. CASE Len(all) < old
      <4>1. DOMAIN cs = 1..0 BY <1>6, <3>1, <3>3
      <4>2. QED BY <4>1
    <3>4. QED BY <1>6, <3>2, <3>3
  <2>2. CASE ~found.ok
    <3>1. DOMAIN cs = 1..0 BY <1>7, <2>2, EmptyIsSeq
    <3>2. QED BY <3>1
  <2>3. QED BY <2>1, <2>2
<1>9. LanguagesAtPath(r, CurrentDir, fails) = LoadEach(found.registry, cs, fails)
  BY <1>2, <1>4, <1>5, <1>7 DEF LanguagesAtPath, LoadNew
<1>10. QED BY <1>3, <1>8, <1>9, LoadAllGood

\* The language of a configuration that was found.
LEMMA LanguageFoundGood ==
  ASSUME NEW at, GoodAnswer(at)
  PROVE  GoodAnswer(LanguageFound(at)) /\ GoodAnswer(Known(at))
<1>1. ASSUME NEW q, GoodAnswer(q) PROVE GoodAnswer(LanguageFound(q))
  <2>1. PICK id : id = q.registry.configurations[q.id].language OBVIOUS
  <2>2. GoodAnswer([q EXCEPT !.id = id]) BY <1>1, AnswerWith
  <2>3. LanguageFound(q) \in {q, [q EXCEPT !.id = id]} BY <2>1 DEF LanguageFound
  <2>4. QED BY <1>1, <2>2, <2>3
<1>2. PICK ok : ok = (at.ok /\ at.id # 0) OBVIOUS
<1>3. PICK q : q = [at EXCEPT !.ok = ok] OBVIOUS
<1>4. GoodAnswer(q) BY <1>3, AnswerWith
<1>5. Known(at) = LanguageFound(q) BY <1>2, <1>3 DEF Known
<1>6. QED BY <1>1, <1>4, <1>5

\* select_language leaves a good registry.
LEMMA SelectGood ==
  ASSUME GrammarsGiven, NEW r, Good(r), NEW scope, NEW file, NEW order, NEW n \in Nat, DOMAIN order = 1..n, NEW fails
  PROVE  GoodAnswer(select_language(r, scope, file, order, fails))
<1>1. ASSUME NEW q, Good(q) PROVE \A id : GoodAnswer(Found(q, id, fails))
  <2>1. SUFFICES ASSUME NEW id PROVE GoodAnswer(Found(q, id, fails)) OBVIOUS
  <2>2. QED BY <1>1, FoundIsGood DEF GoodAnswer
<1>2. ASSUME NEW at, GoodAnswer(at) PROVE GoodAnswer(ByFirstLine(at, file, order, fails))
  <2>1. PICK q : q = language_configuration_for_first_line_regex(at.registry, file.text, order, fails) OBVIOUS
  <2>2. Good(at.registry) BY <1>2 DEF GoodAnswer
  <2>3. PICK text : text = file.text OBVIOUS
  <2>4. GoodAnswer(q) BY <2>1, <2>2, <2>3, FirstLineGood
  <2>5. GoodAnswer(Known(q)) BY <2>4, LanguageFoundGood
  <2>6. GoodAnswer([at EXCEPT !.ok = FALSE]) BY <1>2, AnswerWith
  <2>7. ByFirstLine(at, file, order, fails) \in {at, [at EXCEPT !.ok = FALSE], Known(q)}
    BY <2>1 DEF ByFirstLine
  <2>8. QED BY <1>2, <2>5, <2>6, <2>7
<1>3. ASSUME NEW at, GoodAnswer(at) PROVE GoodAnswer(ByCurrentPath(at, file, order, fails))
  <2>1. Good(at.registry) BY <1>3 DEF GoodAnswer
  <2>2. PICK q : q = LanguagesAtPath(at.registry, CurrentDir, fails) OBVIOUS
  <2>3. GoodAnswer(ByFirstLine(q, file, order, fails)) BY <1>2, <2>1, <2>2, LanguagesAtPathGood
  <2>4. PICK p : p = Found(at.registry, at.registry.current, fails) OBVIOUS
  <2>5. GoodAnswer(LanguageFound(p)) BY <1>1, <2>1, <2>4, LanguageFoundGood
  <2>6. GoodAnswer(LanguageFound(at)) BY <1>3, LanguageFoundGood
  <2>7. ByCurrentPath(at, file, order, fails) \in {LanguageFound(at), LanguageFound(p), ByFirstLine(q, file, order, fails)}
    BY <2>2, <2>4 DEF ByCurrentPath
  <2>8. QED BY <2>3, <2>5, <2>6, <2>7
<1>4. CASE scope # ""
  <2>1. PICK id : id = language_configuration_for_scope(r, scope) OBVIOUS
  <2>2. PICK q : q = Found(r, id, fails) OBVIOUS
  <2>3. GoodAnswer(Known(q)) BY <1>1, <2>2, LanguageFoundGood
  <2>4. QED BY <1>4, <2>1, <2>2, <2>3 DEF select_language
<1>5. CASE scope = ""
  <2>1. PICK id : id = language_configuration_for_file_name(r, file.name, file.text) OBVIOUS
  <2>2. PICK q : q = IF file.name = <<>> THEN Answer(r, TRUE, 0) ELSE Found(r, id, fails) OBVIOUS
  <2>3. GoodAnswer(Answer(r, TRUE, 0)) BY DEF GoodAnswer, IsAnswer, Answer
  <2>4. GoodAnswer(q) BY <1>1, <2>2, <2>3
  <2>5. select_language(r, scope, file, order, fails) = ByCurrentPath(q, file, order, fails)
    BY <1>5, <2>1, <2>2 DEF select_language
  <2>6. QED BY <1>3, <2>4, <2>5
<1>6. QED BY <1>4, <1>5

-----------------------------------------------------------------------------
(* The registry is consistent                                                *)

\* Configurations that differ in what was made of their queries only.
Alike(c, d) ==
  /\ IsConfig(d) /\ c.root = d.root /\ c.language = d.language /\ c.path = d.path
  /\ c.file_types = d.file_types /\ c.first_line = d.first_line /\ c.content = d.content /\ c.queries = d.queries

\* What is said of the registry is not about what was made of the queries.
LEMMA AlikeOK ==
  ASSUME NEW r, RegistryOK(r), NEW ds, IsSeq(ds), DOMAIN ds = DOMAIN r.configurations,
         \A i \in DOMAIN ds : Alike(r.configurations[i], ds[i]),
         NEW q, q = [languages |-> r.languages, configurations |-> ds, types |-> r.types,
                     lines |-> r.lines, current |-> r.current]
  PROVE  RegistryOK(q)
<1>1. /\ q = [languages |-> q.languages, configurations |-> q.configurations, types |-> q.types,
              lines |-> q.lines, current |-> q.current]
      /\ q.languages = r.languages /\ q.configurations = ds /\ q.types = r.types /\ q.lines = r.lines
  OBVIOUS
<1>2. Shaped(q) BY <1>1 DEF RegistryOK, Shaped, Alike
<1>3. PICK cs : cs = r.configurations OBVIOUS
<1>4. DOMAIN ds = DOMAIN cs /\ \A i \in DOMAIN ds : Alike(cs[i], ds[i]) BY <1>3
<1>5. LanguagesOK(r.languages, cs) /\ TypesOK(r.types, cs) /\ LinesOK(r.lines, cs) BY <1>3 DEF RegistryOK
<1>6. LanguagesOK(r.languages, ds) BY <1>4, <1>5 DEF LanguagesOK, Alike
<1>7. TypesOK(r.types, ds)
  <2>1. \A k : {i \in DOMAIN ds : k \in ToSet(ds[i].file_types)} = {i \in DOMAIN cs : k \in ToSet(cs[i].file_types)}
    BY <1>4 DEF Alike
  <2>2. \A i \in DOMAIN ds : ToSet(ds[i].file_types) = ToSet(cs[i].file_types) BY <1>4 DEF Alike
  <2>3. QED BY <1>4, <1>5, <2>1, <2>2 DEF TypesOK
<1>8. LinesOK(r.lines, ds) BY <1>4, <1>5 DEF LinesOK, Alike
<1>9. QED BY <1>1, <1>2, <1>6, <1>7, <1>8 DEF RegistryOK

\* A configuration with something else made of its queries.
LEMMA ConfigWith ==
  ASSUME NEW c, IsConfig(c), NEW x
  PROVE  /\ Alike(c, [c EXCEPT !.highlight = x]) /\ [c EXCEPT !.highlight = x].highlight = x
         /\ Alike(c, [c EXCEPT !.tags = x]) /\ [c EXCEPT !.tags = x].highlight = c.highlight
<1>1. PICK x1, x2, x3, x4, x5, x6, x7, x8, x9, y, z :
        c = [root |-> x1, language |-> x2, path |-> x3, scope |-> x4, file_types |-> x5, content |-> x6,
             first_line |-> x7, injection |-> x8, queries |-> x9, highlight |-> y, tags |-> z]
  BY DEF IsConfig
<1>2. PICK h, t : h = [c EXCEPT !.highlight = x] /\ t = [c EXCEPT !.tags = x] OBVIOUS
<1>3. h = [root |-> x1, language |-> x2, path |-> x3, scope |-> x4, file_types |-> x5, content |-> x6,
           first_line |-> x7, injection |-> x8, queries |-> x9, highlight |-> x, tags |-> z]
  BY <1>1, <1>2
<1>4. t = [root |-> x1, language |-> x2, path |-> x3, scope |-> x4, file_types |-> x5, content |-> x6,
           first_line |-> x7, injection |-> x8, queries |-> x9, highlight |-> y, tags |-> x]
  BY <1>1, <1>2
<1>5. c.root \in Directories /\ \E g \in GrammarsAt(c.root) :
        c.file_types = g.file_types /\ c.content = g.content /\ c.queries = g.queries
  BY DEF IsConfig
<1>6. IsConfig(h) /\ IsConfig(t) BY <1>1, <1>3, <1>4, <1>5 DEF IsConfig
<1>7. QED BY <1>1, <1>2, <1>3, <1>4, <1>6 DEF Alike

\* A cell of a configuration is made.
LEMMA CellMade ==
  ASSUME NEW r, RegistryOK(r), NEW id \in DOMAIN r.configurations, NEW x
  PROVE  LET q == [r EXCEPT !.configurations[id].highlight = x]
             t == [r EXCEPT !.configurations[id].tags = x]
         IN  /\ RegistryOK(q) /\ DOMAIN q.configurations = DOMAIN r.configurations
             /\ \A i \in DOMAIN q.configurations :
                  q.configurations[i].highlight = IF i = id THEN x ELSE r.configurations[i].highlight
             /\ RegistryOK(t) /\ DOMAIN t.configurations = DOMAIN r.configurations
             /\ \A i \in DOMAIN t.configurations : t.configurations[i].highlight = r.configurations[i].highlight
<1>1. PICK languages, cs, types, lines, current :
        r = [languages |-> languages, configurations |-> cs, types |-> types, lines |-> lines, current |-> current]
  BY DEF RegistryOK, Shaped
<1>2. PICK q, t : q = [r EXCEPT !.configurations[id].highlight = x] /\ t = [r EXCEPT !.configurations[id].tags = x]
  OBVIOUS
<1>3. PICK old : old = cs[id] OBVIOUS
<1>4. PICK h, g : h = [old EXCEPT !.highlight = x] /\ g = [old EXCEPT !.tags = x] OBVIOUS
<1>5. PICK ds, es : ds = [cs EXCEPT ![id] = h] /\ es = [cs EXCEPT ![id] = g] OBVIOUS
<1>6. IsSeq(cs) /\ id \in DOMAIN cs /\ (\A i \in DOMAIN cs : IsConfig(cs[i])) /\ r.configurations = cs
  BY <1>1 DEF RegistryOK, Shaped
<1>7. q = [languages |-> languages, configurations |-> ds, types |-> types, lines |-> lines, current |-> current]
  <2>1. q = [r EXCEPT !.configurations = ds] BY <1>2, <1>3, <1>4, <1>5, <1>6
  <2>2. QED BY <1>1, <2>1
<1>8. t = [languages |-> languages, configurations |-> es, types |-> types, lines |-> lines, current |-> current]
  <2>1. t = [r EXCEPT !.configurations = es] BY <1>2, <1>3, <1>4, <1>5, <1>6
  <2>2. QED BY <1>1, <2>1
<1>9. IsConfig(old) BY <1>3, <1>6
<1>10. Alike(old, h) /\ h.highlight = x /\ Alike(old, g) /\ g.highlight = old.highlight
  BY <1>4, <1>9, ConfigWith
<1>11. id \in 1..Len(cs) BY <1>6, AnySeq DEF IsSeq
<1>12. /\ IsSeq(ds) /\ DOMAIN ds = 1..Len(cs) /\ DOMAIN cs = 1..Len(cs)
       /\ \A i \in 1..Len(cs) : ds[i] = IF i = id THEN h ELSE cs[i]
  BY <1>5, <1>6, <1>11, ExceptFacts
<1>13. /\ IsSeq(es) /\ DOMAIN es = 1..Len(cs)
       /\ \A i \in 1..Len(cs) : es[i] = IF i = id THEN g ELSE cs[i]
  BY <1>5, <1>6, <1>11, ExceptFacts
<1>14. \A i \in DOMAIN cs : Alike(cs[i], cs[i]) BY <1>6 DEF Alike
<1>15. \A i \in DOMAIN ds : Alike(cs[i], ds[i]) BY <1>3, <1>10, <1>12, <1>14
<1>16. \A i \in DOMAIN es : Alike(cs[i], es[i]) BY <1>3, <1>10, <1>12, <1>13, <1>14
<1>17. /\ q = [languages |-> r.languages, configurations |-> ds, types |-> r.types, lines |-> r.lines, current |-> r.current]
       /\ t = [languages |-> r.languages, configurations |-> es, types |-> r.types, lines |-> r.lines, current |-> r.current]
  BY <1>1, <1>7, <1>8
<1>18. RegistryOK(q) BY <1>6, <1>12, <1>15, <1>17, AlikeOK
<1>19. RegistryOK(t) BY <1>6, <1>12, <1>13, <1>16, <1>17, AlikeOK
<1>20. q.configurations = ds /\ t.configurations = es BY <1>7, <1>8
<1>21. \A i \in DOMAIN ds : ds[i].highlight = IF i = id THEN x ELSE cs[i].highlight BY <1>10, <1>12
<1>22. \A i \in DOMAIN es : es[i].highlight = cs[i].highlight BY <1>3, <1>10, <1>12, <1>13
<1>23. QED BY <1>2, <1>6, <1>12, <1>13, <1>18, <1>19, <1>20, <1>21, <1>22

-----------------------------------------------------------------------------
(* The first of the best                                                     *)

\* Of the first k the first with the highest score, if that is above the bound.
BestOK(scores, ids, bound, k, best) ==
  /\ best = [id |-> best.id, score |-> best.score]
  /\ best.score \in Int
  /\ \A i \in 1..k : scores[i] <= best.score
  /\ \/ best.id = 0 /\ best.score = bound
     \/ \E i \in 1..k : best.id = ids[i] /\ best.score = scores[i] /\ best.score > bound

\* One more.
LEMMA BestStep ==
  ASSUME NEW scores, NEW ids, NEW bound \in Int, NEW n \in Nat, NEW k \in 1..n,
         \A i \in 1..n : scores[i] \in Int,
         NEW best, BestOK(scores, ids, bound, k - 1, best), NEW next,
         next = IF scores[k] > best.score THEN [id |-> ids[k], score |-> scores[k]] ELSE best
  PROVE  BestOK(scores, ids, bound, k, next)
<1>1. scores[k] \in Int /\ best.score \in Int BY DEF BestOK
<1>2. \A i \in 1..k : i = k \/ i \in 1..(k - 1) OBVIOUS
<1>3. CASE scores[k] > best.score
  <2>1. next = [id |-> ids[k], score |-> scores[k]] BY <1>3
  <2>2. next.id = ids[k] /\ next.score = scores[k] /\ next = [id |-> next.id, score |-> next.score] BY <2>1
  <2>3. \A i \in 1..(k - 1) : scores[i] \in Int /\ scores[i] <= best.score BY DEF BestOK
  <2>4. \A i \in 1..k : scores[i] <= next.score BY <1>1, <1>2, <1>3, <2>2, <2>3
  <2>5. next.score > bound
    <3>1. best.score >= bound BY <1>1 DEF BestOK
    <3>2. QED BY <1>1, <1>3, <2>2, <3>1
  <2>6. QED BY <1>1, <2>2, <2>4, <2>5 DEF BestOK
<1>4. CASE ~(scores[k] > best.score)
  <2>1. next = best BY <1>4
  <2>2. \A i \in 1..k : scores[i] <= best.score BY <1>1, <1>2, <1>4 DEF BestOK
  <2>3. QED BY <1>2, <2>1, <2>2 DEF BestOK
<1>5. QED BY <1>3, <1>4

\* The first step.
LEMMA BestNone ==
  ASSUME NEW scores, NEW ids, NEW bound \in Int
  PROVE  BestOK(scores, ids, bound, 0, [id |-> 0, score |-> bound])
<1>1. PICK best : best = [id |-> 0, score |-> bound] OBVIOUS
<1>2. best.id = 0 /\ best.score = bound /\ best = [id |-> best.id, score |-> best.score] BY <1>1
<1>3. BestOK(scores, ids, bound, 0, best) BY <1>2 DEF BestOK
<1>4. QED BY <1>1, <1>3

\* The injection expressions.
InjectionScore(cs, string, id) == IF cs[id].injection = "" THEN -1 ELSE MatchLength(cs[id].injection, string)
InjectionOp(cs, string, ids, best, id) ==
  IF InjectionScore(cs, string, id) > best.score THEN [id |-> id, score |-> InjectionScore(cs, string, id)] ELSE best
InjectionBest(cs, string, ids, k, best) ==
  best.id = 0 \/ \E i \in 1..k : best.id = ids[i]
InjectionFold == INSTANCE FoldInduction WITH Op <- InjectionOp, P <- InjectionBest

\* A configuration for an injection is one of the registry.
LEMMA InjectionFound ==
  ASSUME NEW r, IsSeq(r.configurations), NEW string
  PROVE  language_configuration_for_injection_string(r, string) \in {0} \cup DOMAIN r.configurations
<1>1. PICK cs : cs = r.configurations OBVIOUS
<1>2. PICK n : n = Len(cs) OBVIOUS
<1>3. n \in Nat /\ DOMAIN cs = 1..n BY <1>1, <1>2, AnySeq DEF IsSeq
<1>4. PICK ids : ids = [i \in 1..n |-> i] OBVIOUS
<1>5. DOMAIN ids = 1..n /\ \A i \in 1..n : ids[i] = i BY <1>4
<1>6. PICK base : base = [id |-> 0, score |-> 0] OBVIOUS
<1>7. language_configuration_for_injection_string(r, string) = InjectionFold!Fold(cs, string, ids, base, ids).id
  <2>1. language_configuration_for_injection_string(r, string)
        = InjectionFold!Fold(r.configurations, string, ids, [id |-> 0, score |-> 0], [i \in 1..Len(r.configurations) |-> i]).id
    BY Zenon
    DEF language_configuration_for_injection_string, FirstBest, InjectionFold!Fold, InjectionOp, InjectionScore,
        FoldLeft, MapThenFoldSet, Max, InjectionFold!FoldLeft, InjectionFold!MapThenFoldSet, InjectionFold!Max
  <2>2. QED BY <1>1, <1>2, <1>4, <1>6, <2>1
<1>8. InjectionBest(cs, string, ids, 0, base) BY <1>6 DEF InjectionBest
<1>9. ASSUME NEW k \in 1..n, NEW x, InjectionBest(cs, string, ids, k - 1, x)
      PROVE  InjectionBest(cs, string, ids, k, InjectionOp(cs, string, ids, x, ids[k]))
  <2>1. PICK s : s = InjectionScore(cs, string, ids[k]) OBVIOUS
  <2>2. PICK y : y = [id |-> ids[k], score |-> s] OBVIOUS
  <2>3. y.id = ids[k] BY <2>2
  <2>4. InjectionOp(cs, string, ids, x, ids[k]) \in {x, y} BY <2>1, <2>2 DEF InjectionOp
  <2>5. InjectionBest(cs, string, ids, k, x) BY <1>9 DEF InjectionBest
  <2>6. InjectionBest(cs, string, ids, k, y) BY <2>3 DEF InjectionBest
  <2>7. QED BY <2>4, <2>5, <2>6
<1> HIDE DEF InjectionBest, InjectionOp
<1>10. InjectionBest(cs, string, ids, n, InjectionFold!Fold(cs, string, ids, base, ids))
  BY <1>3, <1>5, <1>8, <1>9, InjectionFold!FoldKeeps
<1>11. QED BY <1>1, <1>3, <1>5, <1>7, <1>10 DEF InjectionBest

-----------------------------------------------------------------------------
(* The registry is consistent                                                *)

\* The order in which first lines are tried is a sequence.
LEMMA OrderFacts ==
  ASSUME NEW S, IsFiniteSet(S), NEW order \in Orders(S)
  PROVE  \E n \in Nat : DOMAIN order = 1..n
<1>1. Cardinality(S) \in Nat BY FS_CardinalityType
<1>2. DOMAIN order = 1..Cardinality(S) BY DEF Orders
<1>3. QED BY <1>1, <1>2

\* The registry is good as it is.
LEMMA GoodNow ==
  ASSUME RegistryOK(registry)
  PROVE  Good(registry) /\ \A id : \A fails \in BOOLEAN :
           LET at == Found(registry, id, fails)
           IN  /\ RegistryOK(at.registry) /\ DOMAIN at.registry.configurations = DOMAIN registry.configurations
               /\ at.registry.configurations = registry.configurations
<1>1. Good(registry) BY DEF Good, CellsFrom, Cells
<1>2. SUFFICES ASSUME NEW id, NEW fails \in BOOLEAN, NEW at, at = Found(registry, id, fails)
               PROVE  RegistryOK(at.registry) /\ at.registry.configurations = registry.configurations
  BY <1>1
<1>3. Good(at.registry) /\ at.registry.configurations = registry.configurations BY <1>1, <1>2, FoundIsGood
<1>4. QED BY <1>3 DEF Good

\* The steps there are, with an injection taken for what it makes.
LEMMA NextCases ==
  ASSUME RegistryOK(registry), ConfNext
  PROVE  \/ Discover
         \/ \E fails \in BOOLEAN : \E scope, file : \E order \in Orders(DOMAIN registry.lines) :
              Select(scope, file, order, fails)
         \/ \E fails \in BOOLEAN : \E id \in DOMAIN registry.configurations :
              Tags(id, fails) \/ \E paths \in QueryPaths \cup {<<>>} : Highlight(id, paths, fails)
<1>1. CASE \E fails \in BOOLEAN, string \in InjectionStrings : Inject(string, fails)
  <2>1. PICK fails \in BOOLEAN, string \in InjectionStrings : Inject(string, fails) BY <1>1
  <2>2. PICK id : id = language_configuration_for_injection_string(registry, string) OBVIOUS
  <2>3. id # 0 /\ Highlight(id, <<>>, fails) BY <2>1, <2>2 DEF Inject
  <2>4. IsSeq(registry.configurations) BY DEF RegistryOK, Shaped
  <2>5. id \in DOMAIN registry.configurations BY <2>2, <2>3, <2>4, InjectionFound
  <2>6. QED BY <2>3, <2>5
<1>2. QED BY <1>1 DEF ConfNext

\* Each step leaves a registry that is right.
LEMMA RegistryNext ==
  ASSUME GrammarsGiven, RegistryOK(registry), [ConfNext]_confVars
  PROVE  RegistryOK(registry')
<1>1. Good(registry) BY GoodNow
<1>2. CASE UNCHANGED confVars BY <1>2 DEF confVars
<1>3. CASE Discover
  <2>1. registry' = FindAll(registry) BY <1>3 DEF Discover
  <2>2. Good(FindAll(registry)) BY <1>1, FindAllGood
  <2>3. QED BY <2>1, <2>2 DEF Good
<1>4. CASE \E fails \in BOOLEAN : \E scope, file : \E order \in Orders(DOMAIN registry.lines) :
              Select(scope, file, order, fails)
  <2>0. PICK fails \in BOOLEAN : \E scope, file : \E order \in Orders(DOMAIN registry.lines) :
              Select(scope, file, order, fails)
    BY <1>4
  <2>1. PICK scope, file : \E order \in Orders(DOMAIN registry.lines) : Select(scope, file, order, fails)
    BY <2>0
  <2>2. PICK order \in Orders(DOMAIN registry.lines) : Select(scope, file, order, fails) BY <2>1
  <2>3. IsFiniteSet(DOMAIN registry.lines) BY DEF RegistryOK, LinesOK
  <2>4. PICK n \in Nat : DOMAIN order = 1..n BY <2>3, OrderFacts
  <2>5. PICK at : at = select_language(registry, scope, file, order, fails) OBVIOUS
  <2>6. GoodAnswer(at) BY <1>1, <2>4, <2>5, SelectGood
  <2>7. registry' = at.registry BY <2>2, <2>5 DEF Select
  <2>8. QED BY <2>6, <2>7 DEF GoodAnswer, Good
<1>5. CASE \E fails \in BOOLEAN : \E id \in DOMAIN registry.configurations :
              Tags(id, fails) \/ \E paths \in QueryPaths \cup {<<>>} : Highlight(id, paths, fails)
  <2>1. PICK fails \in BOOLEAN, id \in DOMAIN registry.configurations :
              Tags(id, fails) \/ \E paths \in QueryPaths \cup {<<>>} : Highlight(id, paths, fails)
    BY <1>5
  <2>2. PICK at : at = Found(registry, id, fails) OBVIOUS
  <2>3. PICK r : r = at.registry OBVIOUS
  <2>4. RegistryOK(r) /\ id \in DOMAIN r.configurations BY <2>2, <2>3, GoodNow
  <2>5. CASE Tags(id, fails)
    <3>1. PICK x : x = tags_config(registry.configurations[id]).cell OBVIOUS
    <3>2. registry' = IF at.ok THEN [r EXCEPT !.configurations[id].tags = x] ELSE r
      BY <2>2, <2>3, <2>5, <3>1 DEF Tags
    <3>3. RegistryOK([r EXCEPT !.configurations[id].tags = x]) BY <2>4, CellMade
    <3>4. QED BY <2>4, <3>2, <3>3
  <2>6. CASE \E paths \in QueryPaths \cup {<<>>} : Highlight(id, paths, fails)
    <3>1. PICK paths \in QueryPaths \cup {<<>>} : Highlight(id, paths, fails) BY <2>6
    <3>2. PICK x : x = highlight_config(registry.configurations[id], highlight_names,
                                        use_all_highlight_names, paths).cell OBVIOUS
    <3>3. registry' = IF at.ok THEN [r EXCEPT !.configurations[id].highlight = x] ELSE r
      BY <2>2, <2>3, <3>1, <3>2 DEF Highlight
    <3>4. RegistryOK([r EXCEPT !.configurations[id].highlight = x]) BY <2>4, CellMade
    <3>5. QED BY <2>4, <3>3, <3>4
  <2>7. QED BY <2>1, <2>5, <2>6
<1>6. QED BY <1>2, <1>3, <1>4, <1>5, NextCases

\* Loader::new.
LEMMA RegistryInit ==
  ASSUME ConfInit
  PROVE  RegistryOK(registry)
<1>1. registry = [languages |-> <<>>, configurations |-> <<>>, types |-> <<>>, lines |-> <<>>, current |-> 0]
  BY DEF ConfInit
<1>2. /\ registry = [languages |-> registry.languages, configurations |-> registry.configurations,
                     types |-> registry.types, lines |-> registry.lines, current |-> registry.current]
      /\ registry.languages = <<>> /\ registry.configurations = <<>> /\ registry.types = <<>> /\ registry.lines = <<>>
  BY <1>1
<1>3. <<>> = [k \in {} |-> <<>>[k]] OBVIOUS
<1>4. IsFiniteSet({}) BY FS_EmptySet
<1>5. QED BY <1>2, <1>3, <1>4, EmptyIsSeq DEF RegistryOK, Shaped, LanguagesOK, TypesOK, LinesOK

\* What is shown of the registry is what RegistryConsistent says.
LEMMA ConsistentFollows ==
  ASSUME GrammarsGiven, RegistryOK(registry)
  PROVE  RegistryConsistent
<1>1. PICK cs : cs = registry.configurations OBVIOUS
<1>2. \A i \in DOMAIN cs : IsSeq(cs[i].file_types)
  <2>1. SUFFICES ASSUME NEW i \in DOMAIN cs PROVE IsSeq(cs[i].file_types) OBVIOUS
  <2>2. IsConfig(cs[i]) BY <1>1 DEF RegistryOK, Shaped
  <2>3. PICK g \in GrammarsAt(cs[i].root) : cs[i].file_types = g.file_types BY <2>2 DEF IsConfig
  <2>4. g.file_types \in Seq(ToSet(g.file_types)) BY <2>2, <2>3 DEF GrammarsGiven, IsConfig
  <2>5. QED BY <2>3, <2>4, AnySeq
<1>3. \A s : IsSeq(s) => \A e : Contains(s, e) <=> e \in ToSet(s)
  <2>1. SUFFICES ASSUME NEW s, IsSeq(s), NEW e PROVE Contains(s, e) <=> e \in ToSet(s) OBVIOUS
  <2>2. DOMAIN s = 1..Len(s) BY AnySeq DEF IsSeq
  <2>3. QED BY <2>2 DEF Contains, ToSet
<1>4. \A i \in DOMAIN cs : /\ cs[i].language \in DOMAIN registry.languages
                           /\ registry.languages[cs[i].language].path = <<cs[i].root, cs[i].path>>
  BY <1>1 DEF RegistryOK, LanguagesOK
<1>5. ASSUME NEW k \in DOMAIN registry.types
      PROVE  /\ ToSet(registry.types[k]) = {i \in DOMAIN cs : Contains(cs[i].file_types, k)}
             /\ \A m, n \in DOMAIN registry.types[k] : m < n => registry.types[k][m] < registry.types[k][n]
  <2>1. {i \in DOMAIN cs : Contains(cs[i].file_types, k)} = {i \in DOMAIN cs : k \in ToSet(cs[i].file_types)}
    BY <1>2, <1>3
  <2>2. TypesOK(registry.types, cs) BY <1>1 DEF RegistryOK
  <2>3. QED BY <2>1, <2>2 DEF TypesOK
<1>6. ASSUME NEW i \in DOMAIN cs
      PROVE  /\ \A t \in ToSet(cs[i].file_types) : t \in DOMAIN registry.types
             /\ cs[i].first_line # "" => Contains(registry.lines[cs[i].first_line], i)
  <2>1. TypesOK(registry.types, cs) /\ LinesOK(registry.lines, cs) BY <1>1 DEF RegistryOK
  <2>2. \A t \in ToSet(cs[i].file_types) : t \in DOMAIN registry.types BY <2>1 DEF TypesOK
  <2>3. ASSUME cs[i].first_line # "" PROVE Contains(registry.lines[cs[i].first_line], i)
    <3>1. cs[i].first_line \in DOMAIN registry.lines /\ i \in ToSet(registry.lines[cs[i].first_line])
          /\ IsSeq(registry.lines[cs[i].first_line])
      BY <2>1, <2>3 DEF LinesOK
    <3>2. QED BY <1>3, <3>1
  <2>4. QED BY <2>2, <2>3
<1>7. QED BY <1>1, <1>4, <1>5, <1>6 DEF RegistryConsistent, Configs

\* RegistryConsistent holds for any directories: the indices and the languages agree with
\* the configurations, after whatever was found, given up, loaded or failed to.
THEOREM RegistryIsConsistent ==
  ASSUME GrammarsGiven
  PROVE  ConfSpec => []RegistryConsistent
<1>1. ConfInit => RegistryOK(registry) BY RegistryInit
<1>2. RegistryOK(registry) /\ [ConfNext]_confVars => RegistryOK(registry)' BY RegistryNext
<1>3. RegistryOK(registry) => RegistryConsistent BY ConsistentFollows
<1>4. QED BY <1>1, <1>2, <1>3, PTL DEF ConfSpec

-----------------------------------------------------------------------------
(* The file type decides                                                     *)

BestFor(r, text, ids) == FirstBest(ids, LAMBDA id : ContentScore(r.configurations[id], text), -2)
ContentOp(cs, text, ids, best, id) ==
  IF ContentScore(cs[id], text) > best.score THEN [id |-> id, score |-> ContentScore(cs[id], text)] ELSE best
Scores(cs, text, ids) == [j \in DOMAIN ids |-> ContentScore(cs[ids[j]], text)]
ContentBest(cs, text, ids, k, best) ==
  (\A j \in DOMAIN ids : Scores(cs, text, ids)[j] \in Int) => BestOK(Scores(cs, text, ids), ids, -2, k, best)
ContentFold == INSTANCE FoldInduction WITH Op <- ContentOp, P <- ContentBest

\* The best of several configurations for the content of a file.
LEMMA BestContent ==
  ASSUME NEW r, NEW text, NEW ids, IsSeq(ids), Len(ids) > 0,
         NEW cs, cs = r.configurations,
         \A j \in DOMAIN ids : ContentScore(cs[ids[j]], text) \in Int /\ ContentScore(cs[ids[j]], text) >= -1
  PROVE  \E i \in DOMAIN ids :
           /\ BestFor(r, text, ids) = ids[i]
           /\ \A j \in DOMAIN ids : ContentScore(cs[ids[j]], text) <= ContentScore(cs[ids[i]], text)
<1>1. PICK n : n = Len(ids) OBVIOUS
<1>2. n \in Nat /\ DOMAIN ids = 1..n BY <1>1, AnySeq DEF IsSeq
<1>3. PICK scores : scores = Scores(cs, text, ids) OBVIOUS
<1>4. \A j \in 1..n : scores[j] = ContentScore(cs[ids[j]], text) /\ scores[j] \in Int /\ scores[j] >= -1
  BY <1>2, <1>3 DEF Scores
<1>5. PICK base : base = [id |-> 0, score |-> -2] OBVIOUS
<1>6. BestFor(r, text, ids) = ContentFold!Fold(cs, text, ids, base, ids).id
  <2>1. BestFor(r, text, ids) = ContentFold!Fold(r.configurations, text, ids, [id |-> 0, score |-> -2], ids).id
    BY Zenon DEF BestFor, FirstBest, ContentFold!Fold, ContentOp,
        FoldLeft, MapThenFoldSet, Max, ContentFold!FoldLeft, ContentFold!MapThenFoldSet, ContentFold!Max
  <2>2. ContentFold!Fold(r.configurations, text, ids, [id |-> 0, score |-> -2], ids) = ContentFold!Fold(cs, text, ids, base, ids)
    BY <1>5
  <2>3. QED BY <2>1, <2>2
<1>7. ContentBest(cs, text, ids, 0, base) BY <1>3, <1>5, BestNone DEF ContentBest
<1>8. ASSUME NEW k \in 1..n, NEW x, ContentBest(cs, text, ids, k - 1, x)
      PROVE  ContentBest(cs, text, ids, k, ContentOp(cs, text, ids, x, ids[k]))
  <2>1. BestOK(scores, ids, -2, k - 1, x) BY <1>2, <1>3, <1>4, <1>8 DEF ContentBest
  <2>2. PICK next : next = IF scores[k] > x.score THEN [id |-> ids[k], score |-> scores[k]] ELSE x OBVIOUS
  <2>3. PICK bound \in Int : bound = -2 OBVIOUS
  <2>4. BestOK(scores, ids, bound, k, next) BY <1>2, <1>4, <2>1, <2>2, <2>3, BestStep
  <2>5. ContentOp(cs, text, ids, x, ids[k]) = next BY <1>4, <2>2 DEF ContentOp
  <2>6. QED BY <1>3, <2>3, <2>4, <2>5 DEF ContentBest
<1> HIDE DEF ContentBest, ContentOp
<1>9. ContentBest(cs, text, ids, n, ContentFold!Fold(cs, text, ids, base, ids))
  BY <1>2, <1>7, <1>8, ContentFold!FoldKeeps
<1>10. PICK best : best = ContentFold!Fold(cs, text, ids, base, ids) OBVIOUS
<1>11. BestOK(scores, ids, -2, n, best) BY <1>2, <1>3, <1>4, <1>9, <1>10 DEF ContentBest
<1>12. best.score \in Int /\ best.score >= scores[1] /\ scores[1] >= -1 /\ scores[1] \in Int
  BY <1>1, <1>2, <1>4, <1>11 DEF BestOK
<1>13. best.score # -2 BY <1>12
<1>14. PICK i \in 1..n : best.id = ids[i] /\ best.score = scores[i] BY <1>11, <1>13 DEF BestOK
<1>15. \A j \in 1..n : scores[j] <= scores[i] BY <1>11, <1>14 DEF BestOK
<1>16. \A j \in DOMAIN ids : ContentScore(cs[ids[j]], text) <= ContentScore(cs[ids[i]], text)
  BY <1>2, <1>4, <1>15
<1>17. QED BY <1>2, <1>6, <1>10, <1>14, <1>16

\* The longest of some file types.
LEMMA LongestExists ==
  ASSUME NEW K, K # {}, NEW n \in Nat, \A k \in K : Len(k) \in 1..n
  PROVE  \E k \in K : \A l \in K : Len(l) <= Len(k)
<1> DEFINE B == {b \in Nat : \A k \in K : Len(k) <= b}
<1>1. B \subseteq Nat /\ B # {} BY DEF B
<1>2. PICK b \in B : \A m \in 0..(b - 1) : m \notin B
  <2> HIDE DEF B
  <2>1. QED BY <1>1, TypesFold!LeastNumber
<1>3. b \in Nat /\ \A k \in K : Len(k) <= b BY <1>2
<1>4. \E k \in K : Len(k) = b
  <2>1. SUFFICES ASSUME \A k \in K : Len(k) # b PROVE FALSE OBVIOUS
  <2>2. \A k \in K : Len(k) <= b - 1 BY <1>3, <2>1
  <2>3. b - 1 \in 0..(b - 1) /\ b - 1 \in Nat BY <1>3, <2>2
  <2>4. b - 1 \in B BY <2>2, <2>3
  <2>5. QED BY <1>2, <2>3, <2>4
<1>5. QED BY <1>3, <1>4

\* The keys of a file name are told apart by their lengths.
LEMMA KeysFacts ==
  ASSUME NEW name, name \in Seq(ToSet(name))
  PROVE  /\ Len(name) \in Nat
         /\ \A k \in Keys(name) : Len(k) \in 1..Len(name) /\ k # <<>>
         /\ \A k, l \in Keys(name) : Len(k) = Len(l) => k = l
<1>1. PICK n : n = Len(name) OBVIOUS
<1>2. n \in Nat BY <1>1
<1>3. \A i \in 1..n : Len(SubSeq(name, i, n)) = n - i + 1 BY <1>1, <1>2
<1>4. \A k \in Keys(name) : \E i \in 1..n : k = SubSeq(name, i, n) /\ Len(k) = n - i + 1
  BY <1>1, <1>3 DEF Keys
<1>5. \A k \in Keys(name) : Len(k) \in 1..n BY <1>2, <1>4
<1>6. \A k \in Keys(name) : k # <<>> BY <1>5, EmptyIsSeq
<1>7. ASSUME NEW k \in Keys(name), NEW l \in Keys(name), Len(k) = Len(l) PROVE k = l
  <2>1. PICK i \in 1..n : k = SubSeq(name, i, n) /\ Len(k) = n - i + 1 BY <1>4
  <2>2. PICK j \in 1..n : l = SubSeq(name, j, n) /\ Len(l) = n - j + 1 BY <1>4
  <2>3. i = j BY <1>2, <1>7, <2>1, <2>2
  <2>4. QED BY <2>1, <2>2, <2>3
<1>8. QED BY <1>1, <1>2, <1>5, <1>6, <1>7

\* What language_configuration_for_file_name answers when there are file types of a name.
LEMMA FileNameIs ==
  ASSUME NEW r, NEW name, NEW text, NEW key, key = LongestKnown(r, name), key # <<>>
  PROVE  language_configuration_for_file_name(r, name, text)
         = IF Len(r.types[key]) = 1 THEN r.types[key][1] ELSE BestFor(r, text, r.types[key])
BY Zenon DEF language_configuration_for_file_name, BestFor

Class(c, text) == IF c.content = "" THEN 1 ELSE IF MatchLength(c.content, text) > 0 THEN 2 ELSE 0

\* The longest file type of a configuration that a name ends with.
LEMMA RankFacts ==
  ASSUME NEW c, NEW name, name \in Seq(ToSet(name)), NEW text, HasSuffix(c, name) # {}
  PROVE  /\ \E k \in HasSuffix(c, name) : Rank(c, name, text)[1] = Len(k)
         /\ \A k \in HasSuffix(c, name) : Len(k) <= Rank(c, name, text)[1]
         /\ Rank(c, name, text)[2] = Class(c, text)
<1>1. PICK K : K = HasSuffix(c, name) OBVIOUS
<1>2. PICK n : n = Len(name) OBVIOUS
<1>3. n \in Nat /\ \A k \in K : Len(k) \in 1..n BY <1>1, <1>2, KeysFacts DEF HasSuffix
<1>4. PICK k \in K : \A l \in K : Len(l) <= Len(k) BY <1>1, <1>3, LongestExists
<1> DEFINE L == {Len(l) : l \in K}
<1>5. Len(k) \in L /\ \A l \in K : Len(l) <= Len(k) BY <1>4
<1>6. PICK m : m = CHOOSE x \in L : \A l \in K : Len(l) <= x OBVIOUS
<1>7. m \in L /\ \A l \in K : Len(l) <= m BY <1>5, <1>6
<1>8. Rank(c, name, text)
      = <<m, IF c.content = "" THEN 1 ELSE IF MatchLength(c.content, text) > 0 THEN 2 ELSE 0>>
  BY <1>1, <1>6 DEF Rank
<1>9. PICK class : class = Class(c, text) OBVIOUS
<1>10. Rank(c, name, text) = <<m, class>> BY <1>8, <1>9 DEF Class
<1>11. Rank(c, name, text)[1] = m /\ Rank(c, name, text)[2] = class BY <1>10
<1>12. QED BY <1>1, <1>7, <1>9, <1>11

Claims(r, name) == {i \in DOMAIN r.configurations : HasSuffix(r.configurations[i], name) # {}}

\* The configuration of a file name is one that no other is better than.
LEMMA FileNameBest ==
  ASSUME GrammarsGiven, ContentsTold, NEW r, RegistryOK(r), NEW name \in FileNames, NEW text \in Texts,
         Claims(r, name) # {}
  PROVE  LET id == language_configuration_for_file_name(r, name, text)
         IN  /\ id \in Claims(r, name)
             /\ \A j \in Claims(r, name) :
                  ~Better(Rank(r.configurations[j], name, text), Rank(r.configurations[id], name, text))
<1>1. PICK cs : cs = r.configurations OBVIOUS
<1>2. PICK claim : claim = Claims(r, name) OBVIOUS
<1>3. claim = {i \in DOMAIN cs : HasSuffix(cs[i], name) # {}} /\ claim # {} BY <1>1, <1>2 DEF Claims
<1>4. name \in Seq(ToSet(name)) BY DEF ContentsTold
<1>5. /\ Len(name) \in Nat /\ (\A k \in Keys(name) : Len(k) \in 1..Len(name) /\ k # <<>>)
      /\ \A k, l \in Keys(name) : Len(k) = Len(l) => k = l
  BY <1>4, KeysFacts
<1>6. PICK known : known = Keys(name) \cap DOMAIN r.types OBVIOUS
<1>7. TypesOK(r.types, cs) BY <1>1 DEF RegistryOK
<1>8. \A i \in DOMAIN cs : HasSuffix(cs[i], name) \subseteq known BY <1>6, <1>7 DEF TypesOK, HasSuffix
<1>9. known # {} BY <1>3, <1>8
<1>10. PICK key : key = LongestKnown(r, name) OBVIOUS
<1>11. key \in known /\ \A l \in known : Len(l) <= Len(key)
  <2>1. PICK n \in Nat : n = Len(name) BY <1>5
  <2>2. \A k \in known : Len(k) \in 1..n BY <1>5, <1>6, <2>1
  <2>3. \E k \in known : \A l \in known : Len(l) <= Len(k) BY <1>9, <2>2, LongestExists
  <2>4. key = CHOOSE k \in known : \A l \in known : Len(l) <= Len(k) BY <1>6, <1>9, <1>10 DEF LongestKnown
  <2>5. QED BY <2>3, <2>4
<1>12. key \in Keys(name) /\ key \in DOMAIN r.types /\ key # <<>> /\ Len(key) \in Nat BY <1>5, <1>6, <1>11
<1>13. PICK ids : ids = r.types[key] OBVIOUS
<1>14. IsSeq(ids) /\ ToSet(ids) = {i \in DOMAIN cs : key \in ToSet(cs[i].file_types)}
  BY <1>7, <1>12, <1>13 DEF TypesOK
<1>15. \A i \in ToSet(ids) : i \in DOMAIN cs /\ key \in HasSuffix(cs[i], name) BY <1>12, <1>14 DEF HasSuffix
<1>16. PICK id : id = language_configuration_for_file_name(r, name, text) OBVIOUS
<1>17. id = IF Len(ids) = 1 THEN ids[1] ELSE BestFor(r, text, ids) BY <1>10, <1>12, <1>13, <1>16, FileNameIs
<1>18. Len(ids) \in Nat /\ DOMAIN ids = 1..Len(ids) BY <1>14, AnySeq DEF IsSeq
<1>19. \A i \in DOMAIN cs : ContentScore(cs[i], text) \in Int /\ ContentScore(cs[i], text) >= -1
                            /\ (cs[i].content # "" => ContentScore(cs[i], text) # 0)
                            /\ ContentScore(cs[i], text) = IF cs[i].content = "" THEN 0 ELSE MatchLength(cs[i].content, text)
  <2>1. SUFFICES ASSUME NEW i \in DOMAIN cs
                 PROVE  /\ ContentScore(cs[i], text) \in Int /\ ContentScore(cs[i], text) >= -1
                        /\ (cs[i].content # "" => ContentScore(cs[i], text) # 0)
                        /\ ContentScore(cs[i], text) = IF cs[i].content = "" THEN 0 ELSE MatchLength(cs[i].content, text)
    OBVIOUS
  <2>2. IsConfig(cs[i]) BY <1>1 DEF RegistryOK, Shaped
  <2>3. PICK g \in GrammarsAt(cs[i].root) : cs[i].content = g.content BY <2>2 DEF IsConfig
  <2>4. cs[i].root \in Directories BY <2>2 DEF IsConfig
  <2>5. g.content # "" => /\ MatchLength(g.content, text) \in Int /\ MatchLength(g.content, text) >= -1
                          /\ MatchLength(g.content, text) # 0
    BY <2>3, <2>4 DEF ContentsTold
  <2>6. PICK e : e = cs[i].content OBVIOUS
  <2>7. ContentScore(cs[i], text) = IF e = "" THEN 0 ELSE MatchLength(e, text) BY <2>6 DEF ContentScore
  <2>8. CASE e = ""
    <3>1. ContentScore(cs[i], text) = 0 BY <2>7, <2>8, Zenon
    <3>2. ContentScore(cs[i], text) = IF cs[i].content = "" THEN 0 ELSE MatchLength(cs[i].content, text)
      BY DEF ContentScore
    <3>3. ContentScore(cs[i], text) \in Int /\ ContentScore(cs[i], text) >= -1 BY <3>1
    <3>4. cs[i].content = "" BY <2>6, <2>8
    <3>5. QED BY <3>2, <3>3, <3>4, Zenon
  <2>9. CASE e # "" BY <2>3, <2>5, <2>6, <2>7, <2>9
  <2>10. QED BY <2>8, <2>9
<1>20. id \in ToSet(ids) /\ \A j \in ToSet(ids) : ContentScore(cs[j], text) <= ContentScore(cs[id], text)
  <2>1. DOMAIN ids # {} BY <1>7, <1>12, <1>13 DEF TypesOK
  <2>2. Len(ids) > 0 BY <1>18, <2>1
  <2>3. CASE Len(ids) = 1
    <3>1. id = ids[1] /\ DOMAIN ids = {1} BY <1>17, <1>18, <2>3
    <3>2. ToSet(ids) = {id} BY <3>1 DEF ToSet
    <3>3. id \in DOMAIN cs BY <1>15, <3>2
    <3>4. PICK s \in Int : s = ContentScore(cs[id], text) BY <1>19, <3>3
    <3>5. QED BY <3>2, <3>4
  <2>4. CASE Len(ids) # 1
    <3>1. \A j \in DOMAIN ids : ids[j] \in DOMAIN cs BY <1>15 DEF ToSet
    <3>2. \A j \in DOMAIN ids : ContentScore(cs[ids[j]], text) \in Int /\ ContentScore(cs[ids[j]], text) >= -1
      BY <1>19, <3>1
    <3>3. PICK i \in DOMAIN ids :
            /\ BestFor(r, text, ids) = ids[i]
            /\ \A j \in DOMAIN ids : ContentScore(cs[ids[j]], text) <= ContentScore(cs[ids[i]], text)
      BY <1>1, <1>14, <2>2, <3>2, BestContent
    <3>4. id = ids[i] BY <1>17, <2>4, <3>3
    <3>5. QED BY <3>3, <3>4 DEF ToSet
  <2>5. QED BY <2>3, <2>4
<1>21. id \in claim BY <1>3, <1>15, <1>20
<1>22. ASSUME NEW j \in claim, Better(Rank(cs[j], name, text), Rank(cs[id], name, text)) PROVE FALSE
  <2>1. PICK c, d : c = cs[j] /\ d = cs[id] OBVIOUS
  <2>2. HasSuffix(c, name) # {} /\ HasSuffix(d, name) # {} /\ j \in DOMAIN cs /\ id \in DOMAIN cs
    BY <1>3, <1>21, <2>1
  <2>3. PICK a, b : a = Rank(c, name, text)[1] /\ b = Rank(d, name, text)[1] OBVIOUS
  <2>4. PICK k \in HasSuffix(c, name) : a = Len(k) BY <1>4, <2>2, <2>3, RankFacts
  <2>5. k \in known /\ k \in Keys(name) /\ k \in ToSet(c.file_types) BY <1>6, <1>8, <2>1, <2>2, <2>4 DEF HasSuffix
  <2>6. a <= Len(key) /\ a \in Nat BY <1>5, <1>11, <2>4, <2>5
  <2>7. b = Len(key)
    <3>1. PICK l \in HasSuffix(d, name) : b = Len(l) BY <1>4, <2>2, <2>3, RankFacts
    <3>2. Len(l) \in Nat /\ Len(l) <= Len(key) BY <1>5, <1>8, <1>11, <2>1, <2>2, <3>1 DEF HasSuffix
    <3>3. key \in HasSuffix(d, name) BY <1>15, <1>20, <2>1
    <3>4. Len(key) <= b BY <1>4, <2>2, <2>3, <3>3, RankFacts
    <3>5. QED BY <1>12, <3>1, <3>2, <3>4
  <2>8. Rank(c, name, text)[2] = Class(c, text) /\ Rank(d, name, text)[2] = Class(d, text)
    BY <1>4, <2>2, RankFacts
  <2>9. PICK x, y : x = Class(c, text) /\ y = Class(d, text) OBVIOUS
  <2>10. a > b \/ (a = b /\ x > y) BY <1>22, <2>1, <2>3, <2>8, <2>9 DEF Better
  <2>11. a = b /\ x > y BY <1>12, <2>6, <2>7, <2>10
  <2>12. k = key BY <1>5, <1>12, <2>4, <2>5, <2>7, <2>11
  <2>13. j \in ToSet(ids) BY <1>14, <2>1, <2>2, <2>5, <2>12
  <2>14. PICK s, t : s = ContentScore(c, text) /\ t = ContentScore(d, text) OBVIOUS
  <2>15. s <= t BY <1>20, <2>1, <2>13, <2>14
  <2>16. s \in Int /\ s >= -1 /\ (c.content # "" => s # 0) /\ s = IF c.content = "" THEN 0 ELSE MatchLength(c.content, text)
    BY <1>19, <2>1, <2>2, <2>14
  <2>17. t \in Int /\ t >= -1 /\ (d.content # "" => t # 0) /\ t = IF d.content = "" THEN 0 ELSE MatchLength(d.content, text)
    BY <1>19, <2>1, <2>2, <2>14
  <2>18. x = IF s > 0 THEN 2 ELSE IF s = 0 THEN 1 ELSE 0
    <3>1. CASE c.content = ""
      <4>1. x = 1 BY <2>9, <3>1, Zenon DEF Class
      <4>2. s = 0 BY <2>16, <3>1, Zenon
      <4>3. QED BY <4>1, <4>2
    <3>2. CASE c.content # "" BY <2>9, <2>16, <3>2 DEF Class
    <3>3. QED BY <3>1, <3>2
  <2>19. y = IF t > 0 THEN 2 ELSE IF t = 0 THEN 1 ELSE 0
    <3>1. CASE d.content = ""
      <4>1. y = 1 BY <2>9, <3>1, Zenon DEF Class
      <4>2. t = 0 BY <2>17, <3>1, Zenon
      <4>3. QED BY <4>1, <4>2
    <3>2. CASE d.content # "" BY <2>9, <2>17, <3>2 DEF Class
    <3>3. QED BY <3>1, <3>2
  <2>20. s \in Int /\ t \in Int BY <2>16, <2>17
  <2>21. QED BY <2>11, <2>15, <2>18, <2>19, <2>20
<1>23. QED BY <1>1, <1>2, <1>16, <1>21, <1>22

\* The language of the best configuration is selected.
LEMMA FileTypeFollows ==
  ASSUME GrammarsGiven, ContentsTold, RegistryOK(registry)
  PROVE  FileTypeDecides
<1>1. SUFFICES ASSUME NEW file \in AllFiles, NEW order \in Orders(DOMAIN registry.lines),
                      Claims(registry, file.name) # {}
               PROVE  IsBest(Selected(file, order), file, Claims(registry, file.name))
  BY DEF FileTypeDecides, Configs, Claims
<1>2. PICK name \in FileNames, text \in Texts : name = file.name /\ text = file.text BY DEF AllFiles
<1>3. PICK id : id = language_configuration_for_file_name(registry, name, text) OBVIOUS
<1>4. PICK claim : claim = Claims(registry, name) OBVIOUS
<1>5. /\ id \in claim
      /\ \A j \in claim : ~Better(Rank(registry.configurations[j], name, text), Rank(registry.configurations[id], name, text))
  BY <1>1, <1>2, <1>3, <1>4, FileNameBest
<1>6. Good(registry) BY GoodNow
<1>7. PICK at : at = Found(registry, id, FALSE) OBVIOUS
<1>8. IsAnswer(at) /\ at.id = id /\ at.registry.configurations = registry.configurations /\ at.ok
  <2>1. PICK fails : fails = FALSE OBVIOUS
  <2>2. at = Found(registry, id, fails) BY <1>7, <2>1
  <2>3. /\ IsAnswer(at) /\ at.id = id /\ at.registry.configurations = registry.configurations
        /\ ~fails => at.ok
    BY <1>6, <2>2, FoundIsGood
  <2>4. QED BY <2>1, <2>3
<1>9. id # 0
  <2>1. id \in DOMAIN registry.configurations BY <1>4, <1>5 DEF Claims
  <2>2. IsSeq(registry.configurations) BY DEF RegistryOK, Shaped
  <2>3. QED BY <2>1, <2>2, AnySeq DEF IsSeq
<1>10. name # <<>>
  <2>1. SUFFICES ASSUME name = <<>> PROVE FALSE OBVIOUS
  <2>2. PICK i \in DOMAIN registry.configurations : HasSuffix(registry.configurations[i], name) # {}
    BY <1>1, <1>2 DEF Claims
  <2>3. Keys(name) = {} BY <2>1, EmptyIsSeq DEF Keys
  <2>4. QED BY <2>2, <2>3 DEF HasSuffix
<1>11. PICK language : language = registry.configurations[id].language OBVIOUS
<1>12. LanguageFound(at) = [at EXCEPT !.id = language] BY <1>8, <1>9, <1>11 DEF LanguageFound
<1>13. Selected(file, order) = LanguageFound(at)
  <2>1. select_language(registry, "", file, order, FALSE) = ByCurrentPath(at, file, order, FALSE)
    BY <1>2, <1>3, <1>7, <1>10 DEF select_language
  <2>2. ByCurrentPath(at, file, order, FALSE) = LanguageFound(at) BY <1>8, <1>9 DEF ByCurrentPath
  <2>3. QED BY <2>1, <2>2 DEF Selected
<1>14. PICK q : q = Selected(file, order) OBVIOUS
<1>15. q.ok /\ q.id = language
  <2>1. PICK r, ok, n : at = [registry |-> r, ok |-> ok, id |-> n] BY <1>8 DEF IsAnswer
  <2>2. q = [registry |-> r, ok |-> ok, id |-> language] BY <1>12, <1>13, <1>14, <2>1
  <2>3. QED BY <1>8, <2>1, <2>2
<1>16. IsBest(q, file, claim) BY <1>2, <1>5, <1>11, <1>15 DEF IsBest, Configs
<1>17. QED BY <1>2, <1>4, <1>14, <1>16

\* FileTypeDecides holds for any directories, file names and contents, as long as no
\* expression on the content matches an empty string.
THEOREM FileTypesDecide ==
  ASSUME GrammarsGiven, ContentsTold
  PROVE  ConfSpec => []FileTypeDecides
<1>1. ConfInit => RegistryOK(registry) BY RegistryInit
<1>2. RegistryOK(registry) /\ [ConfNext]_confVars => RegistryOK(registry)' BY RegistryNext
<1>3. RegistryOK(registry) => FileTypeDecides BY FileTypeFollows
<1>4. QED BY <1>1, <1>2, <1>3, PTL DEF ConfSpec

-----------------------------------------------------------------------------
(* The names of highlights                                                   *)

\* A list of names goes on.
Grows(names, more) ==
  /\ IsSeq(more) /\ Len(names) <= Len(more)
  /\ \A i \in 1..Len(names) : more[i] = names[i]

NamesOp(names, captures, w, a, c) == IF Contains(a, c) THEN a ELSE Append(a, c)
NamesSoFar(names, captures, w, k, a) ==
  Grows(names, a) /\ ToSet(a) = ToSet(names) \cup {captures[j] : j \in 1..k}
NamesFold == INSTANCE FoldInduction WITH Op <- NamesOp, P <- NamesSoFar

\* The captures that are not among the names are put behind them.
LEMMA NamesWithFacts ==
  ASSUME NEW names, IsSeq(names), NEW captures, IsSeq(captures)
  PROVE  /\ Grows(names, NamesWith(names, captures))
         /\ ToSet(NamesWith(names, captures)) = ToSet(names) \cup ToSet(captures)
<1>1. PICK n : n = Len(captures) OBVIOUS
<1>2. n \in Nat /\ DOMAIN captures = 1..n /\ Len(names) \in Nat BY <1>1, AnySeq DEF IsSeq
<1>3. NamesWith(names, captures) = NamesFold!Fold(names, captures, 0, names, captures)
  BY Zenon DEF NamesWith, NamesFold!Fold, NamesOp, FoldLeft, MapThenFoldSet, Max, NamesFold!FoldLeft,
               NamesFold!MapThenFoldSet, NamesFold!Max, Contains, NamesFold!Contains
<1>4. NamesSoFar(names, captures, 0, 0, names)
  <2>1. {captures[j] : j \in 1..0} = {} OBVIOUS
  <2>2. QED BY <1>2, <2>1 DEF NamesSoFar, Grows
<1>5. ASSUME NEW k \in 1..n, NEW x, NamesSoFar(names, captures, 0, k - 1, x)
      PROVE  NamesSoFar(names, captures, 0, k, NamesOp(names, captures, 0, x, captures[k]))
  <2>1. PICK c : c = captures[k] OBVIOUS
  <2>2. Grows(names, x) /\ ToSet(x) = ToSet(names) \cup {captures[j] : j \in 1..(k - 1)} BY <1>5 DEF NamesSoFar
  <2>3. {captures[j] : j \in 1..k} = {captures[j] : j \in 1..(k - 1)} \cup {c} BY <1>2, <2>1
  <2>4. IsSeq(x) /\ Len(x) \in Nat /\ DOMAIN x = 1..Len(x) BY <2>2, AnySeq DEF Grows, IsSeq
  <2>5. CASE Contains(x, c)
    <3>1. NamesOp(names, captures, 0, x, c) = x BY <2>5 DEF NamesOp
    <3>2. c \in ToSet(x) BY <2>4, <2>5 DEF Contains, ToSet
    <3>3. QED BY <2>1, <2>2, <2>3, <3>1, <3>2 DEF NamesSoFar
  <2>6. CASE ~Contains(x, c)
    <3>1. PICK y : y = Append(x, c) OBVIOUS
    <3>2. NamesOp(names, captures, 0, x, c) = y BY <2>6, <3>1 DEF NamesOp
    <3>3. /\ IsSeq(y) /\ Len(y) = Len(x) + 1 /\ DOMAIN y = 1..(Len(x) + 1)
          /\ (\A i \in 1..Len(x) : y[i] = x[i]) /\ y[Len(x) + 1] = c
      BY <2>4, <3>1, AppendFacts
    <3>4. ToSet(y) = ToSet(x) \cup {c} BY <2>4, <3>3 DEF ToSet
    <3>5. Grows(names, y) BY <1>2, <2>2, <2>4, <3>3 DEF Grows
    <3>6. QED BY <2>1, <2>2, <2>3, <3>2, <3>4, <3>5 DEF NamesSoFar
  <2>7. QED BY <2>5, <2>6
<1> HIDE DEF NamesSoFar, NamesOp
<1>6. NamesSoFar(names, captures, 0, n, NamesFold!Fold(names, captures, 0, names, captures))
  BY <1>2, <1>4, <1>5, NamesFold!FoldKeeps
<1>7. ToSet(captures) = {captures[j] : j \in 1..n} BY <1>2 DEF ToSet
<1>8. QED BY <1>3, <1>6, <1>7 DEF NamesSoFar

NameScore(names, capture, k) == IF Matches(names[k], capture) THEN Len(names[k]) ELSE 0
IndexOp(names, capture, ids, best, k) ==
  IF NameScore(names, capture, k) > best.score THEN [id |-> k, score |-> NameScore(names, capture, k)] ELSE best
NameScores(names, capture) == [k \in DOMAIN names |-> NameScore(names, capture, k)]
IndexBest(names, capture, ids, k, best) ==
  (\A j \in DOMAIN names : NameScores(names, capture)[j] \in Int) => BestOK(NameScores(names, capture), ids, 0, k, best)
IndexFold == INSTANCE FoldInduction WITH Op <- IndexOp, P <- IndexBest

\* The index of a longest name that matches a capture.
LEMMA IndexFacts ==
  ASSUME NEW names, IsSeq(names), \A i \in DOMAIN names : Len(names[i]) \in Nat, NEW capture
  PROVE  LET index == IndexFor(capture, names)
         IN  /\ index \in 0..Len(names)
             /\ index # 0 => Matches(names[index], capture)
             /\ \A k \in DOMAIN names : Matches(names[k], capture) /\ Len(names[k]) > 0 =>
                  index # 0 /\ Len(names[k]) <= Len(names[index])
<1>1. PICK n : n = Len(names) OBVIOUS
<1>2. n \in Nat /\ DOMAIN names = 1..n BY <1>1, AnySeq DEF IsSeq
<1>3. PICK scores : scores = NameScores(names, capture) OBVIOUS
<1>4. \A j \in 1..n : /\ scores[j] = NameScore(names, capture, j) /\ scores[j] \in Int
                      /\ scores[j] = IF Matches(names[j], capture) THEN Len(names[j]) ELSE 0
  BY <1>2, <1>3 DEF NameScores, NameScore
<1>5. PICK base : base = [id |-> 0, score |-> 0] OBVIOUS
<1>6. PICK ids : ids = [k \in DOMAIN names |-> k] OBVIOUS
<1>7. DOMAIN ids = 1..n /\ \A j \in 1..n : ids[j] = j BY <1>2, <1>6
<1>8. IndexFor(capture, names) = IndexFold!Fold(names, capture, ids, base, ids).id
  <2>1. IndexFor(capture, names)
        = IndexFold!Fold(names, capture, ids, [id |-> 0, score |-> 0], [k \in DOMAIN names |-> k]).id
    BY Zenon DEF IndexFor, FirstBest, IndexFold!Fold, IndexOp, NameScore,
        FoldLeft, MapThenFoldSet, Max, IndexFold!FoldLeft, IndexFold!MapThenFoldSet, IndexFold!Max
  <2>2. QED BY <1>5, <1>6, <2>1
<1>9. IndexBest(names, capture, ids, 0, base) BY <1>3, <1>5, BestNone DEF IndexBest
<1>10. ASSUME NEW k \in 1..n, NEW x, IndexBest(names, capture, ids, k - 1, x)
       PROVE  IndexBest(names, capture, ids, k, IndexOp(names, capture, ids, x, ids[k]))
  <2>1. BestOK(scores, ids, 0, k - 1, x) BY <1>2, <1>3, <1>4, <1>10 DEF IndexBest
  <2>2. PICK next : next = IF scores[k] > x.score THEN [id |-> ids[k], score |-> scores[k]] ELSE x OBVIOUS
  <2>3. PICK bound \in Int : bound = 0 OBVIOUS
  <2>4. BestOK(scores, ids, bound, k, next) BY <1>2, <1>4, <2>1, <2>2, <2>3, BestStep
  <2>5. IndexOp(names, capture, ids, x, ids[k]) = next BY <1>4, <1>7, <2>2 DEF IndexOp
  <2>6. QED BY <1>3, <2>3, <2>4, <2>5 DEF IndexBest
<1> HIDE DEF IndexBest, IndexOp
<1>11. IndexBest(names, capture, ids, n, IndexFold!Fold(names, capture, ids, base, ids))
  BY <1>2, <1>7, <1>9, <1>10, IndexFold!FoldKeeps
<1>12. PICK best : best = IndexFold!Fold(names, capture, ids, base, ids) OBVIOUS
<1>13. BestOK(scores, ids, 0, n, best) BY <1>2, <1>3, <1>4, <1>11, <1>12 DEF IndexBest
<1>14. PICK index : index = IndexFor(capture, names) OBVIOUS
<1>15. index = best.id BY <1>8, <1>12, <1>14
<1>16. \/ index = 0 /\ best.score = 0
       \/ index \in 1..n /\ best.score = scores[index] /\ best.score > 0
  BY <1>7, <1>13, <1>15 DEF BestOK
<1>17. index \in 0..n /\ (index # 0 => Matches(names[index], capture) /\ best.score = Len(names[index]))
  BY <1>2, <1>4, <1>16
<1>18. ASSUME NEW k \in DOMAIN names, Matches(names[k], capture), Len(names[k]) > 0
       PROVE  index # 0 /\ Len(names[k]) <= Len(names[index])
  <2>1. scores[k] = Len(names[k]) /\ scores[k] <= best.score /\ scores[k] \in Int /\ best.score \in Int
    BY <1>2, <1>4, <1>13, <1>18 DEF BestOK
  <2>2. index # 0 BY <1>16, <1>18, <2>1
  <2>3. QED BY <1>17, <2>1, <2>2
<1>19. QED BY <1>1, <1>14, <1>17, <1>18

\* What is said of a cell and the names it was made with.
CellOK(cell, names, all) ==
  \A k \in DOMAIN cell.indices :
    /\ cell.indices[k] \in 0..Len(names)
    /\ cell.indices[k] # 0 => Matches(names[cell.indices[k]], cell.captures[k])
    /\ all => cell.indices[k] # 0 /\ names[cell.indices[k]] = cell.captures[k]

\* Names have parts, and are those of captures when all are in use.
NamesOK(names, all) ==
  /\ IsSeq(names)
  /\ \A i \in DOMAIN names : Len(names[i]) \in Nat \ {0}
  /\ all => ToSet(names) \subseteq CaptureNames

\* The indices stay true when the list goes on.
LEMMA CellGrows ==
  ASSUME NEW names, IsSeq(names), NEW more, Grows(names, more), NEW cell, NEW all, CellOK(cell, names, all)
  PROVE  CellOK(cell, more, all)
<1>1. Len(names) \in Nat /\ Len(more) \in Nat BY AnySeq DEF IsSeq, Grows
<1>2. SUFFICES ASSUME NEW k \in DOMAIN cell.indices, NEW index, index = cell.indices[k]
               PROVE  /\ index \in 0..Len(more)
                      /\ index # 0 => Matches(more[index], cell.captures[k])
                      /\ all => index # 0 /\ more[index] = cell.captures[k]
  BY DEF CellOK
<1>3. /\ index \in 0..Len(names)
      /\ index # 0 => Matches(names[index], cell.captures[k])
      /\ all => index # 0 /\ names[index] = cell.captures[k]
  BY <1>2 DEF CellOK
<1>4. index # 0 => more[index] = names[index] BY <1>1, <1>3 DEF Grows
<1>5. index \in 0..Len(more) BY <1>1, <1>3 DEF Grows
<1>6. QED BY <1>3, <1>4, <1>5

\* The indices that configure finds.
LEMMA ConfiguredOK ==
  ASSUME CapturesTold, NEW names, NEW all, NamesOK(names, all),
         NEW captures, ToSet(captures) \subseteq CaptureNames, all => ToSet(captures) \subseteq ToSet(names),
         NEW cell, cell.captures = captures, cell.indices = configure(captures, names)
  PROVE  CellOK(cell, names, all)
<1>1. DOMAIN cell.indices = DOMAIN captures /\ \A k \in DOMAIN captures : cell.indices[k] = IndexFor(captures[k], names)
  BY DEF configure
<1>2. IsSeq(names) /\ (\A i \in DOMAIN names : Len(names[i]) \in Nat \ {0}) BY DEF NamesOK
<1>3. Len(names) \in Nat /\ DOMAIN names = 1..Len(names) BY <1>2, AnySeq DEF IsSeq
<1>4. SUFFICES ASSUME NEW k \in DOMAIN captures, NEW index, index = IndexFor(captures[k], names),
                      NEW capture, capture = captures[k]
               PROVE  /\ index \in 0..Len(names)
                      /\ index # 0 => Matches(names[index], capture)
                      /\ all => index # 0 /\ names[index] = capture
  BY <1>1 DEF CellOK
<1>5. /\ index \in 0..Len(names)
      /\ index # 0 => Matches(names[index], capture)
      /\ \A j \in DOMAIN names : Matches(names[j], capture) /\ Len(names[j]) > 0 =>
           index # 0 /\ Len(names[j]) <= Len(names[index])
  BY <1>2, <1>4, IndexFacts
<1>6. ASSUME all PROVE index # 0 /\ names[index] = capture
  <2>1. capture \in ToSet(captures) BY <1>4 DEF ToSet
  <2>2. PICK j \in DOMAIN names : names[j] = capture BY <1>6, <2>1 DEF ToSet
  <2>3. Matches(names[j], capture) BY <2>2 DEF Matches
  <2>4. Len(names[j]) > 0 BY <1>2
  <2>5. index # 0 /\ Len(capture) <= Len(names[index]) BY <1>5, <2>2, <2>3, <2>4
  <2>6. index \in DOMAIN names BY <1>3, <1>5, <2>5
  <2>7. names[index] \in CaptureNames /\ capture \in CaptureNames BY <1>6, <2>1, <2>6 DEF NamesOK, ToSet
  <2>8. Len(names[index]) >= Len(capture) BY <1>2, <2>2, <2>5, <2>6
  <2>9. \A a, b \in CaptureNames : Matches(a, b) /\ Len(a) >= Len(b) => a = b BY DEF CapturesTold
  <2>10. QED BY <1>5, <2>5, <2>7, <2>8, <2>9
<1>7. QED BY <1>5, <1>6

\* The concatenation of two sequences.
LEMMA ConcatFacts ==
  ASSUME NEW s, IsSeq(s), NEW t, IsSeq(t)
  PROVE  /\ IsSeq(s \o t) /\ Len(s) \in Nat /\ Len(t) \in Nat /\ Len(s \o t) = Len(s) + Len(t)
         /\ DOMAIN (s \o t) = 1..(Len(s) + Len(t))
         /\ \A i \in 1..(Len(s) + Len(t)) : (s \o t)[i] = IF i <= Len(s) THEN s[i] ELSE t[i - Len(s)]
         /\ ToSet(s \o t) = ToSet(s) \cup ToSet(t)
<1> DEFINE S == {s[i] : i \in DOMAIN s} \cup {t[i] : i \in DOMAIN t}
<1>1. s \in Seq(S) /\ t \in Seq(S) BY SeqMonotonic DEF IsSeq
<1> HIDE DEF S
<1>2. /\ s \o t \in Seq(S) /\ Len(s \o t) = Len(s) + Len(t)
      /\ \A i \in 1..(Len(s) + Len(t)) : (s \o t)[i] = IF i <= Len(s) THEN s[i] ELSE t[i - Len(s)]
  BY <1>1, ConcatProperties
<1>3. PICK u : u = s \o t OBVIOUS
<1>4. IsSeq(u) /\ DOMAIN u = 1..Len(u) /\ DOMAIN s = 1..Len(s) /\ DOMAIN t = 1..Len(t)
      /\ Len(s) \in Nat /\ Len(t) \in Nat
  BY <1>1, <1>2, <1>3, AnySeq
<1>5. Len(u) = Len(s) + Len(t) /\ \A i \in 1..(Len(s) + Len(t)) : u[i] = IF i <= Len(s) THEN s[i] ELSE t[i - Len(s)]
  BY <1>2, <1>3
<1>6. ToSet(u) = ToSet(s) \cup ToSet(t)
  <2>1. \A i \in DOMAIN u : u[i] \in ToSet(s) \cup ToSet(t)
    <3>1. SUFFICES ASSUME NEW i \in DOMAIN u PROVE u[i] \in ToSet(s) \cup ToSet(t) OBVIOUS
    <3>2. CASE i <= Len(s) BY <1>4, <1>5, <3>2 DEF ToSet
    <3>3. CASE ~(i <= Len(s))
      <4>1. i - Len(s) \in DOMAIN t /\ u[i] = t[i - Len(s)] BY <1>4, <1>5, <3>3
      <4>2. QED BY <4>1 DEF ToSet
    <3>4. QED BY <3>2, <3>3
  <2>2. \A i \in DOMAIN s : s[i] \in ToSet(u)
    <3>1. SUFFICES ASSUME NEW i \in DOMAIN s PROVE s[i] \in ToSet(u) OBVIOUS
    <3>2. i \in DOMAIN u /\ u[i] = s[i] BY <1>4, <1>5
    <3>3. QED BY <3>2 DEF ToSet
  <2>3. \A i \in DOMAIN t : t[i] \in ToSet(u)
    <3>1. SUFFICES ASSUME NEW i \in DOMAIN t PROVE t[i] \in ToSet(u) OBVIOUS
    <3>2. i + Len(s) \in DOMAIN u /\ u[i + Len(s)] = t[i] BY <1>4, <1>5
    <3>3. QED BY <3>2 DEF ToSet
  <2>4. QED BY <2>1, <2>2, <2>3 DEF ToSet
<1>7. QED BY <1>3, <1>4, <1>5, <1>6

PathOp(paths, kind, w, a, f) == IF f[1] = kind THEN Append(a, f) ELSE a
PathsSoFar(paths, kind, w, k, a) == IsSeq(a) /\ ToSet(a) \subseteq ToSet(paths)
PathFold == INSTANCE FoldInduction WITH Op <- PathOp, P <- PathsSoFar

\* The paths of a kind are some of those that are passed.
LEMMA PathsFacts ==
  ASSUME NEW paths, IsSeq(paths), NEW kind
  PROVE  IsSeq(PathsOf(paths, kind)) /\ ToSet(PathsOf(paths, kind)) \subseteq ToSet(paths)
<1>1. PICK n : n = Len(paths) OBVIOUS
<1>2. n \in Nat /\ DOMAIN paths = 1..n BY <1>1, AnySeq DEF IsSeq
<1>3. PathsOf(paths, kind) = PathFold!Fold(paths, kind, 0, <<>>, paths)
  BY Zenon DEF PathsOf, PathFold!Fold, PathOp, FoldLeft, MapThenFoldSet, Max, PathFold!FoldLeft,
               PathFold!MapThenFoldSet, PathFold!Max
<1>4. PathsSoFar(paths, kind, 0, 0, <<>>) BY EmptyIsSeq DEF PathsSoFar, ToSet
<1>5. ASSUME NEW k \in 1..n, NEW x, PathsSoFar(paths, kind, 0, k - 1, x)
      PROVE  PathsSoFar(paths, kind, 0, k, PathOp(paths, kind, 0, x, paths[k]))
  <2>1. PICK f : f = paths[k] OBVIOUS
  <2>2. f \in ToSet(paths) BY <1>2, <2>1 DEF ToSet
  <2>3. IsSeq(x) /\ ToSet(x) \subseteq ToSet(paths) BY <1>5 DEF PathsSoFar
  <2>4. PICK y : y = Append(x, f) OBVIOUS
  <2>5. /\ IsSeq(y) /\ Len(x) \in Nat /\ DOMAIN x = 1..Len(x) /\ DOMAIN y = 1..(Len(x) + 1)
        /\ (\A i \in 1..Len(x) : y[i] = x[i]) /\ y[Len(x) + 1] = f
    BY <2>3, <2>4, AppendFacts
  <2>6. ToSet(y) = ToSet(x) \cup {f} BY <2>5 DEF ToSet
  <2>7. PathOp(paths, kind, 0, x, f) \in {x, y} BY <2>4 DEF PathOp
  <2>8. QED BY <2>1, <2>2, <2>3, <2>5, <2>6, <2>7 DEF PathsSoFar
<1> HIDE DEF PathsSoFar, PathOp
<1>6. PathsSoFar(paths, kind, 0, n, PathFold!Fold(paths, kind, 0, <<>>, paths))
  BY <1>2, <1>4, <1>5, PathFold!FoldKeeps
<1>7. QED BY <1>3, <1>6 DEF PathsSoFar

\* The files of a section, and what is in them.
SectionOK(section, dir) ==
  /\ IsSeq(section.files) /\ IsSeq(section.contents) /\ DOMAIN section.contents = DOMAIN section.files
  /\ \A i \in DOMAIN section.files : /\ section.files[i] \in QueryFiles(dir)
                                     /\ section.contents[i] = QueryFile(dir, section.files[i])

\* What is known of a query file.
LEMMA QueryFileFacts ==
  ASSUME QueriesGiven, NEW dir \in Directories, NEW section, SectionOK(section, dir), NEW i \in DOMAIN section.contents
  PROVE  LET f == section.contents[i]
         IN  /\ f.length \in Nat /\ f.fault \in Int /\ f.fault < f.length
             /\ IsSeq(f.captures) /\ ToSet(f.captures) \subseteq CaptureNames
<1>1. PICK f : f = section.contents[i] OBVIOUS
<1>2. PICK file : file = section.files[i] OBVIOUS
<1>3. file \in QueryFiles(dir) /\ f = QueryFile(dir, file) BY <1>1, <1>2 DEF SectionOK
<1>4. /\ f.length \in Nat /\ f.fault \in Int /\ f.fault < f.length /\ f.captures \in Seq(ToSet(f.captures))
  BY <1>3 DEF QueriesGiven
<1>5. IsSeq(f.captures) BY <1>4, AnySeq
<1>6. ToSet(f.captures) \subseteq CaptureNames BY <1>3 DEF CaptureNames
<1>7. QED BY <1>1, <1>4, <1>5, <1>6

\* A section that is read.
LEMMA SectionRead ==
  ASSUME NEW c, NEW given, NEW kind \in Kinds,
         \A files \in given : IsSeq(files) /\ ToSet(files) \subseteq QueryFiles(c.root)
  PROVE  SectionOK(read_queries(c, given, kind), c.root)
<1>1. PICK dir : dir = c.root OBVIOUS
<1>2. PICK one : one = <<<<kind, 0>>>> OBVIOUS
<1>3. PICK files : files = IF given # {} THEN CHOOSE f \in given : TRUE
                           ELSE IF QueryFile(c.root, <<kind, 0>>).exists THEN <<<<kind, 0>>>> ELSE <<>>
  OBVIOUS
<1>4. PICK contents : contents = [i \in DOMAIN files |-> QueryFile(dir, files[i])] OBVIOUS
<1>5. PICK s : s = read_queries(c, given, kind) OBVIOUS
<1>6. s.files = files /\ s.contents = contents BY <1>1, <1>3, <1>4, <1>5 DEF read_queries
<1>7. IsSeq(files) /\ ToSet(files) \subseteq QueryFiles(dir)
  <2>1. CASE given # {} BY <1>1, <1>3, <2>1
  <2>2. CASE given = {}
    <3>1. files \in {one, <<>>} BY <1>2, <1>3, <2>2
    <3>2. PICK e : e = <<kind, 0>> OBVIOUS
    <3>3. one = Append(<<>>, e) BY <1>2, <3>2, AppendEmpty
    <3>4. IsSeq(one) /\ DOMAIN one = 1..1 /\ one[1] = e
      <4>1. PICK z : z = <<>> OBVIOUS
      <4>2. IsSeq(z) /\ Len(z) = 0 BY <4>1, EmptyIsSeq
      <4>3. one = Append(z, e) BY <3>3, <4>1
      <4>4. IsSeq(one) /\ DOMAIN one = 1..(Len(z) + 1) /\ one[Len(z) + 1] = e BY <4>2, <4>3, AppendFacts
      <4>5. QED BY <4>2, <4>4
    <3>5. ToSet(one) = {e} BY <3>4 DEF ToSet
    <3>6. e \in QueryFiles(dir) BY <3>2 DEF QueryFiles
    <3>7. ToSet(<<>>) = {} BY EmptyIsSeq DEF ToSet
    <3>8. QED BY <3>1, <3>4, <3>5, <3>6, <3>7, EmptyIsSeq
  <2>3. QED BY <2>1, <2>2
<1>8. Len(files) \in Nat /\ DOMAIN files = 1..Len(files) BY <1>7, AnySeq DEF IsSeq
<1>9. DOMAIN contents = DOMAIN files /\ \A i \in DOMAIN files : contents[i] = QueryFile(dir, files[i]) BY <1>4
<1>10. IsSeq(contents)
  <2>1. contents = [i \in 1..Len(files) |-> contents[i]] BY <1>4, <1>8
  <2>2. PICK S : S = {contents[i] : i \in DOMAIN contents} OBVIOUS
  <2>3. contents \in [1..Len(files) -> S] BY <1>8, <1>9, <2>1, <2>2
  <2>4. contents \in Seq(S) BY <1>8, <2>3, SeqDef
  <2>5. QED BY <2>2, <2>4 DEF IsSeq
<1>11. SectionOK(s, dir) BY <1>6, <1>7, <1>9, <1>10 DEF SectionOK, ToSet
<1>12. QED BY <1>1, <1>5, <1>11

\* The files of a grammar, and those that are passed.
LEMMA GivenFacts ==
  ASSUME QueriesGiven, NEW c, IsConfig(c), NEW paths \in QueryPaths \cup {<<>>}, NEW kind \in Kinds, NEW looked
  PROVE  /\ \A files \in c.queries[kind] : IsSeq(files) /\ ToSet(files) \subseteq QueryFiles(c.root)
         /\ \A files \in Passed(c, paths, kind, looked) : IsSeq(files) /\ ToSet(files) \subseteq QueryFiles(c.root)
<1>1. PICK dir \in Directories : dir = c.root BY DEF IsConfig
<1>2. PICK g \in GrammarsAt(dir) : c.queries = g.queries BY <1>1 DEF IsConfig
<1>3. ASSUME NEW files \in c.queries[kind] PROVE IsSeq(files) /\ ToSet(files) \subseteq QueryFiles(dir)
  <2>1. files \in g.queries[kind] BY <1>2, <1>3
  <2>2. files \in Seq(ToSet(files)) BY <1>1, <1>2, <2>1 DEF QueriesGiven
  <2>3. IsSeq(files) BY <2>2, AnySeq
  <2>4. ToSet(files) \subseteq FilesOf(g)
    <3>1. PICK all : all = UNION {ToSet(f) : f \in g.queries[kind]} OBVIOUS
    <3>2. ToSet(files) \subseteq all BY <2>1, <3>1
    <3>3. all \subseteq FilesOf(g) BY <3>1 DEF FilesOf
    <3>4. QED BY <3>2, <3>3
  <2>5. FilesOf(g) \subseteq QueryFiles(dir)
    <3>1. FilesOf(g) \in {FilesOf(h) : h \in GrammarsAt(dir)} BY <1>2
    <3>2. QED BY <3>1 DEF QueryFiles
  <2>6. QED BY <2>3, <2>4, <2>5
<1>4. ASSUME paths # <<>> PROVE IsSeq(PathsOf(paths, looked)) /\ ToSet(PathsOf(paths, looked)) \subseteq QueryFiles(dir)
  <2>1. paths \in QueryPaths BY <1>4
  <2>2. paths \in Seq(ToSet(paths)) BY <2>1 DEF QueriesGiven
  <2>3. IsSeq(paths) BY <2>2, AnySeq
  <2>4. IsSeq(PathsOf(paths, looked)) /\ ToSet(PathsOf(paths, looked)) \subseteq ToSet(paths) BY <2>3, PathsFacts
  <2>5. ToSet(paths) \subseteq QueryFiles(dir) BY <2>1 DEF QueryFiles
  <2>6. QED BY <2>4, <2>5
<1>5. QED BY <1>1, <1>3, <1>4 DEF Passed

\* The sections of the queries of a configuration.
LEMMA SectionsRead ==
  ASSUME QueriesGiven, NEW c, IsConfig(c), NEW paths \in QueryPaths \cup {<<>>}, NEW kind \in Kinds, NEW looked
  PROVE  /\ SectionOK(read_queries(c, c.queries[kind], kind), c.root)
         /\ SectionOK(read_queries(c, Passed(c, paths, kind, looked), kind), c.root)
<1>1. PICK given : given = c.queries[kind] OBVIOUS
<1>2. PICK passed : passed = Passed(c, paths, kind, looked) OBVIOUS
<1>3. \A files \in given : IsSeq(files) /\ ToSet(files) \subseteq QueryFiles(c.root) BY <1>1, GivenFacts
<1>4. \A files \in passed : IsSeq(files) /\ ToSet(files) \subseteq QueryFiles(c.root) BY <1>2, GivenFacts
<1>5. SectionOK(read_queries(c, given, kind), c.root) BY <1>3, SectionRead
<1>6. SectionOK(read_queries(c, passed, kind), c.root) BY <1>4, SectionRead
<1>7. QED BY <1>1, <1>2, <1>5, <1>6

CaptureOp(section, v, w, a, f) == a \o f.captures
CapturesSoFar(section, v, w, k, a) == IsSeq(a) /\ ToSet(a) \subseteq CaptureNames
CaptureFold == INSTANCE FoldInduction WITH Op <- CaptureOp, P <- CapturesSoFar

\* The captures of a section.
LEMMA CapturesFacts ==
  ASSUME QueriesGiven, NEW dir \in Directories, NEW section, SectionOK(section, dir)
  PROVE  IsSeq(Captures(section)) /\ ToSet(Captures(section)) \subseteq CaptureNames
<1>1. PICK s : s = section.contents OBVIOUS
<1>2. PICK n : n = Len(s) OBVIOUS
<1>3. IsSeq(s) BY <1>1 DEF SectionOK
<1>4. n \in Nat /\ DOMAIN s = 1..n BY <1>2, <1>3, AnySeq DEF IsSeq
<1>5. Captures(section) = CaptureFold!Fold(section, 0, 0, <<>>, s)
  <2>1. Captures(section) = CaptureFold!Fold(section, 0, 0, <<>>, section.contents)
    BY Zenon DEF Captures, CaptureFold!Fold, CaptureOp, FoldLeft, MapThenFoldSet, Max, CaptureFold!FoldLeft,
                 CaptureFold!MapThenFoldSet, CaptureFold!Max
  <2>2. QED BY <1>1, <2>1
<1>6. CapturesSoFar(section, 0, 0, 0, <<>>) BY EmptyIsSeq DEF CapturesSoFar, ToSet
<1>7. ASSUME NEW k \in 1..n, NEW x, CapturesSoFar(section, 0, 0, k - 1, x)
      PROVE  CapturesSoFar(section, 0, 0, k, CaptureOp(section, 0, 0, x, s[k]))
  <2>1. PICK e : e = s[k].captures OBVIOUS
  <2>2. IsSeq(e) /\ ToSet(e) \subseteq CaptureNames BY <1>1, <1>4, <2>1, QueryFileFacts
  <2>3. IsSeq(x) /\ ToSet(x) \subseteq CaptureNames BY <1>7 DEF CapturesSoFar
  <2>4. IsSeq(x \o e) /\ ToSet(x \o e) = ToSet(x) \cup ToSet(e) BY <2>2, <2>3, ConcatFacts
  <2>5. CaptureOp(section, 0, 0, x, s[k]) = x \o e BY <2>1 DEF CaptureOp
  <2>6. QED BY <2>2, <2>3, <2>4, <2>5 DEF CapturesSoFar
<1> HIDE DEF CapturesSoFar, CaptureOp
<1>8. CapturesSoFar(section, 0, 0, n, CaptureFold!Fold(section, 0, 0, <<>>, s))
  BY <1>4, <1>6, <1>7, CaptureFold!FoldKeeps
<1>9. QED BY <1>5, <1>8 DEF CapturesSoFar

Made(captures, names) == [made |-> TRUE, captures |-> captures, indices |-> configure(captures, names)]

\* One of several outcomes.
LEMMA OutcomeIs ==
  ASSUME NEW ok, NEW cell, NEW names, NEW error, NEW out,
         out = [ok |-> ok, cell |-> cell, names |-> names, error |-> error]
  PROVE  out.cell = cell /\ out.names = names /\ out.error = error
OBVIOUS

\* What highlight_config leaves.
LEMMA HighlightIs ==
  ASSUME NEW c, NEW names, NEW use_all, NEW paths, NEW out, out = highlight_config(c, names, use_all, paths),
         NEW highlights, highlights = read_queries(c, Passed(c, paths, "highlights", "highlights"), "highlights"),
         NEW injections, injections = read_queries(c, Passed(c, paths, "injections", "tags"), "injections"),
         NEW locals, locals = read_queries(c, Passed(c, paths, "locals", "locals"), "locals"),
         NEW captures,
         captures = NamesWith(<<>>, Captures(injections) \o Captures(locals) \o Captures(highlights)),
         NEW all, all = IF use_all THEN NamesWith(names, captures) ELSE names,
         NEW sections, sections = <<injections, locals, highlights>>
  PROVE  /\ \/ out.names = names /\ out.cell \in {c.highlight, NoConfig, Made(<<>>, <<>>)}
            \/ out.names = all /\ out.cell = Made(captures, all)
         /\ out.error = {} \/ (Fault(sections) >= 0 /\ out.error = {Located(sections, Fault(sections))})
<1>1. PICK fault : fault = Fault(sections) OBVIOUS
<1>2. PICK made : made = Made(captures, all) OBVIOUS
<1>3. PICK none : none = Made(<<>>, <<>>) OBVIOUS
<1>4. PICK place : place = Located(sections, fault) OBVIOUS
<1>5. PICK length : length = highlights.length OBVIOUS
<1>6. out = IF c.highlight.made THEN [ok |-> TRUE, cell |-> c.highlight, names |-> names, error |-> {}]
             ELSE IF ~(highlights.ok /\ injections.ok /\ locals.ok)
             THEN [ok |-> FALSE, cell |-> NoConfig, names |-> names, error |-> {}]
             ELSE IF length = 0 THEN [ok |-> TRUE, cell |-> none, names |-> names, error |-> {}]
             ELSE IF fault >= 0 THEN [ok |-> FALSE, cell |-> NoConfig, names |-> names, error |-> {place}]
             ELSE [ok |-> TRUE, cell |-> made, names |-> all, error |-> {}]
  BY <1>1, <1>2, <1>3, <1>4, <1>5, Zenon DEF highlight_config, Made
<1>7. PICK x1 : x1 = [ok |-> TRUE, cell |-> c.highlight, names |-> names, error |-> {}] OBVIOUS
<1>8. PICK x2 : x2 = [ok |-> FALSE, cell |-> NoConfig, names |-> names, error |-> {}] OBVIOUS
<1>9. PICK x3 : x3 = [ok |-> TRUE, cell |-> none, names |-> names, error |-> {}] OBVIOUS
<1>10. PICK x4 : x4 = [ok |-> FALSE, cell |-> NoConfig, names |-> names, error |-> {place}] OBVIOUS
<1>11. PICK x5 : x5 = [ok |-> TRUE, cell |-> made, names |-> all, error |-> {}] OBVIOUS
<1>12. out = x1 \/ out = x2 \/ out = x3 \/ (fault >= 0 /\ out = x4) \/ out = x5
  BY <1>6, <1>7, <1>8, <1>9, <1>10, <1>11, Zenon
<1>13. /\ x1.cell = c.highlight /\ x1.names = names /\ x1.error = {}
       /\ x2.cell = NoConfig /\ x2.names = names /\ x2.error = {}
       /\ x3.cell = none /\ x3.names = names /\ x3.error = {}
       /\ x4.cell = NoConfig /\ x4.names = names /\ x4.error = {place}
       /\ x5.cell = made /\ x5.names = all /\ x5.error = {}
  BY <1>7, <1>8, <1>9, <1>10, <1>11, OutcomeIs, Zenon
<1>14. /\ \/ out.names = names /\ out.cell \in {c.highlight, NoConfig, none}
          \/ out.names = all /\ out.cell = made
       /\ out.error = {} \/ (fault >= 0 /\ out.error = {place})
  BY <1>12, <1>13, Zenon
<1>15. QED BY <1>1, <1>2, <1>3, <1>4, <1>14, Zenon

\* The names and the cell after highlight_config.
LEMMA HighlightOK ==
  ASSUME QueriesGiven, CapturesTold, NEW c, IsConfig(c), NEW paths \in QueryPaths \cup {<<>>},
         NEW names, NEW all, NamesOK(names, all), CellOK(c.highlight, names, all), NEW out,
         out = highlight_config(c, names, all, paths)
  PROVE  NamesOK(out.names, all) /\ Grows(names, out.names) /\ CellOK(out.cell, out.names, all)
<1>0. PICK dir \in Directories : dir = c.root BY DEF IsConfig
<1>1. PICK highlights : highlights = read_queries(c, Passed(c, paths, "highlights", "highlights"), "highlights") OBVIOUS
<1>2. PICK injections : injections = read_queries(c, Passed(c, paths, "injections", "tags"), "injections") OBVIOUS
<1>3. PICK locals : locals = read_queries(c, Passed(c, paths, "locals", "locals"), "locals") OBVIOUS
<1>4. SectionOK(highlights, dir) /\ SectionOK(injections, dir) /\ SectionOK(locals, dir)
  <2>1. "highlights" \in Kinds /\ "injections" \in Kinds /\ "locals" \in Kinds BY DEF Kinds
  <2>2. SectionOK(highlights, dir) BY <1>0, <1>1, <2>1, SectionsRead
  <2>3. SectionOK(injections, dir) BY <1>0, <1>2, <2>1, SectionsRead
  <2>4. SectionOK(locals, dir) BY <1>0, <1>3, <2>1, SectionsRead
  <2>5. QED BY <2>2, <2>3, <2>4
<1>5. PICK h, i, l : h = Captures(highlights) /\ i = Captures(injections) /\ l = Captures(locals) OBVIOUS
<1>6. /\ IsSeq(h) /\ ToSet(h) \subseteq CaptureNames /\ IsSeq(i) /\ ToSet(i) \subseteq CaptureNames
      /\ IsSeq(l) /\ ToSet(l) \subseteq CaptureNames
  BY <1>4, <1>5, CapturesFacts
<1>7. PICK il : il = i \o l OBVIOUS
<1>8. IsSeq(il) /\ ToSet(il) \subseteq CaptureNames BY <1>6, <1>7, ConcatFacts
<1>9. PICK ilh : ilh = il \o h OBVIOUS
<1>10. IsSeq(ilh) /\ ToSet(ilh) \subseteq CaptureNames BY <1>6, <1>8, <1>9, ConcatFacts
<1>11. PICK captures : captures = NamesWith(<<>>, ilh) OBVIOUS
<1>12. IsSeq(captures) /\ ToSet(captures) \subseteq CaptureNames
  <2>1. PICK z : z = <<>> OBVIOUS
  <2>2. IsSeq(z) /\ ToSet(z) = {} BY <2>1, EmptyIsSeq DEF ToSet
  <2>3. Grows(z, captures) /\ ToSet(captures) = ToSet(z) \cup ToSet(ilh) BY <1>10, <1>11, <2>1, <2>2, NamesWithFacts
  <2>4. QED BY <1>10, <2>2, <2>3 DEF Grows
<1>13. PICK more : more = NamesWith(names, captures) OBVIOUS
<1>14. PICK now : now = IF all THEN more ELSE names OBVIOUS
<1>15. IsSeq(names) /\ (\A j \in DOMAIN names : Len(names[j]) \in Nat \ {0}) /\ (all => ToSet(names) \subseteq CaptureNames)
  BY DEF NamesOK
<1>16. Grows(names, more) /\ ToSet(more) = ToSet(names) \cup ToSet(captures)
  BY <1>12, <1>13, <1>15, NamesWithFacts
<1>17. Grows(names, names)
  <2>1. Len(names) \in Nat BY <1>15, AnySeq DEF IsSeq
  <2>2. QED BY <1>15, <2>1 DEF Grows
<1>18. Grows(names, now) BY <1>14, <1>16, <1>17
<1>19. NamesOK(now, all)
  <2>1. CASE all
    <3>1. now = more BY <1>14, <2>1
    <3>2. IsSeq(more) /\ ToSet(more) \subseteq CaptureNames BY <1>12, <1>15, <1>16, <2>1 DEF Grows
    <3>3. \A j \in DOMAIN more : Len(more[j]) \in Nat \ {0} BY <3>2 DEF CapturesTold, ToSet
    <3>4. QED BY <3>1, <3>2, <3>3 DEF NamesOK
  <2>2. CASE ~all BY <1>14, <2>2
  <2>3. QED BY <2>1, <2>2
<1>20. all => ToSet(captures) \subseteq ToSet(now) BY <1>14, <1>16
<1>21. CellOK(Made(captures, now), now, all)
  <2>1. PICK cell : cell = Made(captures, now) OBVIOUS
  <2>2. cell.captures = captures /\ cell.indices = configure(captures, now) BY <2>1 DEF Made
  <2>3. CellOK(cell, now, all) BY <1>12, <1>19, <1>20, <2>2, ConfiguredOK
  <2>4. QED BY <2>1, <2>3
<1>22. CellOK(NoConfig, names, all)
  <2>1. NoConfig.indices = <<>> BY DEF NoConfig
  <2>2. QED BY <2>1, EmptyIsSeq DEF CellOK
<1>23. CellOK(Made(<<>>, <<>>), names, all)
  <2>1. PICK cell : cell = Made(<<>>, <<>>) OBVIOUS
  <2>2. cell.indices = configure(<<>>, <<>>) BY <2>1 DEF Made
  <2>3. DOMAIN cell.indices = {} BY <2>2, EmptyIsSeq DEF configure
  <2>4. CellOK(cell, names, all) BY <2>3 DEF CellOK
  <2>5. QED BY <2>1, <2>4
<1>24. \/ out.names = names /\ out.cell \in {c.highlight, NoConfig, Made(<<>>, <<>>)}
       \/ out.names = now /\ out.cell = Made(captures, now)
  <2>1. captures = NamesWith(<<>>, Captures(injections) \o Captures(locals) \o Captures(highlights))
    BY <1>5, <1>7, <1>9, <1>11
  <2>2. now = IF all THEN NamesWith(names, captures) ELSE names BY <1>13, <1>14
  <2>3. PICK sections : sections = <<injections, locals, highlights>> OBVIOUS
  <2>4. QED BY <1>1, <1>2, <1>3, <2>1, <2>2, <2>3, HighlightIs
<1>25. QED BY <1>17, <1>18, <1>19, <1>21, <1>22, <1>23, <1>24

-----------------------------------------------------------------------------
(* The indices of highlights                                                 *)

\* With the registry, the names and the cells that were made of them.
CellsOK ==
  \A i \in DOMAIN registry.configurations :
    CellOK(registry.configurations[i].highlight, highlight_names, use_all_highlight_names)

HighlightInv ==
  /\ RegistryOK(registry)
  /\ NamesOK(highlight_names, use_all_highlight_names)
  /\ CellsOK

\* Loader::new.
LEMMA HighlightInit ==
  ASSUME CapturesTold, ConfInit
  PROVE  HighlightInv
<1>1. RegistryOK(registry) BY RegistryInit
<1>2. registry.configurations = <<>> BY DEF ConfInit
<1>3. CellsOK BY <1>2, EmptyIsSeq DEF CellsOK
<1>4. PICK names \in NameLists : names = highlight_names BY DEF ConfInit
<1>5. IsSeq(names) BY AnySeq DEF CapturesTold
<1>6. \A i \in DOMAIN names : Len(names[i]) \in Nat \ {0}
  <2>1. SUFFICES ASSUME NEW i \in DOMAIN names PROVE Len(names[i]) \in Nat \ {0} OBVIOUS
  <2>2. names[i] \in UNION {ToSet(l) : l \in NameLists} BY DEF ToSet
  <2>3. QED BY <2>2 DEF CapturesTold
<1>7. use_all_highlight_names => ToSet(names) \subseteq CaptureNames BY <1>4, EmptyIsSeq DEF ConfInit, ToSet
<1>8. NamesOK(names, use_all_highlight_names) BY <1>5, <1>6, <1>7 DEF NamesOK
<1>9. QED BY <1>1, <1>3, <1>4, <1>8 DEF HighlightInv

\* Cells that come from those there were are right when those were.
LEMMA CellsKept ==
  ASSUME CellsOK, NEW r, CellsFrom(r), registry' = r,
         highlight_names' = highlight_names, use_all_highlight_names' = use_all_highlight_names
  PROVE  CellsOK'
<1>1. CellOK(NoConfig, highlight_names, use_all_highlight_names)
  <2>1. NoConfig.indices = <<>> BY DEF NoConfig
  <2>2. QED BY <2>1, EmptyIsSeq DEF CellOK
<1>2. \A cell \in Cells \cup {NoConfig} : CellOK(cell, highlight_names, use_all_highlight_names)
  BY <1>1 DEF CellsOK, Cells
<1>3. \A i \in DOMAIN r.configurations : CellOK(r.configurations[i].highlight, highlight_names, use_all_highlight_names)
  BY <1>2 DEF CellsFrom
<1>4. QED BY <1>3 DEF CellsOK

\* Each step leaves the cells right.
LEMMA HighlightNext ==
  ASSUME GrammarsGiven, QueriesGiven, CapturesTold, HighlightInv, [ConfNext]_confVars
  PROVE  HighlightInv'
<1>1. RegistryOK(registry) /\ NamesOK(highlight_names, use_all_highlight_names) /\ CellsOK BY DEF HighlightInv
<1>2. RegistryOK(registry') BY <1>1, RegistryNext
<1>3. Good(registry) BY <1>1, GoodNow
<1>4. CASE UNCHANGED confVars
  <2>1. registry' = registry /\ highlight_names' = highlight_names /\ use_all_highlight_names' = use_all_highlight_names
    BY <1>4 DEF confVars
  <2>2. QED BY <1>1, <1>2, <2>1 DEF HighlightInv, CellsOK
<1>5. CASE Discover
  <2>1. /\ registry' = FindAll(registry) /\ highlight_names' = highlight_names
        /\ use_all_highlight_names' = use_all_highlight_names
    BY <1>5 DEF Discover
  <2>2. CellsFrom(FindAll(registry)) BY <1>3, FindAllGood DEF Good
  <2>3. CellsOK' BY <1>1, <2>1, <2>2, CellsKept
  <2>4. QED BY <1>1, <1>2, <2>1, <2>3 DEF HighlightInv
<1>6. CASE \E fails \in BOOLEAN : \E scope, file : \E order \in Orders(DOMAIN registry.lines) :
              Select(scope, file, order, fails)
  <2>0. PICK fails \in BOOLEAN : \E scope, file : \E order \in Orders(DOMAIN registry.lines) :
              Select(scope, file, order, fails)
    BY <1>6
  <2>1. PICK scope, file : \E order \in Orders(DOMAIN registry.lines) : Select(scope, file, order, fails)
    BY <2>0
  <2>2. PICK order \in Orders(DOMAIN registry.lines) : Select(scope, file, order, fails) BY <2>1
  <2>3. IsFiniteSet(DOMAIN registry.lines) BY <1>1 DEF RegistryOK, LinesOK
  <2>4. PICK n \in Nat : DOMAIN order = 1..n BY <2>3, OrderFacts
  <2>5. PICK at : at = select_language(registry, scope, file, order, fails) OBVIOUS
  <2>6. GoodAnswer(at) BY <1>3, <2>4, <2>5, SelectGood
  <2>7. /\ registry' = at.registry /\ highlight_names' = highlight_names
        /\ use_all_highlight_names' = use_all_highlight_names
    BY <2>2, <2>5 DEF Select
  <2>8. CellsFrom(at.registry) BY <2>6 DEF GoodAnswer, Good
  <2>9. CellsOK' BY <1>1, <2>7, <2>8, CellsKept
  <2>10. QED BY <1>1, <1>2, <2>7, <2>9 DEF HighlightInv
<1>7. CASE \E fails \in BOOLEAN : \E id \in DOMAIN registry.configurations :
              Tags(id, fails) \/ \E paths \in QueryPaths \cup {<<>>} : Highlight(id, paths, fails)
  <2>1. PICK fails \in BOOLEAN, id \in DOMAIN registry.configurations :
              Tags(id, fails) \/ \E paths \in QueryPaths \cup {<<>>} : Highlight(id, paths, fails)
    BY <1>7
  <2>2. PICK at : at = Found(registry, id, fails) OBVIOUS
  <2>3. PICK r : r = at.registry OBVIOUS
  <2>4. RegistryOK(r) /\ r.configurations = registry.configurations /\ id \in DOMAIN r.configurations
    BY <1>1, <2>2, <2>3, GoodNow
  <2>5. CellsFrom(r) BY <2>4 DEF CellsFrom, Cells
  <2>6. CASE Tags(id, fails)
    <3>1. PICK x : x = tags_config(registry.configurations[id]).cell OBVIOUS
    <3>2. PICK t : t = [r EXCEPT !.configurations[id].tags = x] OBVIOUS
    <3>3. /\ registry' = (IF at.ok THEN t ELSE r) /\ highlight_names' = highlight_names
          /\ use_all_highlight_names' = use_all_highlight_names
      BY <2>2, <2>3, <2>6, <3>1, <3>2 DEF Tags
    <3>4. /\ DOMAIN t.configurations = DOMAIN r.configurations
          /\ \A i \in DOMAIN t.configurations : t.configurations[i].highlight = r.configurations[i].highlight
      BY <2>4, <3>2, CellMade
    <3>5. CellsFrom(t) BY <2>5, <3>4 DEF CellsFrom
    <3>6. PICK q : q = (IF at.ok THEN t ELSE r) OBVIOUS
    <3>7. CellsFrom(q) BY <2>5, <3>5, <3>6
    <3>8. CellsOK' BY <1>1, <3>3, <3>6, <3>7, CellsKept
    <3>9. QED BY <1>1, <1>2, <3>3, <3>8 DEF HighlightInv
  <2>7. ASSUME NEW paths \in QueryPaths \cup {<<>>}, Highlight(id, paths, fails) PROVE HighlightInv'
    <3>1. PICK c : c = registry.configurations[id] OBVIOUS
    <3>2. PICK names, all : names = highlight_names /\ all = use_all_highlight_names OBVIOUS
    <3>3. PICK out : out = highlight_config(c, names, all, paths) OBVIOUS
    <3>4. PICK q : q = [r EXCEPT !.configurations[id].highlight = out.cell] OBVIOUS
    <3>5. /\ registry' = (IF at.ok THEN q ELSE r) /\ highlight_names' = (IF at.ok THEN out.names ELSE names)
          /\ use_all_highlight_names' = all
      BY <2>2, <2>3, <2>7, <3>1, <3>2, <3>3, <3>4 DEF Highlight
    <3>6. IsConfig(c) /\ CellOK(c.highlight, names, all) BY <1>1, <3>1, <3>2 DEF RegistryOK, Shaped, CellsOK
    <3>7. NamesOK(names, all) BY <1>1, <3>2
    <3>8. NamesOK(out.names, all) /\ Grows(names, out.names) /\ CellOK(out.cell, out.names, all)
      BY <3>3, <3>6, <3>7, HighlightOK
    <3>9. CASE ~at.ok
      <4>1. registry' = r /\ highlight_names' = highlight_names /\ use_all_highlight_names' = use_all_highlight_names
        BY <3>2, <3>5, <3>9
      <4>2. CellsOK' BY <1>1, <2>5, <4>1, CellsKept
      <4>3. QED BY <1>1, <1>2, <4>1, <4>2 DEF HighlightInv
    <3>10. CASE at.ok
      <4>1. registry' = q /\ highlight_names' = out.names /\ use_all_highlight_names' = all BY <3>5, <3>10
      <4>2. /\ DOMAIN q.configurations = DOMAIN r.configurations
            /\ \A i \in DOMAIN q.configurations :
                 q.configurations[i].highlight = IF i = id THEN out.cell ELSE r.configurations[i].highlight
        BY <2>4, <3>4, CellMade
      <4>3. IsSeq(names) BY <3>7 DEF NamesOK
      <4>4. \A i \in DOMAIN r.configurations : CellOK(r.configurations[i].highlight, out.names, all)
        <5>1. SUFFICES ASSUME NEW i \in DOMAIN r.configurations
                       PROVE  CellOK(r.configurations[i].highlight, out.names, all)
          OBVIOUS
        <5>2. PICK cell : cell = r.configurations[i].highlight OBVIOUS
        <5>3. CellOK(cell, names, all) BY <1>1, <2>4, <3>2, <5>2 DEF CellsOK
        <5>4. CellOK(cell, out.names, all) BY <3>8, <4>3, <5>3, CellGrows
        <5>5. QED BY <5>2, <5>4
      <4>5. \A i \in DOMAIN q.configurations : CellOK(q.configurations[i].highlight, out.names, all)
        BY <3>8, <4>2, <4>4
      <4>6. CellsOK' BY <4>1, <4>5 DEF CellsOK
      <4>7. QED BY <1>2, <3>8, <4>1, <4>6 DEF HighlightInv
    <3>11. QED BY <3>9, <3>10
  <2>8. QED BY <2>1, <2>6, <2>7
<1>8. QED BY <1>1, <1>4, <1>5, <1>6, <1>7, NextCases

\* HighlightsResolve holds for any directories and lists of names: the indices that were
\* given to a configuration are those of names that match, of the list as it is now.
THEOREM HighlightNamesResolve ==
  ASSUME GrammarsGiven, QueriesGiven, CapturesTold
  PROVE  ConfSpec => []HighlightsResolve
<1>1. ConfInit => HighlightInv BY HighlightInit
<1>2. HighlightInv /\ [ConfNext]_confVars => HighlightInv' BY HighlightNext
<1>3. ASSUME HighlightInv PROVE HighlightsResolve
  <2>1. IsSeq(highlight_names) BY <1>3 DEF HighlightInv, NamesOK
  <2>2. Len(highlight_names) \in Nat BY <2>1, AnySeq DEF IsSeq
  <2>3. SUFFICES ASSUME NEW i \in DOMAIN Configs, NEW cell, cell = Configs[i].highlight, NEW k \in DOMAIN cell.indices,
                        NEW index, index = cell.indices[k]
                 PROVE  /\ index <= Len(highlight_names)
                        /\ index # 0 => Matches(highlight_names[index], cell.captures[k])
                        /\ use_all_highlight_names => highlight_names[index] = cell.captures[k]
    BY DEF HighlightsResolve
  <2>4. CellOK(cell, highlight_names, use_all_highlight_names) BY <1>3, <2>3 DEF HighlightInv, CellsOK, Configs
  <2>5. index \in 0..Len(highlight_names) BY <2>3, <2>4 DEF CellOK
  <2>6. QED BY <2>2, <2>3, <2>4, <2>5 DEF CellOK
<1>4. QED BY <1>1, <1>2, <1>3, PTL DEF ConfSpec

-----------------------------------------------------------------------------
(* Where the faults of queries are                                           *)

\* A set with 0 and the successors of its numbers has them all.
LEMMA UpTo ==
  ASSUME NEW n \in Nat, NEW G, 0 \in G, \A k \in 1..n : k - 1 \in G => k \in G
  PROVE  \A k \in 0..n : k \in G
<1> DEFINE bad == {k \in 0..n : k \notin G}
<1>1. SUFFICES ASSUME bad # {} PROVE FALSE OBVIOUS
<1>2. PICK k \in bad : \A m \in 0..(k - 1) : m \notin bad
  <2>1. bad \subseteq Nat OBVIOUS
  <2> HIDE DEF bad
  <2>2. QED BY <1>1, <2>1, TypesFold!LeastNumber
<1>3. k # 0 BY <1>2
<1>4. k \in 1..n /\ k - 1 \in 0..(k - 1) /\ k - 1 \in 0..n BY <1>2, <1>3
<1>5. QED BY <1>2, <1>4

\* The first elements of a sequence.
LEMMA FirstElements ==
  ASSUME NEW s, IsSeq(s), NEW k \in 0..Len(s)
  PROVE  /\ IsSeq(SubSeq(s, 1, k)) /\ DOMAIN SubSeq(s, 1, k) = 1..k /\ Len(SubSeq(s, 1, k)) = k
         /\ \A i \in 1..k : SubSeq(s, 1, k)[i] = s[i]
<1> DEFINE S == {s[i] : i \in DOMAIN s}
<1>1. s \in Seq(S) BY DEF IsSeq
<1> HIDE DEF S
<1>2. Len(s) \in Nat BY <1>1
<1>3. PICK t : t = SubSeq(s, 1, k) OBVIOUS
<1>4. t \in Seq(S) /\ Len(t) = k /\ \A i \in 1..k : t[i] = s[i] BY <1>1, <1>2, <1>3
<1>5. IsSeq(t) /\ DOMAIN t = 1..k BY <1>4, AnySeq
<1>6. QED BY <1>3, <1>4, <1>5

\* Two sequences with the same elements.
LEMMA SameSeq ==
  ASSUME NEW s, IsSeq(s), NEW t, IsSeq(t), Len(s) = Len(t), \A i \in 1..Len(s) : s[i] = t[i]
  PROVE  s = t
<1> DEFINE S == {s[i] : i \in DOMAIN s} \cup {t[i] : i \in DOMAIN t}
<1>1. s \in Seq(S) /\ t \in Seq(S) BY SeqMonotonic DEF IsSeq
<1> HIDE DEF S
<1>2. QED BY <1>1, SeqEqual

LengthOp(h, v, w, a, f) == a + f.length
LengthSoFar(h, v, w, k, a) == a = h[k]
LengthFold == INSTANCE FoldInduction WITH Op <- LengthOp, P <- LengthSoFar

HaveLengths(s) == \A i \in DOMAIN s : s[i].length \in Nat

\* The text in front of one element after the other.
LEMMA LengthSteps ==
  ASSUME NEW s, IsSeq(s), HaveLengths(s)
  PROVE  /\ LengthBefore(s, 1) = 0
         /\ \A k \in 1..Len(s) : LengthBefore(s, k) \in Nat /\ LengthBefore(s, k + 1) = LengthBefore(s, k) + s[k].length
         /\ LengthBefore(s, Len(s) + 1) = LengthOf(s) /\ LengthOf(s) \in Nat
<1>1. PICK n : n = Len(s) OBVIOUS
<1>2. n \in Nat /\ DOMAIN s = 1..n BY <1>1, AnySeq DEF IsSeq
<1>3. PICK h : LengthFold!Steps(h, 0, 0, 0, 0, s, n) BY <1>2, LengthFold!FoldSteps, Zenon
<1>4. h[0] = 0 /\ (\A k \in 1..n : h[k] = LengthOp(0, 0, 0, h[k - 1], s[k])) /\ h[n] = LengthFold!Fold(0, 0, 0, 0, s)
  BY <1>3 DEF LengthFold!Steps
<1>5. \A k \in 1..n : h[k] = h[k - 1] + s[k].length BY <1>4 DEF LengthOp
<1>6. \A k \in 0..n : h[k] \in Nat
  <2> DEFINE G == {k \in 0..n : h[k] \in Nat}
  <2>1. 0 \in G BY <1>2, <1>4
  <2>2. ASSUME NEW k \in 1..n, k - 1 \in G PROVE k \in G
    <3>1. h[k - 1] \in Nat /\ s[k].length \in Nat BY <1>2, <2>2 DEF HaveLengths
    <3>2. QED BY <1>5, <3>1
  <2>3. \A k \in 0..n : k \in G
    <3> HIDE DEF G
    <3>1. QED BY <1>2, <2>1, <2>2, UpTo
  <2>4. QED BY <2>3
<1>7. \A t : LengthOf(t) = LengthFold!Fold(h, 0, 0, 0, t)
  BY Zenon DEF LengthOf, LengthFold!Fold, LengthOp, FoldLeft, MapThenFoldSet, Max, LengthFold!FoldLeft,
               LengthFold!MapThenFoldSet, LengthFold!Max
<1>8. ASSUME NEW k \in 0..n PROVE LengthOf(SubSeq(s, 1, k)) = h[k]
  <2>1. PICK t : t = SubSeq(s, 1, k) OBVIOUS
  <2>2. DOMAIN t = 1..k /\ \A i \in 1..k : t[i] = s[i] BY <1>1, <2>1, FirstElements
  <2>3. LengthSoFar(h, 0, 0, 0, 0) BY <1>4 DEF LengthSoFar
  <2>4. ASSUME NEW i \in 1..k, NEW x, LengthSoFar(h, 0, 0, i - 1, x)
        PROVE  LengthSoFar(h, 0, 0, i, LengthOp(h, 0, 0, x, t[i]))
    <3>1. i \in 1..n /\ t[i] = s[i] BY <1>2, <2>2
    <3>2. QED BY <1>5, <2>4, <3>1 DEF LengthSoFar, LengthOp
  <2>5. k \in Nat BY <1>2
  <2> HIDE DEF LengthSoFar, LengthOp
  <2>6. LengthSoFar(h, 0, 0, k, LengthFold!Fold(h, 0, 0, 0, t)) BY <2>2, <2>3, <2>4, <2>5, LengthFold!FoldKeeps
  <2>7. QED BY <1>7, <2>1, <2>6 DEF LengthSoFar
<1>9. ASSUME NEW k \in 1..(n + 1) PROVE LengthBefore(s, k) = h[k - 1]
  <2>1. PICK j \in 0..n : j = k - 1 BY <1>2
  <2>2. LengthBefore(s, k) = LengthOf(SubSeq(s, 1, j)) BY <2>1 DEF LengthBefore
  <2>3. QED BY <1>8, <2>1, <2>2
<1>10. SubSeq(s, 1, n) = s
  <2>1. PICK t : t = SubSeq(s, 1, n) OBVIOUS
  <2>2. IsSeq(t) /\ Len(t) = n /\ \A i \in 1..n : t[i] = s[i] BY <1>1, <1>2, <2>1, FirstElements
  <2>3. t = s BY <1>1, <2>2, SameSeq
  <2>4. QED BY <2>1, <2>3
<1>11. LengthOf(s) = h[n]
  <2>1. n \in 0..n BY <1>2
  <2>2. LengthOf(SubSeq(s, 1, n)) = h[n] BY <1>8, <2>1
  <2>3. QED BY <1>10, <2>2, Zenon
<1>12. LengthBefore(s, 1) = 0 BY <1>2, <1>4, <1>9
<1>13. ASSUME NEW k \in 1..n
       PROVE  LengthBefore(s, k) \in Nat /\ LengthBefore(s, k + 1) = LengthBefore(s, k) + s[k].length
  <2>1. LengthBefore(s, k) = h[k - 1] /\ LengthBefore(s, k + 1) = h[k] BY <1>2, <1>9
  <2>2. QED BY <1>2, <1>5, <1>6, <2>1
<1>14. LengthBefore(s, n + 1) = h[n] BY <1>2, <1>9
<1>15. QED BY <1>1, <1>2, <1>6, <1>11, <1>12, <1>13, <1>14

\* What comes later has more in front of it.
LEMMA LengthGrows ==
  ASSUME NEW s, IsSeq(s), HaveLengths(s), NEW i \in 1..(Len(s) + 1), NEW j \in 1..(Len(s) + 1), i <= j
  PROVE  LengthBefore(s, i) \in Nat /\ LengthBefore(s, j) \in Nat /\ LengthBefore(s, i) <= LengthBefore(s, j)
<1>1. PICK n : n = Len(s) OBVIOUS
<1>2. n \in Nat /\ DOMAIN s = 1..n BY <1>1, AnySeq DEF IsSeq
<1>3. PICK b : b = [k \in 1..(n + 1) |-> LengthBefore(s, k)] OBVIOUS
<1>4. \A k \in 1..(n + 1) : b[k] = LengthBefore(s, k) /\ b[k] \in Nat
  <2>1. \A k \in 1..(n + 1) : LengthBefore(s, k) \in Nat
    <3>1. SUFFICES ASSUME NEW k \in 1..(n + 1) PROVE LengthBefore(s, k) \in Nat OBVIOUS
    <3>2. CASE k \in 1..n BY <1>1, <3>2, LengthSteps
    <3>3. CASE k = n + 1 BY <1>1, <3>3, LengthSteps
    <3>4. QED BY <1>2, <3>2, <3>3
  <2>2. QED BY <1>3, <2>1
<1>5. \A k \in 1..n : b[k + 1] >= b[k]
  <2>1. SUFFICES ASSUME NEW k \in 1..n PROVE b[k + 1] >= b[k] OBVIOUS
  <2>2. LengthBefore(s, k + 1) = LengthBefore(s, k) + s[k].length BY <1>1, LengthSteps
  <2>3. s[k].length \in Nat BY <1>2 DEF HaveLengths
  <2>4. k + 1 \in 1..(n + 1) /\ k \in 1..(n + 1) BY <1>2
  <2>5. b[k + 1] = b[k] + s[k].length BY <1>4, <2>2, <2>4
  <2>6. b[k] \in Nat BY <1>4, <2>4
  <2>7. QED BY <2>3, <2>5, <2>6
<1> DEFINE G == {k \in 0..n : \A m \in 1..(k + 1) : b[m] <= b[k + 1]}
<1>6. 0 \in G BY <1>2, <1>4
<1>7. ASSUME NEW k \in 1..n, k - 1 \in G PROVE k \in G
  <2>1. \A m \in 1..k : b[m] <= b[k]
    <3>1. k - 1 + 1 = k BY <1>2
    <3>2. QED BY <1>7, <3>1
  <2>2. b[k + 1] \in Nat /\ b[k] \in Nat /\ b[k] <= b[k + 1] BY <1>2, <1>4, <1>5
  <2>3. SUFFICES ASSUME NEW m \in 1..(k + 1) PROVE b[m] <= b[k + 1] BY <1>2
  <2>4. m \in 1..k \/ m = k + 1 BY <1>2
  <2>5. b[m] \in Nat BY <1>2, <1>4
  <2>6. QED BY <2>1, <2>2, <2>4, <2>5
<1>8. \A k \in 0..n : k \in G
  <2> HIDE DEF G
  <2>1. QED BY <1>2, <1>6, <1>7, UpTo
<1>9. PICK k \in 0..n : j = k + 1
  <2>1. j - 1 \in 0..n /\ j = (j - 1) + 1 BY <1>1, <1>2
  <2>2. QED BY <2>1
<1>10. b[i] <= b[j] BY <1>1, <1>2, <1>8, <1>9
<1>11. QED BY <1>1, <1>4, <1>10

\* One sequence is two others one after the other.
Joined(y, a, b) ==
  /\ IsSeq(y) /\ HaveLengths(y) /\ LengthOf(y) = LengthOf(a) + LengthOf(b)
  /\ \A i \in DOMAIN a : i \in DOMAIN y /\ y[i] = a[i] /\ LengthBefore(y, i) = LengthBefore(a, i)
  /\ \A j \in DOMAIN b : /\ Len(a) + j \in DOMAIN y /\ y[Len(a) + j] = b[j]
                         /\ LengthBefore(y, Len(a) + j) = LengthOf(a) + LengthBefore(b, j)
  /\ \A i \in DOMAIN y : i \in DOMAIN a \/ \E j \in DOMAIN b : i = Len(a) + j

\* The text in front of an element of two sequences one after the other.
LEMMA LengthConcat ==
  ASSUME NEW a, IsSeq(a), HaveLengths(a), NEW b, IsSeq(b), HaveLengths(b), NEW y, y = a \o b
  PROVE  Joined(y, a, b)
<1>1. PICK m, n : m = Len(a) /\ n = Len(b) OBVIOUS
<1>2. m \in Nat /\ DOMAIN a = 1..m /\ n \in Nat /\ DOMAIN b = 1..n BY <1>1, AnySeq DEF IsSeq
<1>3. /\ IsSeq(y) /\ Len(y) = m + n /\ DOMAIN y = 1..(m + n)
      /\ \A i \in 1..(m + n) : y[i] = IF i <= m THEN a[i] ELSE b[i - m]
  BY <1>1, ConcatFacts
<1>4. \A i \in 1..m : i \in DOMAIN y /\ y[i] = a[i] BY <1>2, <1>3
<1>5. \A j \in 1..n : m + j \in DOMAIN y /\ y[m + j] = b[j]
  <2>1. SUFFICES ASSUME NEW j \in 1..n PROVE m + j \in DOMAIN y /\ y[m + j] = b[j] OBVIOUS
  <2>2. m + j \in 1..(m + n) /\ ~(m + j <= m) /\ (m + j) - m = j BY <1>2
  <2>3. QED BY <1>3, <2>2
<1>6. \A i \in DOMAIN y : i \in 1..m \/ \E j \in 1..n : i = m + j
  <2>1. SUFFICES ASSUME NEW i \in DOMAIN y, i \notin 1..m PROVE \E j \in 1..n : i = m + j OBVIOUS
  <2>2. i - m \in 1..n /\ i = m + (i - m) BY <1>2, <1>3, <2>1
  <2>3. QED BY <2>2
<1>7. HaveLengths(y)
  <2>1. SUFFICES ASSUME NEW i \in DOMAIN y PROVE y[i].length \in Nat BY DEF HaveLengths
  <2>2. CASE i \in 1..m BY <1>2, <1>4, <2>2 DEF HaveLengths
  <2>3. CASE \E j \in 1..n : i = m + j BY <1>2, <1>5, <2>3 DEF HaveLengths
  <2>4. QED BY <1>6, <2>2, <2>3
<1>8. PICK f : f = [k \in 1..(m + n + 1) |-> LengthBefore(y, k)] OBVIOUS
<1>9. f[1] = 0 /\ (\A k \in 1..(m + n) : f[k + 1] = f[k] + y[k].length) /\ f[m + n + 1] = LengthOf(y)
  <2>1. /\ LengthBefore(y, 1) = 0 /\ LengthBefore(y, m + n + 1) = LengthOf(y)
        /\ \A k \in 1..(m + n) : LengthBefore(y, k + 1) = LengthBefore(y, k) + y[k].length
    BY <1>3, <1>7, LengthSteps
  <2>2. QED BY <1>2, <1>8, <2>1
<1>10. PICK g : g = [k \in 1..(m + 1) |-> LengthBefore(a, k)] OBVIOUS
<1>11. g[1] = 0 /\ (\A k \in 1..m : g[k + 1] = g[k] + a[k].length) /\ g[m + 1] = LengthOf(a) /\ LengthOf(a) \in Nat
  <2>1. /\ LengthBefore(a, 1) = 0 /\ LengthBefore(a, m + 1) = LengthOf(a) /\ LengthOf(a) \in Nat
        /\ \A k \in 1..m : LengthBefore(a, k + 1) = LengthBefore(a, k) + a[k].length
    BY <1>1, LengthSteps
  <2>2. QED BY <1>2, <1>10, <2>1
<1>12. PICK h : h = [k \in 1..(n + 1) |-> LengthBefore(b, k)] OBVIOUS
<1>13. /\ h[1] = 0 /\ (\A k \in 1..n : h[k] \in Nat /\ h[k + 1] = h[k] + b[k].length) /\ h[n + 1] = LengthOf(b)
       /\ LengthOf(b) \in Nat
  <2>1. /\ LengthBefore(b, 1) = 0 /\ LengthBefore(b, n + 1) = LengthOf(b) /\ LengthOf(b) \in Nat
        /\ \A k \in 1..n : LengthBefore(b, k) \in Nat /\ LengthBefore(b, k + 1) = LengthBefore(b, k) + b[k].length
    BY <1>1, LengthSteps
  <2>2. QED BY <1>2, <1>12, <2>1
<1>14. \A k \in 0..m : f[k + 1] = g[k + 1]
  <2> DEFINE G == {k \in 0..m : f[k + 1] = g[k + 1]}
  <2>1. 0 \in G BY <1>2, <1>9, <1>11
  <2>2. ASSUME NEW k \in 1..m, k - 1 \in G PROVE k \in G
    <3>1. f[k] = g[k]
      <4>1. (k - 1) + 1 = k BY <1>2
      <4>2. QED BY <2>2, <4>1
    <3>2. k \in 1..(m + n) BY <1>2
    <3>3. f[k + 1] = f[k] + y[k].length /\ g[k + 1] = g[k] + a[k].length /\ y[k] = a[k] BY <1>4, <1>9, <1>11, <3>2
    <3>4. k \in 0..m BY <1>2
    <3>5. QED BY <3>1, <3>3, <3>4
  <2>3. \A k \in 0..m : k \in G
    <3> HIDE DEF G
    <3>1. QED BY <1>2, <2>1, <2>2, UpTo
  <2>4. QED BY <2>3
<1>15. \A k \in 0..n : f[m + k + 1] = LengthOf(a) + h[k + 1]
  <2> DEFINE G == {k \in 0..n : f[m + k + 1] = LengthOf(a) + h[k + 1]}
  <2>1. 0 \in G
    <3>1. m + 0 + 1 = m + 1 /\ 0 + 1 = 1 /\ 0 \in 0..n /\ m \in 0..m BY <1>2
    <3>2. f[m + 1] = LengthOf(a) BY <1>11, <1>14, <3>1
    <3>3. f[m + 0 + 1] = LengthOf(a) + h[0 + 1] BY <1>11, <1>13, <3>1, <3>2
    <3>4. QED BY <3>1, <3>3
  <2>2. ASSUME NEW k \in 1..n, k - 1 \in G PROVE k \in G
    <3>1. PICK p : p = m + k OBVIOUS
    <3>2. p \in 1..(m + n) /\ m + (k - 1) + 1 = p /\ (k - 1) + 1 = k /\ m + k + 1 = p + 1 BY <1>2, <3>1
    <3>3. f[p] = LengthOf(a) + h[k] BY <2>2, <3>2
    <3>4. f[p + 1] = f[p] + y[p].length /\ h[k + 1] = h[k] + b[k].length /\ y[p] = b[k] /\ h[k] \in Nat
      BY <1>5, <1>9, <1>13, <3>1, <3>2
    <3>5. b[k].length \in Nat BY <1>2 DEF HaveLengths
    <3>6. f[p + 1] = LengthOf(a) + h[k + 1] BY <1>11, <3>3, <3>4, <3>5
    <3>7. QED BY <1>2, <3>2, <3>6
  <2>3. \A k \in 0..n : k \in G
    <3> HIDE DEF G
    <3>1. QED BY <1>2, <2>1, <2>2, UpTo
  <2>4. QED BY <2>3
<1>16. LengthOf(y) = LengthOf(a) + LengthOf(b)
  <2>1. n \in 0..n BY <1>2
  <2>2. f[m + n + 1] = LengthOf(a) + h[n + 1] BY <1>15, <2>1
  <2>3. QED BY <1>9, <1>13, <2>2
<1>17. ASSUME NEW i \in 1..m PROVE LengthBefore(y, i) = LengthBefore(a, i)
  <2>1. i - 1 \in 0..m /\ (i - 1) + 1 = i /\ i \in 1..(m + 1) /\ i \in 1..(m + n + 1) BY <1>2
  <2>2. f[i] = g[i] BY <1>14, <2>1
  <2>3. QED BY <1>8, <1>10, <2>1, <2>2
<1>18. ASSUME NEW j \in 1..n PROVE LengthBefore(y, m + j) = LengthOf(a) + LengthBefore(b, j)
  <2>1. j - 1 \in 0..n /\ m + (j - 1) + 1 = m + j /\ (j - 1) + 1 = j /\ j \in 1..(n + 1) /\ m + j \in 1..(m + n + 1) BY <1>2
  <2>2. f[m + j] = LengthOf(a) + h[j] BY <1>15, <2>1
  <2>3. QED BY <1>8, <1>12, <2>1, <2>2
<1>19. QED BY <1>1, <1>2, <1>3, <1>4, <1>5, <1>6, <1>7, <1>16, <1>17, <1>18 DEF Joined

\* The sections of a query.
SectionsOK(sections) ==
  /\ IsSeq(sections)
  /\ \A m \in DOMAIN sections : /\ IsSeq(sections[m].contents) /\ HaveLengths(sections[m].contents)
                                /\ sections[m].length = LengthOf(sections[m].contents)

\* Each file of the text is one of a section, as far behind its beginning as it is there.
InPlace(sections, k, text) ==
  \A i \in DOMAIN text :
    \E m \in 1..k : \E j \in DOMAIN sections[m].contents :
      /\ text[i] = sections[m].contents[j]
      /\ LengthBefore(text, i) = LengthBefore(sections, m) + LengthBefore(sections[m].contents, j)

TextOp(sections, v, w, a, q) == a \o q.contents
TextSoFar(sections, v, w, k, a) ==
  IsSeq(a) /\ HaveLengths(a) /\ LengthOf(a) = LengthBefore(sections, k + 1) /\ InPlace(sections, k, a)
TextFold == INSTANCE FoldInduction WITH Op <- TextOp, P <- TextSoFar

\* Where the files are in the text.
LEMMA TextFacts ==
  ASSUME NEW sections, SectionsOK(sections)
  PROVE  LET text == ContentsOf(sections)
         IN  IsSeq(text) /\ HaveLengths(text) /\ InPlace(sections, Len(sections), text)
<1>1. PICK n : n = Len(sections) OBVIOUS
<1>2. IsSeq(sections) BY DEF SectionsOK
<1>3. n \in Nat /\ DOMAIN sections = 1..n BY <1>1, <1>2, AnySeq DEF IsSeq
<1>4. HaveLengths(sections)
  <2>1. SUFFICES ASSUME NEW m \in DOMAIN sections PROVE sections[m].length \in Nat BY DEF HaveLengths
  <2>2. PICK s : s = sections[m].contents OBVIOUS
  <2>3. IsSeq(s) /\ HaveLengths(s) /\ sections[m].length = LengthOf(s) BY <2>2 DEF SectionsOK
  <2>4. QED BY <2>3, LengthSteps
<1>5. ContentsOf(sections) = TextFold!Fold(sections, 0, 0, <<>>, sections)
  BY Zenon DEF ContentsOf, TextFold!Fold, TextOp, FoldLeft, MapThenFoldSet, Max, TextFold!FoldLeft,
               TextFold!MapThenFoldSet, TextFold!Max
<1>6. TextSoFar(sections, 0, 0, 0, <<>>)
  <2>1. PICK z : z = <<>> OBVIOUS
  <2>2. IsSeq(z) /\ Len(z) = 0 /\ DOMAIN z = {} BY <2>1, EmptyIsSeq
  <2>3. HaveLengths(z) /\ InPlace(sections, 0, z) BY <2>2 DEF HaveLengths, InPlace
  <2>4. LengthBefore(z, 1) = 0 /\ LengthBefore(z, Len(z) + 1) = LengthOf(z) BY <2>2, <2>3, LengthSteps
  <2>5. LengthOf(z) = 0 BY <2>2, <2>4
  <2>6. LengthBefore(sections, 0 + 1) = 0 BY <1>2, <1>4, LengthSteps
  <2>7. TextSoFar(sections, 0, 0, 0, z) BY <2>2, <2>3, <2>5, <2>6 DEF TextSoFar
  <2>8. QED BY <2>1, <2>7
<1>7. ASSUME NEW k \in 1..n, NEW x, TextSoFar(sections, 0, 0, k - 1, x)
      PROVE  TextSoFar(sections, 0, 0, k, TextOp(sections, 0, 0, x, sections[k]))
  <2>1. PICK b : b = sections[k].contents OBVIOUS
  <2>2. IsSeq(b) /\ HaveLengths(b) /\ sections[k].length = LengthOf(b) BY <1>3, <2>1 DEF SectionsOK
  <2>3. k - 1 + 1 = k BY <1>3
  <2>4. IsSeq(x) /\ HaveLengths(x) /\ LengthOf(x) = LengthBefore(sections, k) /\ InPlace(sections, k - 1, x)
    BY <1>7, <2>3 DEF TextSoFar
  <2>5. PICK y : y = x \o b OBVIOUS
  <2>6. /\ IsSeq(y) /\ HaveLengths(y) /\ LengthOf(y) = LengthOf(x) + LengthOf(b)
        /\ \A i \in DOMAIN x : i \in DOMAIN y /\ y[i] = x[i] /\ LengthBefore(y, i) = LengthBefore(x, i)
        /\ \A j \in DOMAIN b : /\ Len(x) + j \in DOMAIN y /\ y[Len(x) + j] = b[j]
                               /\ LengthBefore(y, Len(x) + j) = LengthOf(x) + LengthBefore(b, j)
        /\ \A i \in DOMAIN y : i \in DOMAIN x \/ \E j \in DOMAIN b : i = Len(x) + j
    <3>1. Joined(y, x, b) BY <2>2, <2>4, <2>5, LengthConcat
    <3>2. QED BY <3>1 DEF Joined
  <2>7. LengthOf(y) = LengthBefore(sections, k + 1)
    <3>1. LengthBefore(sections, k + 1) = LengthBefore(sections, k) + sections[k].length
      BY <1>1, <1>2, <1>4, LengthSteps
    <3>2. QED BY <2>2, <2>4, <2>6, <3>1
  <2>8. InPlace(sections, k, y)
    <3>1. SUFFICES ASSUME NEW i \in DOMAIN y
                   PROVE  \E m \in 1..k : \E j \in DOMAIN sections[m].contents :
                            /\ y[i] = sections[m].contents[j]
                            /\ LengthBefore(y, i) = LengthBefore(sections, m) + LengthBefore(sections[m].contents, j)
      BY DEF InPlace
    <3>2. CASE i \in DOMAIN x
      <4>1. y[i] = x[i] /\ LengthBefore(y, i) = LengthBefore(x, i) BY <2>6, <3>2
      <4>2. \A m \in 1..(k - 1) : m \in 1..k BY <1>3
      <4>3. QED BY <2>4, <3>2, <4>1, <4>2 DEF InPlace
    <3>3. CASE \E j \in DOMAIN b : i = Len(x) + j
      <4>1. PICK j \in DOMAIN b : i = Len(x) + j BY <3>3
      <4>2. y[i] = b[j] /\ LengthBefore(y, i) = LengthBefore(sections, k) + LengthBefore(b, j) BY <2>4, <2>6, <4>1
      <4>3. k \in 1..k BY <1>3
      <4>4. QED BY <2>1, <4>2, <4>3
    <3>4. QED BY <2>6, <3>2, <3>3
  <2>9. TextOp(sections, 0, 0, x, sections[k]) = y BY <2>1, <2>5 DEF TextOp
  <2>10. QED BY <2>6, <2>7, <2>8, <2>9 DEF TextSoFar
<1> HIDE DEF TextSoFar, TextOp
<1>8. TextSoFar(sections, 0, 0, n, TextFold!Fold(sections, 0, 0, <<>>, sections))
  BY <1>3, <1>6, <1>7, TextFold!FoldKeeps
<1>9. QED BY <1>1, <1>5, <1>8 DEF TextSoFar

\* The least of some numbers.
LEMMA MinFacts ==
  ASSUME NEW I, I \subseteq Nat
  PROVE  /\ I # {} => Min(I) \in I
         /\ \A k \in I : (\A i \in I : k <= i) => Min(I) = k
<1>1. ASSUME I # {} PROVE Min(I) \in I
  <2>1. PICK k \in I : \A m \in 0..(k - 1) : m \notin I BY <1>1, TypesFold!LeastNumber
  <2>2. \A i \in I : k <= i BY <2>1
  <2>3. QED BY <2>2 DEF Min
<1>2. ASSUME NEW k \in I, \A i \in I : k <= i PROVE Min(I) = k
  <2>1. \A x \in I : (\A y \in I : x <= y) => x = k BY <1>2
  <2>2. QED BY <1>2, <2>1 DEF Min
<1>3. QED BY <1>1, <1>2

\* A fault is that of a file of the text.
LEMMA FaultIs ==
  ASSUME NEW sections, NEW text, text = ContentsOf(sections), IsSeq(text), Fault(sections) >= 0
  PROVE  \E i \in DOMAIN text : text[i].fault >= 0 /\ Fault(sections) = LengthBefore(text, i) + text[i].fault
<1> DEFINE I == {i \in 1..Len(text) : text[i].fault >= 0}
<1>1. PICK i : i = SelectInSeq(text, LAMBDA f : f.fault >= 0) OBVIOUS
<1>2. i = IF I # {} THEN Min(I) ELSE 0 BY <1>1 DEF SelectInSeq
<1>3. Len(text) \in Nat /\ DOMAIN text = 1..Len(text) BY AnySeq DEF IsSeq
<1>4. I # {} => Min(I) \in I
  <2>1. I \subseteq Nat BY <1>3
  <2> HIDE DEF I
  <2>2. QED BY <2>1, MinFacts
<1>5. Fault(sections) = IF i = 0 THEN -1 ELSE LengthBefore(text, i) + text[i].fault BY <1>1 DEF Fault
<1>6. i # 0
  <2>1. ~(-1 >= 0) OBVIOUS
  <2>2. QED BY <1>5, <2>1
<1>7. i \in I BY <1>2, <1>4, <1>6
<1>8. QED BY <1>3, <1>5, <1>6, <1>7

\* The section in which an offset is found.
LEMMA SectionFound ==
  ASSUME NEW sections, IsSeq(sections), HaveLengths(sections), NEW m \in DOMAIN sections, NEW offset \in Int,
         LengthBefore(sections, m) <= offset, offset < LengthBefore(sections, m + 1)
  PROVE  SectionAt(sections, offset) = m
<1>1. PICK n : n = Len(sections) OBVIOUS
<1>2. n \in Nat /\ DOMAIN sections = 1..n BY <1>1, AnySeq DEF IsSeq
<1>3. PICK ids : ids = [k \in DOMAIN sections |-> k] OBVIOUS
<1>4. Len(ids) = n /\ \A k \in 1..n : ids[k] = k BY <1>2, <1>3
<1> DEFINE I == {i \in 1..Len(ids) : offset < LengthBefore(sections, ids[i] + 1) \/ ids[i] = Len(sections)}
<1>5. SectionAt(sections, offset) = IF I # {} THEN Min(I) ELSE 0 BY <1>3 DEF SectionAt, SelectInSeq
<1>6. I = {i \in 1..n : offset < LengthBefore(sections, i + 1) \/ i = n} BY <1>1, <1>4
<1> HIDE DEF I
<1>7. m \in I BY <1>2, <1>6
<1>8. ASSUME NEW i \in I PROVE m <= i
  <2>1. SUFFICES ASSUME i < m PROVE FALSE BY <1>2, <1>6
  <2>2. i \in 1..n /\ i + 1 <= m /\ i # n BY <1>2, <1>6, <2>1
  <2>3. offset < LengthBefore(sections, i + 1) BY <1>6, <2>2
  <2>4. PICK p \in 1..(n + 1) : p = i + 1 BY <1>2, <2>2
  <2>5. m \in 1..(n + 1) /\ p <= m BY <1>2, <2>2, <2>4
  <2>6. /\ LengthBefore(sections, p) \in Nat /\ LengthBefore(sections, m) \in Nat
        /\ LengthBefore(sections, p) <= LengthBefore(sections, m)
    BY <1>1, <2>5, LengthGrows
  <2>7. QED BY <2>3, <2>4, <2>6
<1>9. I \subseteq Nat BY <1>2, <1>6
<1>10. Min(I) = m BY <1>7, <1>8, <1>9, MinFacts
<1>11. QED BY <1>5, <1>7, <1>10

\* The file in which an offset is found.
LEMMA FileFound ==
  ASSUME NEW section, IsSeq(section.files), IsSeq(section.contents), HaveLengths(section.contents),
         DOMAIN section.contents = DOMAIN section.files,
         NEW j \in DOMAIN section.contents, NEW fault \in Nat, fault < section.contents[j].length,
         NEW start \in Int, NEW offset \in Int, offset - start = LengthBefore(section.contents, j) + fault
  PROVE  include_path_in_query_error(offset, section, start) = [file |-> section.files[j], offset |-> fault]
<1>1. PICK s : s = section.contents OBVIOUS
<1>2. PICK n : n = Len(section.files) OBVIOUS
<1>3. n \in Nat /\ DOMAIN section.files = 1..n BY <1>2, AnySeq DEF IsSeq
<1>4. Len(s) = n /\ DOMAIN s = 1..n
  <2>1. Len(s) \in Nat /\ DOMAIN s = 1..Len(s) BY <1>1, AnySeq DEF IsSeq
  <2>2. 1..Len(s) = 1..n BY <1>1, <1>3, <2>1
  <2>3. Len(s) = n
    <3>1. PICK l \in Nat : l = Len(s) BY <2>1
    <3>2. j \in 1..l /\ j \in 1..n BY <1>1, <2>1, <2>2, <3>1
    <3>3. l \in 1..n /\ n \in 1..l
      <4>1. l \in 1..l /\ n \in 1..n BY <1>3, <3>2
      <4>2. QED BY <2>2, <3>1, <4>1
    <3>4. QED BY <1>3, <3>1, <3>3
  <2>4. QED BY <2>1, <2>3
<1>5. PICK within \in Int : within = offset - start OBVIOUS
<1>6. PICK ids : ids = [k \in 1..n |-> k] OBVIOUS
<1>7. Len(ids) = n /\ \A k \in 1..n : ids[k] = k BY <1>3, <1>6
<1> DEFINE I == {i \in 1..Len(ids) : LengthBefore(s, ids[i]) <= within /\ within < LengthBefore(s, ids[i] + 1)}
           i == IF I # {} THEN Min(I) ELSE 0
           at == IF i = 0 THEN n ELSE i
<1>8. include_path_in_query_error(offset, section, start)
      = [file |-> section.files[at], offset |-> within - LengthBefore(s, at)]
  BY <1>1, <1>2, <1>5, <1>6 DEF include_path_in_query_error, SelectInSeq
<1>9. I = {k \in 1..n : LengthBefore(s, k) <= within /\ within < LengthBefore(s, k + 1)} BY <1>7
<1> HIDE DEF I
<1>10. /\ LengthBefore(s, j) \in Nat /\ LengthBefore(s, j + 1) = LengthBefore(s, j) + s[j].length
       /\ s[j].length \in Nat /\ j \in 1..n
  <2>1. j \in 1..Len(s) /\ j \in 1..n BY <1>1, <1>4
  <2>2. LengthBefore(s, j) \in Nat /\ LengthBefore(s, j + 1) = LengthBefore(s, j) + s[j].length
    BY <1>1, <2>1, LengthSteps
  <2>3. s[j].length \in Nat BY <1>1 DEF HaveLengths
  <2>4. QED BY <2>1, <2>2, <2>3
<1>11. within = LengthBefore(s, j) + fault BY <1>1, <1>5
<1>12. j \in I BY <1>1, <1>9, <1>10, <1>11
<1>13. ASSUME NEW k \in I PROVE j <= k
  <2>1. k \in 1..n /\ within < LengthBefore(s, k + 1) BY <1>9
  <2>2. SUFFICES ASSUME k < j PROVE FALSE BY <1>10, <2>1
  <2>3. PICK p \in 1..(n + 1) : p = k + 1 BY <1>3, <2>1
  <2>4. j \in 1..(n + 1) /\ p <= j BY <1>3, <1>10, <2>1, <2>2, <2>3
  <2>5. LengthBefore(s, p) \in Nat /\ LengthBefore(s, p) <= LengthBefore(s, j) BY <1>1, <1>4, <2>4, LengthGrows
  <2>6. QED BY <1>10, <1>11, <2>1, <2>3, <2>5
<1>14. I \subseteq Nat BY <1>3, <1>9
<1>15. Min(I) = j BY <1>12, <1>13, <1>14, MinFacts
<1>16. i = j BY <1>12, <1>15
<1>17. at = j BY <1>10, <1>16
<1>18. within - LengthBefore(s, j) = fault BY <1>10, <1>11
<1> HIDE DEF at
<1>19. QED BY <1>8, <1>17, <1>18

\* A fault is located in the file it is in.
LEMMA FaultLocated ==
  ASSUME QueriesGiven, NEW dir \in Directories, NEW sections, IsSeq(sections),
         \A m \in DOMAIN sections : SectionOK(sections[m], dir) /\ sections[m].length = LengthOf(sections[m].contents),
         Fault(sections) >= 0, NEW e, e = Located(sections, Fault(sections))
  PROVE  QueryFile(dir, e.file).fault = e.offset
<1>1. PICK n : n = Len(sections) OBVIOUS
<1>2. n \in Nat /\ DOMAIN sections = 1..n BY <1>1, AnySeq DEF IsSeq
<1>3. \A m \in DOMAIN sections : HaveLengths(sections[m].contents)
  <2>1. SUFFICES ASSUME NEW m \in DOMAIN sections, NEW i \in DOMAIN sections[m].contents
                 PROVE  sections[m].contents[i].length \in Nat
    BY DEF HaveLengths
  <2>2. PICK q : q = sections[m] OBVIOUS
  <2>3. SectionOK(q, dir) /\ i \in DOMAIN q.contents BY <2>2
  <2>4. q.contents[i].length \in Nat BY <2>3, QueryFileFacts
  <2>5. QED BY <2>2, <2>4
<1>4. SectionsOK(sections) BY <1>3 DEF SectionsOK, SectionOK
<1>5. PICK text : text = ContentsOf(sections) OBVIOUS
<1>6. IsSeq(text) /\ HaveLengths(text) /\ InPlace(sections, n, text) BY <1>1, <1>4, <1>5, TextFacts
<1>7. PICK offset : offset = Fault(sections) OBVIOUS
<1>8. PICK i \in DOMAIN text : text[i].fault >= 0 /\ offset = LengthBefore(text, i) + text[i].fault
  BY <1>5, <1>6, <1>7, FaultIs
<1>9. PICK m \in 1..n : \E j \in DOMAIN sections[m].contents :
        /\ text[i] = sections[m].contents[j]
        /\ LengthBefore(text, i) = LengthBefore(sections, m) + LengthBefore(sections[m].contents, j)
  BY <1>6 DEF InPlace
<1>10. PICK j \in DOMAIN sections[m].contents :
        /\ text[i] = sections[m].contents[j]
        /\ LengthBefore(text, i) = LengthBefore(sections, m) + LengthBefore(sections[m].contents, j)
  BY <1>9
<1>11. PICK q : q = sections[m] OBVIOUS
<1>12. PICK s : s = q.contents OBVIOUS
<1>13. SectionOK(q, dir) /\ q.length = LengthOf(s) /\ IsSeq(s) /\ HaveLengths(s) /\ j \in DOMAIN s
  BY <1>2, <1>3, <1>10, <1>11, <1>12 DEF SectionOK
<1>14. PICK fault : fault = s[j].fault OBVIOUS
<1>15. s[j].length \in Nat /\ fault \in Nat /\ fault < s[j].length
  <2>1. s[j].length \in Nat /\ fault \in Int /\ fault < s[j].length BY <1>12, <1>13, <1>14, QueryFileFacts
  <2>2. fault >= 0 BY <1>8, <1>10, <1>11, <1>12, <1>14
  <2>3. QED BY <2>1, <2>2
<1>16. PICK before, inside : before = LengthBefore(sections, m) /\ inside = LengthBefore(s, j) OBVIOUS
<1>17. HaveLengths(sections)
  <2>1. SUFFICES ASSUME NEW k \in DOMAIN sections PROVE sections[k].length \in Nat BY DEF HaveLengths
  <2>2. PICK c : c = sections[k].contents OBVIOUS
  <2>3. IsSeq(c) /\ HaveLengths(c) /\ sections[k].length = LengthOf(c) BY <1>4, <2>2 DEF SectionsOK
  <2>4. QED BY <2>3, LengthSteps
<1>18. before \in Nat /\ LengthBefore(sections, m + 1) = before + q.length
  BY <1>1, <1>11, <1>16, <1>17, LengthSteps
<1>19. inside \in Nat /\ inside + s[j].length <= q.length /\ q.length \in Nat
  <2>1. PICK len : len = Len(s) OBVIOUS
  <2>2. len \in Nat /\ DOMAIN s = 1..len BY <1>13, <2>1, AnySeq DEF IsSeq
  <2>3. LengthBefore(s, j) \in Nat /\ LengthBefore(s, j + 1) = LengthBefore(s, j) + s[j].length
    BY <1>13, <2>1, <2>2, LengthSteps
  <2>4. LengthBefore(s, len + 1) = LengthOf(s) /\ LengthOf(s) \in Nat BY <1>13, <2>1, LengthSteps
  <2>5. PICK a, b \in 1..(len + 1) : a = j + 1 /\ b = len + 1 /\ a <= b BY <1>13, <2>2
  <2>6. LengthBefore(s, a) <= LengthBefore(s, b) BY <1>13, <2>1, <2>5, LengthGrows
  <2>7. QED BY <1>13, <1>16, <2>3, <2>4, <2>5, <2>6
<1>20. offset = before + inside + fault /\ offset \in Int
  <2>1. offset = LengthBefore(text, i) + text[i].fault BY <1>8
  <2>2. LengthBefore(text, i) = before + inside /\ text[i].fault = fault BY <1>10, <1>11, <1>12, <1>14, <1>16
  <2>3. QED BY <1>15, <1>18, <1>19, <2>1, <2>2
<1>21. before <= offset /\ offset < LengthBefore(sections, m + 1) BY <1>15, <1>18, <1>19, <1>20
<1>22. SectionAt(sections, offset) = m BY <1>2, <1>16, <1>17, <1>20, <1>21, SectionFound
<1>23. Located(sections, offset) = include_path_in_query_error(offset, q, before)
  BY <1>11, <1>16, <1>22 DEF Located
<1>24. include_path_in_query_error(offset, q, before) = [file |-> q.files[j], offset |-> fault]
  <2>1. IsSeq(q.files) /\ DOMAIN q.contents = DOMAIN q.files BY <1>13 DEF SectionOK
  <2>2. offset - before = LengthBefore(q.contents, j) + fault BY <1>12, <1>15, <1>16, <1>18, <1>19, <1>20
  <2>3. QED BY <1>12, <1>13, <1>15, <1>18, <1>20, <2>1, <2>2, FileFound
<1>25. e = [file |-> q.files[j], offset |-> fault] BY <1>7, <1>23, <1>24
<1>26. e.file = q.files[j] /\ e.offset = fault BY <1>25
<1>27. s[j] = QueryFile(dir, q.files[j]) BY <1>12, <1>13 DEF SectionOK
<1>28. QED BY <1>14, <1>26, <1>27

\* The length of a section that is read.
LEMMA SectionLength ==
  ASSUME NEW c, NEW given, NEW kind, NEW section, section = read_queries(c, given, kind)
  PROVE  section.length = LengthOf(section.contents)
BY DEF read_queries

\* Two sections.
LEMMA TwoSections ==
  ASSUME NEW a, NEW b, NEW s, s = <<a, b>>
  PROVE  IsSeq(s) /\ DOMAIN s = {1, 2} /\ s[1] = a /\ s[2] = b
<1>1. s \in Seq({a, b}) OBVIOUS
<1>2. IsSeq(s) BY <1>1, AnySeq
<1>3. QED BY <1>2

\* Three sections.
LEMMA ThreeSections ==
  ASSUME NEW a, NEW b, NEW c, NEW s, s = <<a, b, c>>
  PROVE  IsSeq(s) /\ DOMAIN s = {1, 2, 3} /\ s[1] = a /\ s[2] = b /\ s[3] = c
<1>1. s \in Seq({a, b, c}) OBVIOUS
<1>2. IsSeq(s) BY <1>1, AnySeq
<1>3. QED BY <1>2

\* What tags_config reports.
LEMMA TagsIs ==
  ASSUME NEW c, NEW out, out = tags_config(c),
         NEW tags, tags = read_queries(c, c.queries["tags"], "tags"),
         NEW locals, locals = read_queries(c, c.queries["locals"], "locals"),
         NEW sections, sections = <<locals, tags>>
  PROVE  out.error = {} \/ (Fault(sections) >= 0 /\ out.error = {Located(sections, Fault(sections))})
<1>1. PICK captures : captures = NamesWith(<<>>, Captures(locals) \o Captures(tags)) OBVIOUS
<1>2. PICK place : place = Located(sections, Fault(sections)) OBVIOUS
<1>3. PICK x1 : x1 = [ok |-> TRUE, cell |-> c.tags, error |-> {}] OBVIOUS
<1>4. PICK x2 : x2 = [ok |-> FALSE, cell |-> NoConfig, error |-> {}] OBVIOUS
<1>5. PICK x3 : x3 = [ok |-> TRUE, cell |-> [made |-> TRUE, captures |-> <<>>, indices |-> <<>>], error |-> {}] OBVIOUS
<1>6. PICK x4 : x4 = [ok |-> FALSE, cell |-> NoConfig, error |-> {place}] OBVIOUS
<1>7. PICK x5 : x5 = [ok |-> TRUE, cell |-> [made |-> TRUE, captures |-> captures, indices |-> <<>>], error |-> {}] OBVIOUS
<1>8. out = IF c.tags.made THEN x1
            ELSE IF ~(tags.ok /\ locals.ok) THEN x2
            ELSE IF tags.length = 0 THEN x3
            ELSE IF Fault(sections) >= 0 THEN x4
            ELSE x5
  BY <1>1, <1>2, <1>3, <1>4, <1>5, <1>6, <1>7, Zenon DEF tags_config
<1>9. out = x1 \/ out = x2 \/ out = x3 \/ (Fault(sections) >= 0 /\ out = x4) \/ out = x5 BY <1>8, Zenon
<1>10. x1.error = {} /\ x2.error = {} /\ x3.error = {} /\ x4.error = {place} /\ x5.error = {}
  BY <1>3, <1>4, <1>5, <1>6, <1>7, Zenon
<1>11. QED BY <1>2, <1>9, <1>10, Zenon

\* The faults of a configuration.
LEMMA ConfigFaults ==
  ASSUME QueriesGiven, NEW c, IsConfig(c), NEW names, NEW use_all, NEW paths \in QueryPaths \cup {<<>>}
  PROVE  /\ \A e \in tags_config(c).error : QueryFile(c.root, e.file).fault = e.offset
         /\ \A e \in highlight_config(c, names, use_all, paths).error : QueryFile(c.root, e.file).fault = e.offset
<1>1. PICK dir \in Directories : dir = c.root BY DEF IsConfig
<1>2. "highlights" \in Kinds /\ "injections" \in Kinds /\ "locals" \in Kinds /\ "tags" \in Kinds BY DEF Kinds
<1>3. ASSUME NEW e \in tags_config(c).error PROVE QueryFile(dir, e.file).fault = e.offset
  <2>1. PICK tags : tags = read_queries(c, c.queries["tags"], "tags") OBVIOUS
  <2>2. PICK locals : locals = read_queries(c, c.queries["locals"], "locals") OBVIOUS
  <2>3. PICK sections : sections = <<locals, tags>> OBVIOUS
  <2>4. SectionOK(tags, dir) BY <1>1, <1>2, <2>1, SectionsRead
  <2>5. SectionOK(locals, dir) BY <1>1, <1>2, <2>2, SectionsRead
  <2>6. tags.length = LengthOf(tags.contents) BY <2>1, SectionLength
  <2>7. locals.length = LengthOf(locals.contents) BY <2>2, SectionLength
  <2>8. IsSeq(sections) /\ DOMAIN sections = {1, 2} /\ sections[1] = locals /\ sections[2] = tags BY <2>3, TwoSections
  <2>9. \A m \in DOMAIN sections : SectionOK(sections[m], dir) /\ sections[m].length = LengthOf(sections[m].contents)
    BY <2>4, <2>5, <2>6, <2>7, <2>8
  <2>10. PICK out : out = tags_config(c) OBVIOUS
  <2>11. out.error = {} \/ (Fault(sections) >= 0 /\ out.error = {Located(sections, Fault(sections))})
    BY <2>1, <2>2, <2>3, <2>10, TagsIs
  <2>12. Fault(sections) >= 0 /\ e = Located(sections, Fault(sections)) BY <1>3, <2>10, <2>11
  <2>13. QED BY <2>8, <2>9, <2>12, FaultLocated
<1>4. ASSUME NEW e \in highlight_config(c, names, use_all, paths).error PROVE QueryFile(dir, e.file).fault = e.offset
  <2>1. PICK highlights : highlights = read_queries(c, Passed(c, paths, "highlights", "highlights"), "highlights") OBVIOUS
  <2>2. PICK injections : injections = read_queries(c, Passed(c, paths, "injections", "tags"), "injections") OBVIOUS
  <2>3. PICK locals : locals = read_queries(c, Passed(c, paths, "locals", "locals"), "locals") OBVIOUS
  <2>4. PICK sections : sections = <<injections, locals, highlights>> OBVIOUS
  <2>5. SectionOK(highlights, dir) BY <1>1, <1>2, <2>1, SectionsRead
  <2>6. SectionOK(injections, dir) BY <1>1, <1>2, <2>2, SectionsRead
  <2>7. SectionOK(locals, dir) BY <1>1, <1>2, <2>3, SectionsRead
  <2>8. highlights.length = LengthOf(highlights.contents) BY <2>1, SectionLength
  <2>9. injections.length = LengthOf(injections.contents) BY <2>2, SectionLength
  <2>10. locals.length = LengthOf(locals.contents) BY <2>3, SectionLength
  <2>11. /\ IsSeq(sections) /\ DOMAIN sections = {1, 2, 3}
         /\ sections[1] = injections /\ sections[2] = locals /\ sections[3] = highlights
    BY <2>4, ThreeSections
  <2>12. \A m \in DOMAIN sections : SectionOK(sections[m], dir) /\ sections[m].length = LengthOf(sections[m].contents)
    BY <2>5, <2>6, <2>7, <2>8, <2>9, <2>10, <2>11
  <2>13. PICK out : out = highlight_config(c, names, use_all, paths) OBVIOUS
  <2>14. PICK captures : captures = NamesWith(<<>>, Captures(injections) \o Captures(locals) \o Captures(highlights)) OBVIOUS
  <2>15. PICK all : all = IF use_all THEN NamesWith(names, captures) ELSE names OBVIOUS
  <2>16. out.error = {} \/ (Fault(sections) >= 0 /\ out.error = {Located(sections, Fault(sections))})
    BY <2>1, <2>2, <2>3, <2>4, <2>13, <2>14, <2>15, HighlightIs
  <2>17. Fault(sections) >= 0 /\ e = Located(sections, Fault(sections)) BY <1>4, <2>13, <2>16
  <2>18. QED BY <2>11, <2>12, <2>17, FaultLocated
<1>5. QED BY <1>1, <1>3, <1>4

\* ErrorsLocated holds for any query files: whichever sections a query is put together of,
\* and however many files they have, a fault is reported in its file and at its place there.
THEOREM FaultsAreLocated ==
  ASSUME GrammarsGiven, QueriesGiven
  PROVE  ConfSpec => []ErrorsLocated
<1>1. ConfInit => RegistryOK(registry) BY RegistryInit
<1>2. RegistryOK(registry) /\ [ConfNext]_confVars => RegistryOK(registry)' BY RegistryNext
<1>3. ASSUME RegistryOK(registry) PROVE ErrorsLocated
  <2>1. SUFFICES ASSUME NEW i \in DOMAIN Configs, NEW c, c = Configs[i],
                        NEW e \in tags_config(c).error
                                  \cup UNION {highlight_config(c, highlight_names, use_all_highlight_names, paths).error :
                                                paths \in QueryPaths}
                 PROVE  QueryFile(c.root, e.file).fault = e.offset
    BY DEF ErrorsLocated
  <2>2. IsConfig(c) BY <1>3, <2>1 DEF RegistryOK, Shaped, Configs
  <2>3. CASE e \in tags_config(c).error BY <2>2, <2>3, ConfigFaults
  <2>4. CASE \E paths \in QueryPaths :
               e \in highlight_config(c, highlight_names, use_all_highlight_names, paths).error
    BY <2>2, <2>4, ConfigFaults
  <2>5. QED BY <2>1, <2>3, <2>4
<1>4. QED BY <1>1, <1>2, <1>3, PTL DEF ConfSpec
=============================================================================
