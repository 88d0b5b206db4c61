-------------------------- MODULE TokenSetsProofs ---------------------------
(***************************************************************************)
(* For any sets, tokens and sequence of calls: the arena of bitvec.rs      *)
(* keeps its blocks apart and its spare words zero, and the token sets     *)
(* that lie in it are sets.                                                *)
(***************************************************************************)
EXTENDS TokenSets, WellFoundedInduction, TLAPS

-----------------------------------------------------------------------------
(* The inductive invariant                                                   *)

VecType == [data : Nat, num_bits : Nat, capacity : Nat]

HeapRec(h) ==
  h = [mem |-> h.mem, size |-> h.size, base |-> h.base, offset |-> h.offset,
       free |-> h.free, vec |-> h.vec]

\* What the addresses in a heap are.
HeapType(h) ==
  /\ HeapRec(h)
  /\ h.size \in Nat /\ h.base \in Nat /\ h.offset \in Nat
  /\ h.mem \in [0..(h.size - 1) -> SUBSET Bits]
  /\ h.free \subseteq [ptr : Nat, words : Nat \ {0}]
  /\ h.vec \in [Vecs -> VecType]

\* The blocks from a to before a + m and from b to before b + n.
Apart(a, m, b, n) == m = 0 \/ n = 0 \/ a + m <= b \/ b + n <= a

\* The block lies in memory that was handed out.
Below(h, a, n) == n = 0 \/ (a + n <= h.size /\ a + n <= h.base + h.offset)

Clean(h, a, n) == \A x \in a..(a + n - 1) : h.mem[x] = {}

\* The rest of the last chunk is there, and zero.
Chunk(h) ==
  /\ h.offset < ChunkWords => h.base + ChunkWords <= h.size
  /\ \A x \in (h.base + h.offset)..(h.size - 1) : h.mem[x] = {}

Data(h, v) == h.vec[v].data
Capacity(h, v) == h.vec[v].capacity
NumBits(h, v) == h.vec[v].num_bits

Blocks(h) ==
  /\ \A v \in Vecs : Below(h, Data(h, v), Capacity(h, v))
  /\ \A b \in h.free : Below(h, b.ptr, b.words) /\ Clean(h, b.ptr, b.words)
  /\ \A b, c \in h.free : b # c => Apart(b.ptr, b.words, c.ptr, c.words)
  /\ \A v, w \in Vecs : v # w => Apart(Data(h, v), Capacity(h, v), Data(h, w), Capacity(h, w))
  /\ \A v \in Vecs, b \in h.free : Apart(Data(h, v), Capacity(h, v), b.ptr, b.words)

\* The words of a vector after those in use are zero, and so are the bits of the
\* last one in use after num_bits.
VecOK(h, v) ==
  /\ Used(h, v) <= Capacity(h, v)
  /\ \A k \in Used(h, v)..(Capacity(h, v) - 1) : Word(h, v, k) = {}
  /\ \A k \in 0..(Used(h, v) - 1) : \A b \in Word(h, v, k) : 64 * k + b < NumBits(h, v)

HeapOK(h) == HeapType(h) /\ Chunk(h) /\ Blocks(h) /\ \A v \in Vecs : VecOK(h, v)

\* A block that is nobody's but perhaps v's.
Own(h, v, a, n) ==
  /\ a \in Nat /\ n \in Nat /\ Below(h, a, n)
  /\ \A b \in h.free : Apart(a, n, b.ptr, b.words)
  /\ \A w \in Vecs : w # v => Apart(a, n, Data(h, w), Capacity(h, w))

\* A block that nobody has, and one that is zero as well.
Unheld(h, a, n) ==
  /\ a \in Nat /\ n \in Nat /\ Below(h, a, n)
  /\ \A b \in h.free : Apart(a, n, b.ptr, b.words)
  /\ \A w \in Vecs : Apart(a, n, Data(h, w), Capacity(h, w))
Spare(h, a, n) == Unheld(h, a, n) /\ Clean(h, a, n)

\* A vector has the same bits in both heaps; all of them; all but one.
Same(h, g, v) ==
  NumBits(g, v) = NumBits(h, v) /\ \A k \in Nat : WordOr0(g, v, k) = WordOr0(h, v, k)
SameAll(h, g) == \A w \in Vecs : Same(h, g, w)
Others(h, g, v) == \A w \in Vecs : w # v => Same(h, g, w)

\* Memory changes only in the block from a to before a + n; nothing but memory and
\* vectors changes; only vector v changes, to one with that block and m bits.
OnlyIn(h, g, a, n) == \A x \in 0..(h.size - 1) : x < a \/ a + n <= x => g.mem[x] = h.mem[x]
Frame(h, g) ==
  g.size = h.size /\ g.base = h.base /\ g.offset = h.offset /\ g.free = h.free
Given(h, g, v, a, m, n) ==
  g.vec = [h.vec EXCEPT ![v] = [data |-> a, num_bits |-> m, capacity |-> n]]

-----------------------------------------------------------------------------
(* Numbers                                                                   *)

\* words_in_use rounds up.
LEMMA WordsInUse ==
  ASSUME NEW n \in Nat
  PROVE  /\ words_in_use(n) \in Nat
         /\ n <= 64 * words_in_use(n) /\ 64 * words_in_use(n) < n + 64
BY DEF words_in_use

\* More bits need no fewer words.
LEMMA WordsMonotonic ==
  ASSUME NEW m \in Nat, NEW n \in Nat, m <= n
  PROVE  words_in_use(m) <= words_in_use(n)
BY DEF words_in_use

\* A bit is in the word that i / 64 names, at i % 64.
LEMMA WordOfBit ==
  ASSUME NEW i \in Nat
  PROVE  i \div 64 \in Nat /\ i % 64 \in Bits /\ i = 64 * (i \div 64) + (i % 64)
BY DEF Bits

\* The bit b of word k is bit 64 * k + b.
LEMMA BitOfWord ==
  ASSUME NEW k \in Nat, NEW b \in Bits
  PROVE  64 * k + b \in Nat /\ (64 * k + b) \div 64 = k /\ (64 * k + b) % 64 = b
BY DEF Bits

\* usize::max.
LEMMA LargerIs ==
  ASSUME NEW m \in Nat, NEW n \in Nat
  PROVE  /\ Larger(m, n) \in Nat /\ Larger(m, n) >= m /\ Larger(m, n) >= n
         /\ Larger(m, n) \in {m, n}
BY DEF Larger

\* A set of numbers that is not empty has a least one, which Least finds; a bounded one
\* has a greatest one.
LEMMA LeastExists ==
  ASSUME NEW S, S \subseteq Nat, S # {}
  PROVE  \E n \in S : \A m \in S : n <= m
<1> DEFINE R == OpToRel(<, Nat)
<1>1. \E n \in S : \A m \in S : ~ (<<m, n>> \in R)
  <2>1. IsWellFoundedOn(R, Nat) BY NatLessThanWellFounded
  <2> HIDE DEF R
  <2>2. QED BY <2>1, WFMin, Zenon
<1>2. PICK n \in S : \A m \in S : ~ (<<m, n>> \in R) BY <1>1
<1>3. \A m \in S : n <= m
  <2> SUFFICES ASSUME NEW m \in S, m < n PROVE FALSE OBVIOUS
  <2>1. <<m, n>> \in R BY DEF OpToRel
  <2>2. QED BY <1>2, <2>1
<1>4. QED BY <1>3

\* Least returns it.
LEMMA LeastIs ==
  ASSUME NEW S, S \subseteq Nat, S # {}
  PROVE  Least(S) \in S /\ \A m \in S : Least(S) <= m
BY LeastExists, Zenon DEF Least

\* A bounded set of numbers that is not empty has a greatest one.
LEMMA GreatestExists ==
  ASSUME NEW S, S \subseteq Nat, S # {}, NEW bound \in Nat, \A n \in S : n < bound
  PROVE  \E n \in S : \A m \in S : m <= n
<1> DEFINE C == {c \in Nat : \A n \in S : n < c}
<1>1. PICK c \in C : \A d \in C : c <= d
  <2>1. C \subseteq Nat /\ bound \in C OBVIOUS
  <2> HIDE DEF C
  <2>2. QED BY <2>1, LeastExists, Zenon
<1>2. PICK n \in S : ~(n < c - 1)
  <2>1. PICK s \in S : TRUE OBVIOUS
  <2>2. c > 0 BY <2>1, <1>1
  <2>3. c - 1 \in Nat /\ c - 1 \notin C BY <2>2, <1>1
  <2>4. QED BY <2>3
<1>3. \A m \in S : m <= n BY <1>1, <1>2
<1>4. QED BY <1>3

-----------------------------------------------------------------------------
(* Heaps are records                                                         *)

\* One field of a heap is replaced, here mem: the others stay.
LEMMA MemRec ==
  ASSUME NEW h, HeapRec(h), NEW m, NEW g, g = [h EXCEPT !.mem = m]
  PROVE  /\ HeapRec(g) /\ g.mem = m /\ g.size = h.size /\ g.base = h.base
         /\ g.offset = h.offset /\ g.free = h.free /\ g.vec = h.vec
BY DEF HeapRec

\* The same for free.
LEMMA FreeRec ==
  ASSUME NEW h, HeapRec(h), NEW F, NEW g, g = [h EXCEPT !.free = F]
  PROVE  /\ HeapRec(g) /\ g.mem = h.mem /\ g.size = h.size /\ g.base = h.base
         /\ g.offset = h.offset /\ g.free = F /\ g.vec = h.vec
BY DEF HeapRec

\* The same for vec.
LEMMA VecRec ==
  ASSUME NEW h, HeapRec(h), NEW f, NEW g, g = [h EXCEPT !.vec = f]
  PROVE  /\ HeapRec(g) /\ g.mem = h.mem /\ g.size = h.size /\ g.base = h.base
         /\ g.offset = h.offset /\ g.free = h.free /\ g.vec = f
BY DEF HeapRec

\* The same for offset.
LEMMA OffsetRec ==
  ASSUME NEW h, HeapRec(h), NEW n, NEW g, g = [h EXCEPT !.offset = n]
  PROVE  /\ HeapRec(g) /\ g.mem = h.mem /\ g.size = h.size /\ g.base = h.base
         /\ g.offset = n /\ g.free = h.free /\ g.vec = h.vec
BY DEF HeapRec

\* What Filled changes, for a block of memory.
FilledWith(h, g, a, lo, hi, f) ==
  \A x \in 0..(h.size - 1) :
    /\ a + lo <= x /\ x < a + hi => g.mem[x] = f[x - a]
    /\ ~(a + lo <= x /\ x < a + hi) => g.mem[x] = h.mem[x]

\* Filled writes the words it names and nothing else.
LEMMA FilledIs ==
  ASSUME NEW h, HeapType(h), NEW a \in Nat, NEW lo \in Nat, NEW hi \in Nat, NEW f,
         \A k \in lo..(hi - 1) : f[k] \in SUBSET Bits,
         NEW g, g = Filled(h, a, lo, hi, f)
  PROVE  HeapType(g) /\ Frame(h, g) /\ g.vec = h.vec /\ FilledWith(h, g, a, lo, hi, f)
<1> DEFINE m == [x \in 0..(h.size - 1) |-> IF a + lo <= x /\ x < a + hi THEN f[x - a] ELSE h.mem[x]]
<1>1. g = [h EXCEPT !.mem = m]
  BY DEF Filled
<1>2. m \in [0..(h.size - 1) -> SUBSET Bits]
  <2> SUFFICES ASSUME NEW x \in 0..(h.size - 1), a + lo <= x, x < a + hi
               PROVE  f[x - a] \in SUBSET Bits
    BY DEF HeapType
  <2>1. x - a \in lo..(hi - 1) BY DEF HeapType
  <2>2. QED BY <2>1
<1>0. \A x \in 0..(h.size - 1) : m[x] = IF a + lo <= x /\ x < a + hi THEN f[x - a] ELSE h.mem[x]
  OBVIOUS
<1> HIDE DEF m
<1>3. /\ HeapRec(g) /\ g.mem = m /\ g.size = h.size /\ g.base = h.base
      /\ g.offset = h.offset /\ g.free = h.free /\ g.vec = h.vec
  <2>1. HeapRec(h) BY DEF HeapType
  <2>2. QED BY <1>1, <2>1, MemRec
<1>4. HeapType(g) BY <1>2, <1>3 DEF HeapType
<1>5. QED BY <1>0, <1>3, <1>4 DEF FilledWith, Frame

-----------------------------------------------------------------------------
(* The words of vectors                                                      *)

\* The fields of a vector are numbers.
LEMMA VecFields ==
  ASSUME NEW h, HeapType(h), NEW v \in Vecs
  PROVE  /\ Data(h, v) \in Nat /\ Capacity(h, v) \in Nat /\ NumBits(h, v) \in Nat
         /\ h.vec[v] = [data |-> Data(h, v), num_bits |-> NumBits(h, v), capacity |-> Capacity(h, v)]
         /\ Used(h, v) \in Nat /\ Used(h, v) = words_in_use(NumBits(h, v))
BY WordsInUse DEF HeapType, VecType, Data, Capacity, NumBits, Used

\* The words of a vector are in memory.
LEMMA WordIn ==
  ASSUME NEW h, HeapType(h), Blocks(h), NEW v \in Vecs, NEW k \in 0..(Capacity(h, v) - 1)
  PROVE  /\ Data(h, v) + k \in 0..(h.size - 1) /\ Word(h, v, k) = h.mem[Data(h, v) + k]
         /\ Word(h, v, k) \in SUBSET Bits
<1>1. Data(h, v) + k \in 0..(h.size - 1)
  <2>1. Below(h, Data(h, v), Capacity(h, v)) BY DEF Blocks
  <2>2. Data(h, v) \in Nat /\ Capacity(h, v) \in Nat /\ h.size \in Nat
    BY VecFields DEF HeapType
  <2>3. QED BY <2>1, <2>2 DEF Below
<1>2. QED BY <1>1 DEF HeapType, Word, Data

\* A word that is not in use reads as zero.
LEMMA WordOr0Is ==
  ASSUME NEW h, HeapType(h), Blocks(h), NEW v \in Vecs, VecOK(h, v), NEW k \in Nat
  PROVE  /\ WordOr0(h, v, k) \in SUBSET Bits
         /\ k < Capacity(h, v) => WordOr0(h, v, k) = Word(h, v, k)
         /\ k >= Used(h, v) => WordOr0(h, v, k) = {}
         /\ \A b \in WordOr0(h, v, k) : 64 * k + b < NumBits(h, v)
<1>1. /\ Used(h, v) \in Nat /\ Capacity(h, v) \in Nat /\ NumBits(h, v) \in Nat
      /\ Used(h, v) <= Capacity(h, v)
  BY VecFields DEF VecOK
<1>2. k < Capacity(h, v) => Word(h, v, k) \in SUBSET Bits
  BY <1>1, WordIn
<1>3. CASE k < Used(h, v)
  BY <1>1, <1>2, <1>3 DEF WordOr0, VecOK
<1>4. CASE k >= Used(h, v)
  BY <1>1, <1>4 DEF WordOr0, VecOK
<1>5. QED BY <1>1, <1>3, <1>4

\* A vector is given a block that is its own, and num_bits and words that fit: the heap
\* stays sound and no other vector changes.
LEMMA Placed ==
  ASSUME NEW h, HeapOK(h), NEW v \in Vecs, NEW a, NEW n, Own(h, v, a, n), NEW m \in Nat,
         NEW g, HeapType(g), Frame(h, g), Given(h, g, v, a, m, n), OnlyIn(h, g, a, n),
         VecOK(g, v)
  PROVE  HeapOK(g) /\ Others(h, g, v)
<1> USE DEF HeapOK, Frame, OnlyIn, Given
<1>1. Data(g, v) = a /\ NumBits(g, v) = m /\ Capacity(g, v) = n
  BY DEF HeapType, Data, NumBits, Capacity
<1>2. \A w \in Vecs : w # v => g.vec[w] = h.vec[w]
  BY DEF HeapType
<1>3. \A w \in Vecs : w # v => /\ Data(g, w) = Data(h, w) /\ NumBits(g, w) = NumBits(h, w)
                               /\ Capacity(g, w) = Capacity(h, w) /\ Used(g, w) = Used(h, w)
  BY <1>2 DEF Data, NumBits, Capacity, Used
<1>4. Chunk(g)
  <2>1. /\ h.offset < ChunkWords => h.base + ChunkWords <= h.size
        /\ \A x \in (h.base + h.offset)..(h.size - 1) : h.mem[x] = {}
    BY DEF Chunk
  <2>2. /\ a \in Nat /\ n \in Nat /\ (n = 0 \/ a + n <= h.base + h.offset)
        /\ h.base \in Nat /\ h.offset \in Nat /\ h.size \in Nat
    BY DEF Own, Below, HeapType
  <2>3. ASSUME NEW x \in (h.base + h.offset)..(h.size - 1) PROVE g.mem[x] = {}
    <3>1. x \in 0..(h.size - 1) /\ (n = 0 \/ a + n <= x) BY <2>2
    <3>2. x < a \/ a + n <= x BY <2>2, <3>1
    <3>3. QED BY <2>1, <3>1, <3>2
  <2>4. QED BY <2>1, <2>3 DEF Chunk
<1>5. Blocks(g)
  <2>1. \A w \in Vecs : Below(g, Data(g, w), Capacity(g, w))
    BY <1>1, <1>3 DEF Blocks, Below, Own
  <2>2. ASSUME NEW b \in g.free PROVE Below(g, b.ptr, b.words) /\ Clean(g, b.ptr, b.words)
    <3>1. Below(h, b.ptr, b.words) /\ Clean(h, b.ptr, b.words) /\ Apart(a, n, b.ptr, b.words)
      BY DEF Blocks, Own
    <3>2. b.ptr \in Nat /\ b.words \in Nat BY DEF HeapType
    <3>3. Below(g, b.ptr, b.words) BY <3>1 DEF Below
    <3>4. ASSUME NEW x \in b.ptr..(b.ptr + b.words - 1) PROVE g.mem[x] = {}
      <4>1. h.mem[x] = {} BY <3>1 DEF Clean
      <4>2. x \in 0..(h.size - 1) BY <3>1, <3>2 DEF Below, HeapType
      <4>3. x < a \/ a + n <= x BY <3>1, <3>2 DEF Apart, Own
      <4>4. QED BY <4>1, <4>2, <4>3
    <3>5. QED BY <3>3, <3>4 DEF Clean
  <2>3. \A w, u \in Vecs : w # u => Apart(Data(g, w), Capacity(g, w), Data(g, u), Capacity(g, u))
    <3> SUFFICES ASSUME NEW w \in Vecs, NEW u \in Vecs, w # u
                 PROVE  Apart(Data(g, w), Capacity(g, w), Data(g, u), Capacity(g, u))
      OBVIOUS
    <3>1. w # v => Apart(a, n, Data(h, w), Capacity(h, w)) BY DEF Own
    <3>2. u # v => Apart(a, n, Data(h, u), Capacity(h, u)) BY DEF Own
    <3>3. Apart(Data(h, w), Capacity(h, w), Data(h, u), Capacity(h, u)) BY DEF Blocks
    <3>4. QED BY <3>1, <3>2, <3>3, <1>1, <1>3 DEF Apart
  <2>4. \A w \in Vecs, b \in g.free : Apart(Data(g, w), Capacity(g, w), b.ptr, b.words)
    BY <1>1, <1>3 DEF Own, Blocks
  <2>5. QED BY <2>1, <2>2, <2>3, <2>4 DEF Blocks
<1>6. ASSUME NEW w \in Vecs, w # v, NEW k \in 0..(Capacity(h, w) - 1)
      PROVE  Word(g, w, k) = Word(h, w, k)
  <2>1. Data(h, w) + k \in 0..(h.size - 1) /\ Word(h, w, k) = h.mem[Data(h, w) + k]
    BY <1>6, WordIn
  <2>2. Word(g, w, k) = g.mem[Data(h, w) + k]
    BY <1>6, <1>3 DEF Word, Data
  <2>3. Apart(a, n, Data(h, w), Capacity(h, w)) /\ a \in Nat /\ n \in Nat BY <1>6 DEF Own
  <2>4. Data(h, w) \in Nat /\ Capacity(h, w) \in Nat BY VecFields
  <2>5. QED BY <2>1, <2>2, <2>3, <2>4 DEF Apart
<1>7. ASSUME NEW w \in Vecs, w # v PROVE VecOK(g, w) /\ Same(h, g, w)
  <2>1. Used(h, w) \in Nat /\ Used(h, w) <= Capacity(h, w) /\ Capacity(h, w) \in Nat
    BY VecFields DEF VecOK
  <2>2. VecOK(g, w) BY <1>3, <1>6, <1>7, <2>1 DEF VecOK
  <2>3. Same(h, g, w) BY <1>3, <1>6, <1>7, <2>1 DEF Same, WordOr0
  <2>4. QED BY <2>2, <2>3
<1>8. QED BY <1>4, <1>5, <1>7 DEF Others

\* Memory changes only where no vector is.
LEMMA Kept ==
  ASSUME NEW h, HeapOK(h), NEW g, HeapType(g), g.vec = h.vec,
         \A w \in Vecs : \A k \in 0..(Capacity(h, w) - 1) : g.mem[Data(h, w) + k] = h.mem[Data(h, w) + k]
  PROVE  SameAll(h, g) /\ \A w \in Vecs : VecOK(g, w)
<1> SUFFICES ASSUME NEW w \in Vecs PROVE VecOK(g, w) /\ Same(h, g, w)
  BY DEF SameAll
<1>1. /\ Data(g, w) = Data(h, w) /\ NumBits(g, w) = NumBits(h, w)
      /\ Capacity(g, w) = Capacity(h, w) /\ Used(g, w) = Used(h, w)
  BY DEF Data, NumBits, Capacity, Used
<1>2. \A k \in 0..(Capacity(h, w) - 1) : Word(g, w, k) = Word(h, w, k)
  BY <1>1 DEF Word, Data
<1>3. Used(h, w) \in Nat /\ Used(h, w) <= Capacity(h, w) /\ Capacity(h, w) \in Nat /\ VecOK(h, w)
  BY VecFields DEF VecOK, HeapOK
<1>4. VecOK(g, w) BY <1>1, <1>2, <1>3 DEF VecOK
<1>5. Same(h, g, w) BY <1>1, <1>2, <1>3 DEF Same, WordOr0
<1>6. QED BY <1>4, <1>5

-----------------------------------------------------------------------------
(* The arena                                                                 *)

\* A free block is taken whole: it is zero and nobody else's.
LEMMA TakenSound ==
  ASSUME NEW h, HeapOK(h), NEW b \in h.free, NEW at, at = Taken(h, b)
  PROVE  /\ HeapOK(at.heap) /\ Spare(at.heap, at.ptr, b.words)
         /\ at.heap.vec = h.vec /\ SameAll(h, at.heap)
<1> DEFINE g == at.heap
<1>1. at.ptr = b.ptr /\ g = [h EXCEPT !.free = h.free \ {b}] BY DEF Taken
<1> HIDE DEF g
<1>2. /\ HeapRec(g) /\ g.mem = h.mem /\ g.size = h.size /\ g.base = h.base
      /\ g.offset = h.offset /\ g.free = h.free \ {b} /\ g.vec = h.vec
  <2>1. HeapRec(h) BY DEF HeapOK, HeapType
  <2>2. QED BY <1>1, <2>1, FreeRec
<1>3. HeapType(g) BY <1>2 DEF HeapOK, HeapType
<1>4. SameAll(h, g) /\ \A w \in Vecs : VecOK(g, w) BY <1>2, <1>3, Kept
<1>5. Chunk(g) BY <1>2 DEF HeapOK, Chunk
<1>6. Blocks(g) BY <1>2 DEF HeapOK, Blocks, Below, Clean, Data, Capacity
<1>7. Spare(g, b.ptr, b.words)
  <2>1. b.ptr \in Nat /\ b.words \in Nat BY DEF HeapOK, HeapType
  <2>2. Below(g, b.ptr, b.words) /\ Clean(g, b.ptr, b.words)
    BY <1>2 DEF HeapOK, Blocks, Below, Clean
  <2>3. \A c \in g.free : Apart(b.ptr, b.words, c.ptr, c.words)
    BY <1>2 DEF HeapOK, Blocks
  <2>4. ASSUME NEW w \in Vecs PROVE Apart(b.ptr, b.words, Data(g, w), Capacity(g, w))
    <3>1. Apart(Data(h, w), Capacity(h, w), b.ptr, b.words) BY DEF HeapOK, Blocks
    <3>2. Data(g, w) = Data(h, w) /\ Capacity(g, w) = Capacity(h, w)
      BY <1>2 DEF Data, Capacity
    <3>3. QED BY <3>1, <3>2, <2>1 DEF Apart
  <2>5. QED BY <2>1, <2>2, <2>3, <2>4 DEF Spare, Unheld
<1>8. QED BY <1>1, <1>2, <1>3, <1>4, <1>5, <1>6, <1>7 DEF HeapOK, g

\* Words are taken from the last chunk, when they are left there.
LEMMA BumpedSound ==
  ASSUME NEW h, HeapOK(h), NEW n \in Nat \ {0},
         h.base + h.offset + n <= h.size,
         h.offset + n < ChunkWords => h.base + ChunkWords <= h.size,
         NEW at, at = Bumped(h, n)
  PROVE  /\ HeapOK(at.heap) /\ Spare(at.heap, at.ptr, n)
         /\ at.heap.vec = h.vec /\ SameAll(h, at.heap)
<1> DEFINE g == at.heap
           a == h.base + h.offset
<1>1. at.ptr = a /\ g = [h EXCEPT !.offset = h.offset + n] BY DEF Bumped
<1> HIDE DEF g
<1>2. /\ HeapRec(g) /\ g.mem = h.mem /\ g.size = h.size /\ g.base = h.base
      /\ g.offset = h.offset + n /\ g.free = h.free /\ g.vec = h.vec
  <2>1. HeapRec(h) BY DEF HeapOK, HeapType
  <2>2. QED BY <1>1, <2>1, OffsetRec
<1>3. HeapType(g) BY <1>2 DEF HeapOK, HeapType
<1>4. SameAll(h, g) /\ \A w \in Vecs : VecOK(g, w) BY <1>2, <1>3, Kept
<1>5. h.size \in Nat /\ h.base \in Nat /\ h.offset \in Nat /\ a \in Nat BY DEF HeapOK, HeapType
<1>6. Chunk(g) BY <1>2, <1>5, ChunkAssumption DEF HeapOK, Chunk
<1>7. ASSUME NEW b, NEW m, b \in Nat, m \in Nat, Below(h, b, m)
      PROVE  Below(g, b, m) /\ Apart(a, n, b, m)
  BY <1>2, <1>5, <1>7 DEF Below, Apart
<1>8. \A w \in Vecs : Data(g, w) = Data(h, w) /\ Capacity(g, w) = Capacity(h, w)
  BY <1>2 DEF Data, Capacity
<1>9. \A b \in h.free : b.ptr \in Nat /\ b.words \in Nat /\ Below(h, b.ptr, b.words)
  BY DEF HeapOK, HeapType, Blocks
<1>10. \A w \in Vecs : Data(h, w) \in Nat /\ Capacity(h, w) \in Nat /\ Below(h, Data(h, w), Capacity(h, w))
  BY VecFields DEF HeapOK, Blocks
<1>11. Blocks(g)
  <2>1. \A b \in g.free : Below(g, b.ptr, b.words) BY <1>2, <1>7, <1>9
  <2>2. \A w \in Vecs : Below(g, Data(g, w), Capacity(g, w)) BY <1>7, <1>8, <1>10
  <2>3. QED BY <1>2, <1>8, <2>1, <2>2 DEF HeapOK, Blocks, Clean
<1>12. Spare(g, a, n)
  <2>1. Below(g, a, n) BY <1>2, <1>5 DEF Below
  <2>2. Clean(g, a, n) BY <1>2, <1>5 DEF Clean, HeapOK, Chunk
  <2>3. \A b \in g.free : Apart(a, n, b.ptr, b.words) BY <1>2, <1>7, <1>9
  <2>4. \A w \in Vecs : Apart(a, n, Data(g, w), Capacity(g, w)) BY <1>7, <1>8, <1>10
  <2>5. QED BY <1>5, <2>1, <2>2, <2>3, <2>4 DEF Spare, Unheld
<1>13. QED BY <1>1, <1>2, <1>3, <1>4, <1>6, <1>11, <1>12 DEF HeapOK, g

\* A chunk is added.
LEMMA NewChunkSound ==
  ASSUME NEW h, HeapOK(h), NEW n \in Nat \ {0}, NEW g, g = NewChunk(h, n)
  PROVE  /\ HeapOK(g) /\ g.vec = h.vec /\ SameAll(h, g)
         /\ g.base + g.offset + n <= g.size /\ g.base + ChunkWords <= g.size
<1> DEFINE size == h.size + Larger(ChunkWords, n)
           m == [a \in 0..(size - 1) |-> IF a < h.size THEN h.mem[a] ELSE {}]
<1>1. ChunkWords \in Nat BY ChunkAssumption
<1>2. size \in Nat /\ size >= h.size + ChunkWords /\ size >= h.size + n /\ h.size \in Nat
  <2>1. h.size \in Nat BY DEF HeapOK, HeapType
  <2>2. /\ Larger(ChunkWords, n) \in Nat
        /\ Larger(ChunkWords, n) >= ChunkWords /\ Larger(ChunkWords, n) >= n
    BY <1>1 DEF Larger
  <2>3. QED BY <1>1, <2>1, <2>2
<1>3. m \in [0..(size - 1) -> SUBSET Bits]
  <2>1. h.mem \in [0..(h.size - 1) -> SUBSET Bits] BY DEF HeapOK, HeapType
  <2> HIDE DEF size
  <2>2. \A x \in 0..(size - 1) : x < h.size => x \in 0..(h.size - 1) BY <1>2
  <2>3. QED BY <2>1, <2>2
<1>4. \A x \in 0..(size - 1) : m[x] = IF x < h.size THEN h.mem[x] ELSE {}
  OBVIOUS
<1>5. g = [[[[h EXCEPT !.mem = m] EXCEPT !.size = size] EXCEPT !.base = h.size] EXCEPT !.offset = 0]
  BY DEF NewChunk
<1> HIDE DEF m, size
<1>6. /\ HeapRec(g) /\ g.mem = m /\ g.size = size /\ g.base = h.size
      /\ g.offset = 0 /\ g.free = h.free /\ g.vec = h.vec
  BY <1>5 DEF HeapOK, HeapType, HeapRec
<1>7. HeapType(g) BY <1>2, <1>3, <1>6 DEF HeapOK, HeapType
<1>8. SameAll(h, g) /\ \A w \in Vecs : VecOK(g, w)
  <2>1. ASSUME NEW w \in Vecs, NEW k \in 0..(Capacity(h, w) - 1)
        PROVE  g.mem[Data(h, w) + k] = h.mem[Data(h, w) + k]
    <3>1. Data(h, w) + k \in 0..(h.size - 1) BY WordIn DEF HeapOK
    <3>2. QED BY <3>1, <1>2, <1>4, <1>6
  <2>2. QED BY <2>1, <1>6, <1>7, Kept
<1>9. Chunk(g) BY <1>1, <1>2, <1>4, <1>6 DEF Chunk
<1>10. ASSUME NEW b \in Nat, NEW c \in Nat, Below(h, b, c)
       PROVE  Below(g, b, c) /\ (Clean(h, b, c) => Clean(g, b, c))
  BY <1>2, <1>4, <1>6, <1>10 DEF Below, Clean
<1>11. Blocks(g)
  <2>1. \A b \in h.free : /\ b.ptr \in Nat /\ b.words \in Nat
                          /\ Below(h, b.ptr, b.words) /\ Clean(h, b.ptr, b.words)
    BY DEF HeapOK, HeapType, Blocks
  <2>2. \A b \in g.free : Below(g, b.ptr, b.words) /\ Clean(g, b.ptr, b.words)
    BY <1>6, <1>10, <2>1
  <2>3. \A w \in Vecs : /\ Data(h, w) \in Nat /\ Capacity(h, w) \in Nat
                        /\ Below(h, Data(h, w), Capacity(h, w))
    BY VecFields DEF HeapOK, Blocks
  <2>4. \A w \in Vecs : Data(g, w) = Data(h, w) /\ Capacity(g, w) = Capacity(h, w)
    BY <1>6 DEF Data, Capacity
  <2>5. \A w \in Vecs : Below(g, Data(g, w), Capacity(g, w)) BY <1>10, <2>3, <2>4
  <2>6. QED BY <1>6, <2>2, <2>4, <2>5 DEF HeapOK, Blocks
<1>12. QED BY <1>1, <1>2, <1>6, <1>7, <1>8, <1>9, <1>11 DEF HeapOK

\* Vectors that are the same in f and g, and in g and h, are so in f and h.
LEMMA SameTransitive ==
  ASSUME NEW f, NEW g, NEW h, NEW v, Same(f, g, v), Same(g, h, v)
  PROVE  Same(f, h, v)
BY DEF Same

\* alloc returns n words that are zero and nobody's, from the free list, the chunk or
\* a new one, and changes no vector.
LEMMA AllocSound ==
  ASSUME NEW h, HeapOK(h), NEW n \in Nat \ {0}, NEW at, at = alloc(h, n)
  PROVE  /\ HeapOK(at.heap) /\ Spare(at.heap, at.ptr, n)
         /\ at.heap.vec = h.vec /\ SameAll(h, at.heap)
<1>1. CASE FreeOf(h, n) # {}
  <2> DEFINE b == CHOOSE b \in FreeOf(h, n) : TRUE
  <2>1. b \in FreeOf(h, n) BY <1>1
  <2>2. at = Taken(h, b) BY <1>1 DEF alloc
  <2> HIDE DEF b
  <2>3. b \in h.free /\ b.words = n BY <2>1 DEF FreeOf
  <2>4. QED BY <2>2, <2>3, TakenSound
<1>2. CASE FreeOf(h, n) = {} /\ h.offset + n > ChunkWords
  <2> DEFINE g == NewChunk(h, n)
  <2>1. at = Bumped(g, n) BY <1>2 DEF alloc
  <2> HIDE DEF g
  <2>2. /\ HeapOK(g) /\ g.vec = h.vec /\ SameAll(h, g)
        /\ g.base + g.offset + n <= g.size /\ g.base + ChunkWords <= g.size
    BY NewChunkSound DEF g
  <2>3. /\ HeapOK(at.heap) /\ Spare(at.heap, at.ptr, n)
        /\ at.heap.vec = g.vec /\ SameAll(g, at.heap)
    BY <2>1, <2>2, BumpedSound
  <2>4. SameAll(h, at.heap) BY <2>2, <2>3, SameTransitive DEF SameAll
  <2>5. QED BY <2>2, <2>3, <2>4
<1>3. CASE FreeOf(h, n) = {} /\ h.offset + n <= ChunkWords
  <2>1. h.size \in Nat /\ h.base \in Nat /\ h.offset \in Nat /\ ChunkWords \in Nat
    BY ChunkAssumption DEF HeapOK, HeapType
  <2>2. h.base + ChunkWords <= h.size BY <2>1, <1>3 DEF HeapOK, Chunk
  <2>3. at = Bumped(h, n) BY <1>3, <2>1 DEF alloc
  <2>4. h.base + h.offset + n <= h.size BY <1>3, <2>1, <2>2
  <2>5. QED BY <2>2, <2>3, <2>4, BumpedSound
<1>4. QED
  <2>1. h.offset \in Nat /\ ChunkWords \in Nat BY ChunkAssumption DEF HeapOK, HeapType
  <2>2. QED BY <1>1, <1>2, <1>3, <2>1

\* What Cleared changes.
Zeroed(h, g, a, lo, hi) ==
  \A x \in 0..(h.size - 1) :
    /\ a + lo <= x /\ x < a + hi => g.mem[x] = {}
    /\ ~(a + lo <= x /\ x < a + hi) => g.mem[x] = h.mem[x]

\* Cleared zeroes the words it names and nothing else.
LEMMA ClearedIs ==
  ASSUME NEW h, HeapType(h), NEW a \in Nat, NEW lo \in Nat, NEW hi \in Nat,
         NEW g, g = Cleared(h, a, lo, hi)
  PROVE  HeapType(g) /\ Frame(h, g) /\ g.vec = h.vec /\ Zeroed(h, g, a, lo, hi)
<1> DEFINE f == Zeros(lo, hi)
<1>1. \A k \in lo..(hi - 1) : f[k] = {} BY DEF Zeros
<1>2. g = Filled(h, a, lo, hi, f) BY DEF Cleared
<1> HIDE DEF f
<1>3. \A k \in lo..(hi - 1) : f[k] \in SUBSET Bits BY <1>1
<1>4. HeapType(g) /\ Frame(h, g) /\ g.vec = h.vec /\ FilledWith(h, g, a, lo, hi, f)
  BY <1>2, <1>3, FilledIs
<1>5. \A x \in 0..(h.size - 1) : a + lo <= x /\ x < a + hi => f[x - a] = {}
  <2> TAKE x \in 0..(h.size - 1)
  <2>1. a + lo <= x /\ x < a + hi => x - a \in lo..(hi - 1) BY DEF HeapType
  <2>2. QED BY <1>1, <2>1
<1>6. Zeroed(h, g, a, lo, hi) BY <1>4, <1>5 DEF Zeroed, FilledWith
<1>7. QED BY <1>4, <1>6

\* A block that nobody has is freed; the words after those used are zero already.
LEMMA FreeSound ==
  ASSUME NEW h, HeapOK(h), NEW a, NEW n, Unheld(h, a, n), NEW used \in Nat, used <= n,
         \A x \in (a + used)..(a + n - 1) : h.mem[x] = {},
         NEW g, g = free(h, a, n, used)
  PROVE  HeapOK(g) /\ g.vec = h.vec /\ SameAll(h, g)
<1>0. a \in Nat /\ n \in Nat BY DEF Unheld
<1>1. CASE n = 0
  <2>1. g = h BY <1>1 DEF free
  <2>2. QED BY <2>1 DEF SameAll, Same
<1>2. CASE n # 0
  <2> DEFINE c == Cleared(h, a, 0, used)
  <2>1. g = [c EXCEPT !.free = c.free \cup {Block(a, n)}] BY <1>2 DEF free
  <2> HIDE DEF c
  <2>2. HeapType(c) /\ Frame(h, c) /\ c.vec = h.vec /\ Zeroed(h, c, a, 0, used)
    BY <1>0, ClearedIs DEF c, HeapOK
  <2>3. /\ HeapRec(g) /\ g.mem = c.mem /\ g.size = h.size /\ g.base = h.base
        /\ g.offset = h.offset /\ g.free = h.free \cup {Block(a, n)} /\ g.vec = h.vec
    <3>1. HeapRec(c) BY <2>2 DEF HeapType
    <3>2. /\ HeapRec(g) /\ g.mem = c.mem /\ g.size = c.size /\ g.base = c.base
          /\ g.offset = c.offset /\ g.free = c.free \cup {Block(a, n)} /\ g.vec = c.vec
      BY <2>1, <3>1, FreeRec
    <3>3. QED BY <2>2, <3>2 DEF Frame
  <2>4. Block(a, n).ptr = a /\ Block(a, n).words = n /\ Block(a, n) \in [ptr : Nat, words : Nat \ {0}]
    BY <1>0, <1>2 DEF Block
  <2>5. HeapType(g) BY <2>2, <2>3, <2>4 DEF HeapType, Frame
  <2>6. h.size \in Nat /\ a + n <= h.size /\ a + n <= h.base + h.offset
    BY <1>2 DEF HeapOK, HeapType, Unheld, Below
  <2>7. \A x \in 0..(h.size - 1) : x < a \/ a + n <= x => g.mem[x] = h.mem[x]
    BY <2>2, <2>3, <2>6, <1>0 DEF Zeroed
  <2>8. \A x \in 0..(h.size - 1) : h.mem[x] = {} => g.mem[x] = {}
    BY <2>2, <2>3 DEF Zeroed
  <2>9. SameAll(h, g) /\ \A w \in Vecs : VecOK(g, w)
    <3>1. ASSUME NEW w \in Vecs, NEW k \in 0..(Capacity(h, w) - 1)
          PROVE  g.mem[Data(h, w) + k] = h.mem[Data(h, w) + k]
      <4>1. Data(h, w) + k \in 0..(h.size - 1) BY WordIn DEF HeapOK
      <4>2. Data(h, w) \in Nat /\ Capacity(h, w) \in Nat BY VecFields DEF HeapOK
      <4>3. Apart(a, n, Data(h, w), Capacity(h, w)) BY DEF Unheld
      <4>4. QED BY <4>1, <4>2, <4>3, <2>7, <1>0, <1>2 DEF Apart
    <3>2. QED BY <3>1, <2>3, <2>5, Kept
  <2>10. Chunk(g)
    BY <2>3, <2>8 DEF HeapOK, Chunk, HeapType
  <2>11. Clean(g, a, n)
    <3> SUFFICES ASSUME NEW x \in a..(a + n - 1) PROVE g.mem[x] = {} BY DEF Clean
    <3>1. x \in 0..(h.size - 1) BY <1>0, <2>6
    <3>2. CASE x < a + used BY <3>1, <3>2, <2>2, <2>3, <1>0 DEF Zeroed
    <3>3. CASE x >= a + used
      <4>1. h.mem[x] = {} BY <3>3, <1>0
      <4>2. QED BY <4>1, <3>1, <2>8
    <3>4. QED BY <3>2, <3>3, <1>0
  <2>12. ASSUME NEW b \in h.free
         PROVE  /\ Below(g, b.ptr, b.words) /\ Clean(g, b.ptr, b.words)
                /\ Apart(b.ptr, b.words, a, n) /\ Apart(a, n, b.ptr, b.words)
    <3>1. /\ b.ptr \in Nat /\ b.words \in Nat
          /\ Below(h, b.ptr, b.words) /\ Clean(h, b.ptr, b.words) /\ Apart(a, n, b.ptr, b.words)
      BY DEF HeapOK, HeapType, Blocks, Unheld
    <3>2. Below(g, b.ptr, b.words) BY <3>1, <2>3 DEF Below
    <3>3. Clean(g, b.ptr, b.words)
      BY <3>1, <2>6, <2>8 DEF Clean, Below
    <3>4. QED BY <3>1, <3>2, <3>3, <1>0 DEF Apart
  <2>13. ASSUME NEW w \in Vecs
         PROVE  /\ Below(g, Data(g, w), Capacity(g, w)) /\ Apart(Data(g, w), Capacity(g, w), a, n)
                /\ Data(g, w) = Data(h, w) /\ Capacity(g, w) = Capacity(h, w)
    <3>1. Data(g, w) = Data(h, w) /\ Capacity(g, w) = Capacity(h, w)
      BY <2>3 DEF Data, Capacity
    <3>2. Below(h, Data(h, w), Capacity(h, w)) /\ Apart(a, n, Data(h, w), Capacity(h, w))
      BY DEF HeapOK, Blocks, Unheld
    <3>3. Data(h, w) \in Nat /\ Capacity(h, w) \in Nat BY VecFields DEF HeapOK
    <3>4. QED BY <3>1, <3>2, <3>3, <2>3, <1>0 DEF Below, Apart
  <2>14. Blocks(g)
    <3>1. \A b \in g.free : Below(g, b.ptr, b.words) /\ Clean(g, b.ptr, b.words)
      <4>1. Below(g, a, n) BY <2>3, <2>6 DEF Below
      <4>2. QED BY <4>1, <2>3, <2>4, <2>11, <2>12
    <3>2. \A b, d \in g.free : b # d => Apart(b.ptr, b.words, d.ptr, d.words)
      <4>1. \A b, d \in h.free : b # d => Apart(b.ptr, b.words, d.ptr, d.words)
        BY DEF HeapOK, Blocks
      <4>2. QED BY <4>1, <2>3, <2>4, <2>12
    <3>3. \A w, u \in Vecs : w # u => Apart(Data(g, w), Capacity(g, w), Data(g, u), Capacity(g, u))
      BY <2>13 DEF HeapOK, Blocks
    <3>4. \A w \in Vecs, b \in g.free : Apart(Data(g, w), Capacity(g, w), b.ptr, b.words)
      <4>1. \A w \in Vecs, b \in h.free : Apart(Data(h, w), Capacity(h, w), b.ptr, b.words)
        BY DEF HeapOK, Blocks
      <4>2. QED BY <4>1, <2>3, <2>4, <2>13
    <3>5. QED BY <3>1, <3>2, <3>3, <3>4, <2>13 DEF Blocks
  <2>15. QED BY <2>3, <2>5, <2>9, <2>10, <2>14 DEF HeapOK
<1>3. QED BY <1>1, <1>2

-----------------------------------------------------------------------------
(* Vectors move                                                              *)

\* Vector v gets a block.
Repoint(h, v, a, m, n) ==
  [h EXCEPT !.vec = [h.vec EXCEPT ![v] = [data |-> a, num_bits |-> m, capacity |-> n]]]
Copied(h, v, a) == Filled(h, a, 0, Used(h, v), WordsOf(h, v))

\* The words of v are copied to a block that nobody has, which becomes w's.
LEMMA CopySound ==
  ASSUME NEW h, HeapOK(h), NEW a, NEW n, Spare(h, a, n), NEW v \in Vecs, NEW w \in Vecs,
         Used(h, v) <= n,
         NEW g, g = Repoint(Copied(h, v, a), w, a, NumBits(h, v), n)
  PROVE  /\ HeapOK(g) /\ Others(h, g, w)
         /\ Data(g, w) = a /\ Capacity(g, w) = n /\ NumBits(g, w) = NumBits(h, v)
         /\ \A k \in Nat : WordOr0(g, w, k) = WordOr0(h, v, k)
         /\ \A u \in Vecs : u # w => g.vec[u] = h.vec[u]
         /\ Frame(h, g) /\ OnlyIn(h, g, a, n)
<1> DEFINE used == Used(h, v)
           f == WordsOf(h, v)
           r == [data |-> a, num_bits |-> NumBits(h, v), capacity |-> n]
           c == Copied(h, v, a)
<1>0. a \in Nat /\ n \in Nat /\ 0 \in Nat BY DEF Spare, Unheld
<1>1. /\ used \in Nat /\ used <= n /\ used <= Capacity(h, v) /\ Capacity(h, v) \in Nat
      /\ NumBits(h, v) \in Nat /\ used = words_in_use(NumBits(h, v))
  BY VecFields DEF HeapOK, VecOK
<1>2. \A k \in 0..(used - 1) : f[k] = Word(h, v, k) /\ f[k] \in SUBSET Bits
  <2> TAKE k \in 0..(used - 1)
  <2>1. f[k] = Word(h, v, k) BY DEF WordsOf
  <2>2. k \in 0..(Capacity(h, v) - 1) BY <1>1
  <2>3. QED BY <2>1, <2>2, WordIn DEF HeapOK
<1> HIDE DEF used, f
<1>3. c = Filled(h, a, 0, used, f) BY DEF used, f, Copied
<1> HIDE DEF c
<1>4. HeapType(c) /\ Frame(h, c) /\ c.vec = h.vec /\ FilledWith(h, c, a, 0, used, f)
  <2>1. HeapType(h) /\ \A k \in 0..(used - 1) : f[k] \in SUBSET Bits BY <1>2 DEF HeapOK
  <2>2. PICK lo \in Nat : lo = 0 OBVIOUS
  <2>3. /\ c = Filled(h, a, lo, used, f)
        /\ \A k \in lo..(used - 1) : f[k] \in SUBSET Bits
    BY <1>3, <2>1, <2>2
  <2>4. HeapType(c) /\ Frame(h, c) /\ c.vec = h.vec /\ FilledWith(h, c, a, lo, used, f)
    BY <1>0, <1>1, <2>1, <2>3, FilledIs
  <2>5. QED BY <2>2, <2>4
<1>5. r \in VecType /\ r.data = a /\ r.num_bits = NumBits(h, v) /\ r.capacity = n
  BY <1>0, <1>1 DEF VecType
<1> HIDE DEF r
<1>6. g = [c EXCEPT !.vec = [h.vec EXCEPT ![w] = r]] BY <1>4 DEF r, c, Repoint
<1>7. HeapRec(g) /\ g.mem = c.mem /\ Frame(h, g) /\ g.vec = [h.vec EXCEPT ![w] = r]
  <2>1. HeapRec(c) BY <1>4 DEF HeapType
  <2>2. /\ HeapRec(g) /\ g.mem = c.mem /\ g.size = c.size /\ g.base = c.base
        /\ g.offset = c.offset /\ g.free = c.free /\ g.vec = [h.vec EXCEPT ![w] = r]
    BY <1>6, <2>1, VecRec
  <2>3. QED BY <1>4, <2>2 DEF Frame
<1>8. HeapType(g) BY <1>4, <1>5, <1>7 DEF HeapType, HeapOK, Frame
<1>9. /\ g.vec[w] = r /\ Data(g, w) = a /\ Capacity(g, w) = n /\ NumBits(g, w) = NumBits(h, v)
      /\ Used(g, w) = used
  BY <1>1, <1>5, <1>7 DEF HeapOK, HeapType, Data, Capacity, NumBits, Used
<1>10. \A u \in Vecs : u # w => g.vec[u] = h.vec[u] BY <1>7 DEF HeapOK, HeapType
<1>11. OnlyIn(h, g, a, n)
  BY <1>0, <1>1, <1>4, <1>7 DEF OnlyIn, FilledWith
<1>12. ASSUME NEW k \in 0..(n - 1) PROVE Word(g, w, k) = IF k < used THEN Word(h, v, k) ELSE {}
  <2>1. n # 0 BY <1>0
  <2>2. a + k \in 0..(h.size - 1)
    BY <1>0, <2>1 DEF Spare, Unheld, Below, HeapOK, HeapType
  <2>3. Word(g, w, k) = c.mem[a + k] BY <1>7, <1>9 DEF Word, Data
  <2>4. CASE k < used
    <3>1. a + 0 <= a + k /\ a + k < a + used /\ (a + k) - a = k BY <1>0, <1>1, <2>4
    <3>2. c.mem[a + k] = f[k] BY <1>4, <2>2, <3>1 DEF FilledWith
    <3>3. QED BY <1>2, <2>3, <2>4, <3>2, <1>1
  <2>5. CASE k >= used
    <3>1. c.mem[a + k] = h.mem[a + k] BY <1>0, <1>1, <1>4, <2>2, <2>5 DEF FilledWith
    <3>2. h.mem[a + k] = {}
      <4>1. a + k \in a..(a + n - 1) BY <1>0
      <4>2. QED BY <4>1 DEF Spare, Clean
    <3>3. QED BY <2>3, <2>5, <3>1, <3>2, <1>1
  <2>6. QED BY <2>4, <2>5, <1>1
<1>13. VecOK(h, v) BY DEF HeapOK
<1>14. VecOK(g, w)
  <2>1. \A k \in used..(n - 1) : Word(g, w, k) = {} BY <1>0, <1>1, <1>12
  <2>2. \A k \in 0..(used - 1) : Word(g, w, k) = Word(h, v, k) BY <1>0, <1>1, <1>12
  <2>3. \A k \in 0..(used - 1) : \A b \in Word(h, v, k) : 64 * k + b < NumBits(h, v)
    BY <1>13 DEF VecOK, used
  <2>4. QED BY <2>1, <2>2, <2>3, <1>1, <1>9 DEF VecOK
<1>15. Own(h, w, a, n) BY DEF Spare, Unheld, Own
<1>16. HeapOK(g) /\ Others(h, g, w)
  <2>1. Given(h, g, w, a, NumBits(h, v), n) BY <1>7 DEF r, Given
  <2>2. QED BY <1>1, <1>7, <1>8, <1>11, <1>14, <1>15, <2>1, Placed
<1>17. \A k \in Nat : WordOr0(g, w, k) = WordOr0(h, v, k)
  BY <1>0, <1>1, <1>9, <1>12 DEF WordOr0, used
<1>18. QED BY <1>7, <1>9, <1>10, <1>11, <1>16, <1>17

\* Filled replaces mem alone.
LEMMA FilledRec ==
  ASSUME NEW h, HeapRec(h), NEW a, NEW lo, NEW hi, NEW f, NEW g, g = Filled(h, a, lo, hi, f)
  PROVE  HeapRec(g) /\ g.vec = h.vec
<1> DEFINE m == [x \in 0..(h.size - 1) |-> IF a + lo <= x /\ x < a + hi THEN f[x - a] ELSE h.mem[x]]
<1>1. g = [h EXCEPT !.mem = m] BY DEF Filled
<1> HIDE DEF m
<1>2. QED BY <1>1, MemRec

\* The words of v are copied to a larger block and the old one is freed: no vector
\* changes its bits.
LEMMA MovedSound ==
  ASSUME NEW at, NEW n, HeapOK(at.heap), Spare(at.heap, at.ptr, n), NEW v \in Vecs,
         Used(at.heap, v) <= n,
         NEW g, g = Moved(at, v, n)
  PROVE  HeapOK(g) /\ SameAll(at.heap, g) /\ Capacity(g, v) = n
<1> DEFINE h == at.heap
           a == at.ptr
           c == Copied(h, v, a)
           p == [c EXCEPT !.vec[v].data = a, !.vec[v].capacity = n]
<1>1. g = free(p, Data(h, v), Capacity(h, v), Used(h, v))
  BY DEF Moved, Data, Capacity, Used, Copied
<1>2. HeapType(h) BY DEF HeapOK
<1>3. /\ Data(h, v) \in Nat /\ Capacity(h, v) \in Nat /\ NumBits(h, v) \in Nat /\ Used(h, v) \in Nat
      /\ h.vec[v] = [data |-> Data(h, v), num_bits |-> NumBits(h, v), capacity |-> Capacity(h, v)]
  BY <1>2, VecFields
<1>4. HeapOK(h) /\ Spare(h, a, n) /\ Used(h, v) <= n OBVIOUS
<1> HIDE DEF h, a
<1>5. p = Repoint(c, v, a, NumBits(h, v), n)
  <2>1. HeapRec(h) BY <1>2 DEF HeapType
  <2>2. HeapRec(c) /\ c.vec = h.vec BY <2>1, FilledRec DEF Copied
  <2> HIDE DEF c
  <2>3. p = Repoint(c, v, a, c.vec[v].num_bits, n)
    <3>1. c.vec \in [Vecs -> VecType] BY <1>2, <2>2 DEF HeapType
    <3> DEFINE f == [c.vec EXCEPT ![v].data = a, ![v].capacity = n]
    <3>2. f = [c.vec EXCEPT ![v] = [data |-> a, num_bits |-> c.vec[v].num_bits, capacity |-> n]]
      BY <3>1 DEF VecType
    <3>3. p = [c EXCEPT !.vec = f] BY <2>2 DEF HeapRec
    <3>4. QED BY <3>2, <3>3, Zenon DEF Repoint
  <2>4. QED BY <2>2, <2>3 DEF NumBits
<1> HIDE DEF p
<1>6. /\ HeapOK(p) /\ Others(h, p, v)
      /\ Data(p, v) = a /\ Capacity(p, v) = n /\ NumBits(p, v) = NumBits(h, v)
      /\ \A k \in Nat : WordOr0(p, v, k) = WordOr0(h, v, k)
      /\ \A u \in Vecs : u # v => p.vec[u] = h.vec[u]
      /\ Frame(h, p) /\ OnlyIn(h, p, a, n)
  BY <1>4, <1>5, CopySound
<1>7. SameAll(h, p) BY <1>6 DEF SameAll, Same, Others
<1>8. Apart(a, n, Data(h, v), Capacity(h, v)) /\ a \in Nat /\ n \in Nat
  BY DEF Spare, Unheld, h, a
<1>9. Unheld(p, Data(h, v), Capacity(h, v))
  <2>1. Below(p, Data(h, v), Capacity(h, v))
    <3>1. Below(h, Data(h, v), Capacity(h, v)) BY DEF HeapOK, Blocks, h
    <3>2. QED BY <3>1, <1>6 DEF Below, Frame
  <2>2. \A b \in p.free : Apart(Data(h, v), Capacity(h, v), b.ptr, b.words)
    BY <1>6 DEF HeapOK, Blocks, h, Frame
  <2>3. ASSUME NEW w \in Vecs PROVE Apart(Data(h, v), Capacity(h, v), Data(p, w), Capacity(p, w))
    <3>1. CASE w = v BY <3>1, <1>3, <1>6, <1>8 DEF Apart
    <3>2. CASE w # v
      <4>1. Data(p, w) = Data(h, w) /\ Capacity(p, w) = Capacity(h, w)
        BY <3>2, <1>6 DEF Data, Capacity
      <4>2. Apart(Data(h, v), Capacity(h, v), Data(h, w), Capacity(h, w))
        BY <3>2 DEF HeapOK, Blocks, h
      <4>3. QED BY <4>1, <4>2
    <3>3. QED BY <3>1, <3>2
  <2>4. QED BY <1>3, <2>1, <2>2, <2>3 DEF Unheld
<1>10. VecOK(h, v) BY DEF HeapOK, h
<1>11. ASSUME NEW x \in (Data(h, v) + Used(h, v))..(Data(h, v) + Capacity(h, v) - 1)
       PROVE  p.mem[x] = {}
  <2> DEFINE k == x - Data(h, v)
  <2>1. k \in Used(h, v)..(Capacity(h, v) - 1) /\ x = Data(h, v) + k BY <1>3
  <2>2. k \in 0..(Capacity(h, v) - 1) BY <2>1, <1>3
  <2> HIDE DEF k
  <2>3. x \in 0..(h.size - 1) /\ Word(h, v, k) = h.mem[x]
    BY <2>1, <2>2, WordIn DEF HeapOK, h
  <2>4. Word(h, v, k) = {} BY <2>1, <1>10 DEF VecOK
  <2>5. x < a \/ a + n <= x BY <1>3, <1>8, <2>1, <2>2 DEF Apart
  <2>6. QED BY <2>3, <2>4, <2>5, <1>6 DEF OnlyIn
<1>12. Used(h, v) <= Capacity(h, v) BY <1>10 DEF VecOK
<1>13. HeapOK(g) /\ g.vec = p.vec /\ SameAll(p, g)
  BY <1>1, <1>3, <1>6, <1>9, <1>11, <1>12, FreeSound DEF p
<1>14. SameAll(h, g) BY <1>7, <1>13, SameTransitive DEF SameAll
<1>15. QED BY <1>6, <1>13, <1>14 DEF Capacity, h

\* Repoint changes one vector.
LEMMA RepointIs ==
  ASSUME NEW h, HeapType(h), NEW v \in Vecs, NEW a \in Nat, NEW m \in Nat, NEW n \in Nat,
         NEW g, g = Repoint(h, v, a, m, n)
  PROVE  /\ HeapType(g) /\ Frame(h, g) /\ g.mem = h.mem /\ Given(h, g, v, a, m, n)
         /\ Data(g, v) = a /\ NumBits(g, v) = m /\ Capacity(g, v) = n
         /\ \A w \in Vecs : w # v => g.vec[w] = h.vec[w]
<1> DEFINE r == [data |-> a, num_bits |-> m, capacity |-> n]
           f == [h.vec EXCEPT ![v] = r]
<1>1. r \in VecType /\ r.data = a /\ r.num_bits = m /\ r.capacity = n BY DEF VecType
<1> HIDE DEF r
<1>2. f \in [Vecs -> VecType] /\ f[v] = r /\ \A w \in Vecs : w # v => f[w] = h.vec[w]
  BY <1>1 DEF HeapType
<1>3. g = [h EXCEPT !.vec = f] BY DEF Repoint, r
<1> HIDE DEF f
<1>4. /\ HeapRec(g) /\ g.mem = h.mem /\ g.size = h.size /\ g.base = h.base
      /\ g.offset = h.offset /\ g.free = h.free /\ g.vec = f
  <2>1. HeapRec(h) BY DEF HeapType
  <2>2. QED BY <1>3, <2>1, VecRec
<1>5. HeapType(g) BY <1>2, <1>4 DEF HeapType
<1>6. Given(h, g, v, a, m, n) BY <1>4 DEF Given, f, r
<1>7. QED BY <1>1, <1>2, <1>4, <1>5, <1>6 DEF Frame, Data, NumBits, Capacity

\* with_capacity makes an empty vector.
LEMMA WithCapacitySound ==
  ASSUME NEW h, HeapOK(h), NEW v \in Vecs, NumBits(h, v) = 0, NEW bits \in Nat,
         NEW g, g = with_capacity(h, v, bits)
  PROVE  HeapOK(g) /\ SameAll(h, g)
<1> DEFINE n == words_in_use(bits)
           at == alloc(h, n)
<1>1. n \in Nat BY WordsInUse
<1>2. CASE n = 0
  <2>1. g = h BY <1>2 DEF with_capacity
  <2>2. QED BY <2>1 DEF SameAll, Same
<1>3. CASE n # 0
  <2> HIDE DEF n
  <2>1. /\ HeapOK(at.heap) /\ Spare(at.heap, at.ptr, n)
        /\ at.heap.vec = h.vec /\ SameAll(h, at.heap)
    BY <1>1, <1>3, AllocSound
  <2> DEFINE c == at.heap
             a == at.ptr
  <2>2. g = [c EXCEPT !.vec[v] = [data |-> a, num_bits |-> 0, capacity |-> n]]
    BY <1>3 DEF with_capacity, n
  <2>3. HeapOK(c) /\ Spare(c, a, n) /\ SameAll(h, c) BY <2>1
  <2> HIDE DEF c, a, at
  <2>4. HeapType(c) /\ a \in Nat /\ 0 \in Nat BY <2>3 DEF HeapOK, Spare, Unheld
  <2>5. g = Repoint(c, v, a, 0, n)
    BY <2>2, <2>4 DEF Repoint, HeapType, HeapRec
  <2>6. /\ HeapType(g) /\ Frame(c, g) /\ g.mem = c.mem /\ Given(c, g, v, a, 0, n)
        /\ Data(g, v) = a /\ NumBits(g, v) = 0 /\ Capacity(g, v) = n
    BY <1>1, <2>4, <2>5, RepointIs, SMTT(30)
  <2>7. Used(g, v) = 0 BY <2>6 DEF Used, NumBits, words_in_use
  <2>8. VecOK(g, v)
    <3>1. \A k \in 0..(n - 1) : Word(g, v, k) = {}
      <4> TAKE k \in 0..(n - 1)
      <4>1. Word(g, v, k) = c.mem[a + k] BY <2>6 DEF Word, Data
      <4>2. a + k \in a..(a + n - 1) BY <1>1, <2>4
      <4>3. QED BY <4>1, <4>2, <2>3 DEF Spare, Clean
    <3>2. QED BY <3>1, <1>1, <2>6, <2>7 DEF VecOK
  <2>9. Own(c, v, a, n) BY <2>3 DEF Spare, Unheld, Own
  <2>10. OnlyIn(c, g, a, n) BY <2>6 DEF OnlyIn
  <2>11. HeapOK(g) /\ Others(c, g, v)
    BY <2>3, <2>4, <2>6, <2>8, <2>9, <2>10, Placed
  <2>12. Same(h, g, v)
    <3>1. \A k \in Nat : WordOr0(g, v, k) = {} BY <2>7 DEF WordOr0
    <3>2. Used(h, v) = 0 BY DEF Used, NumBits, words_in_use
    <3>3. \A k \in Nat : WordOr0(h, v, k) = {} BY <3>2 DEF WordOr0
    <3>4. QED BY <2>6, <3>1, <3>3 DEF Same
  <2>13. QED BY <2>3, <2>11, <2>12, SameTransitive DEF SameAll, Others
<1>4. QED BY <1>2, <1>3

\* ensure_words makes room for n words and changes no bits.
LEMMA EnsureSound ==
  ASSUME NEW h, HeapOK(h), NEW v \in Vecs, NEW n \in Nat,
         NEW g, g = ensure_words(h, v, n)
  PROVE  HeapOK(g) /\ SameAll(h, g) /\ Capacity(g, v) >= n
<1>1. /\ Capacity(h, v) \in Nat /\ Used(h, v) \in Nat /\ Used(h, v) <= Capacity(h, v)
  BY VecFields DEF HeapOK, VecOK
<1>2. CASE ~(n > Capacity(h, v))
  <2>1. g = h BY <1>2 DEF ensure_words, Capacity
  <2>2. QED BY <1>1, <1>2, <2>1 DEF SameAll, Same
<1>3. CASE n > Capacity(h, v)
  <2> DEFINE new == Larger(n, 2 * Capacity(h, v))
             at == alloc(h, new)
  <2>1. new \in Nat \ {0} /\ new >= n BY <1>1, <1>3 DEF Larger
  <2>2. g = Moved(at, v, new) BY <1>3 DEF ensure_words, Capacity
  <2> HIDE DEF new
  <2>3. /\ HeapOK(at.heap) /\ Spare(at.heap, at.ptr, new)
        /\ at.heap.vec = h.vec /\ SameAll(h, at.heap)
    BY <2>1, AllocSound
  <2> HIDE DEF at
  <2>4. Used(at.heap, v) <= new BY <1>1, <1>3, <2>1, <2>3 DEF Used
  <2>5. HeapOK(g) /\ SameAll(at.heap, g) /\ Capacity(g, v) = new
    BY <2>2, <2>3, <2>4, MovedSound
  <2>6. QED BY <2>1, <2>3, <2>5, SameTransitive DEF SameAll
<1>4. QED BY <1>2, <1>3

\* clone into an empty vector.
LEMMA CloneSound ==
  ASSUME NEW h, HeapOK(h), NEW v \in Vecs, NEW w \in Vecs, NumBits(h, w) = 0,
         NEW g, g = clone(h, v, w)
  PROVE  /\ HeapOK(g) /\ Others(h, g, w)
         /\ \A k \in Nat : WordOr0(g, w, k) = WordOr0(h, v, k)
<1>1. NumBits(h, v) \in Nat /\ Used(h, v) \in Nat BY VecFields DEF HeapOK
<1>2. CASE Used(h, v) = 0
  <2>1. g = h BY <1>2 DEF clone
  <2>2. Used(h, w) = 0 BY DEF Used, NumBits, words_in_use
  <2>3. \A k \in Nat : WordOr0(h, w, k) = {} /\ WordOr0(h, v, k) = {}
    BY <1>2, <2>2 DEF WordOr0
  <2>4. QED BY <2>1, <2>3 DEF Others, Same
<1>3. CASE Used(h, v) # 0
  <2> DEFINE n == Used(h, v)
             at == alloc(h, n)
  <2>1. n \in Nat \ {0} BY <1>1, <1>3
  <2>2. g = CopyWords(at, v, w) BY <1>3 DEF clone
  <2> HIDE DEF n
  <2>3. /\ HeapOK(at.heap) /\ Spare(at.heap, at.ptr, n)
        /\ at.heap.vec = h.vec /\ SameAll(h, at.heap)
    BY <2>1, AllocSound
  <2> DEFINE c == at.heap
             a == at.ptr
  <2>4. Used(c, v) = n /\ NumBits(c, v) = NumBits(h, v) BY <2>3 DEF Used, n, NumBits
  <2>5. g = [Copied(c, v, a) EXCEPT !.vec[w] = [data |-> a, num_bits |-> NumBits(c, v), capacity |-> n]]
    BY <2>2, <2>4 DEF CopyWords, Copied, NumBits
  <2>6. HeapOK(c) /\ Spare(c, a, n) /\ SameAll(h, c) BY <2>3
  <2> HIDE DEF at, c, a
  <2>7. g = Repoint(Copied(c, v, a), w, a, NumBits(c, v), n)
    <3>1. HeapRec(c) BY <2>6 DEF HeapOK, HeapType
    <3>2. HeapRec(Copied(c, v, a)) BY <3>1, FilledRec DEF Copied
    <3>3. QED BY <2>5, <3>2 DEF HeapRec, Repoint
  <2>8. /\ HeapOK(g) /\ Others(c, g, w)
        /\ \A k \in Nat : WordOr0(g, w, k) = WordOr0(c, v, k)
    BY <2>1, <2>4, <2>6, <2>7, CopySound
  <2>9. \A k \in Nat : WordOr0(c, v, k) = WordOr0(h, v, k) BY <2>6 DEF SameAll, Same
  <2>10. Others(h, g, w) BY <2>6, <2>8, SameTransitive DEF SameAll, Others
  <2>11. QED BY <2>8, <2>9, <2>10
<1>4. QED BY <1>2, <1>3

\* Drop leaves an empty vector.
LEMMA DropSound ==
  ASSUME NEW h, HeapOK(h), NEW v \in Vecs, NEW g, g = drop(h, v)
  PROVE  HeapOK(g) /\ Others(h, g, v) /\ NumBits(g, v) = 0
<1> DEFINE a == Data(h, v)
           n == Capacity(h, v)
           used == Used(h, v)
           c == Repoint(h, v, 0, 0, 0)
<1>1. HeapType(h) /\ VecOK(h, v) BY DEF HeapOK
<1>2. a \in Nat /\ n \in Nat /\ used \in Nat /\ used <= n BY <1>1, VecFields DEF VecOK
<1>3. g = free(c, a, n, used)
  <2>1. g = [free(h, a, n, used) EXCEPT !.vec[v] = NewVec]
    BY DEF drop, Data, Capacity
  <2> HIDE DEF a, n, used
  <2>2. HeapRec(h) BY <1>1 DEF HeapType
  <2>3. CASE n = 0
    BY <2>1, <2>2, <2>3 DEF free, HeapRec, Repoint, NewVec
  <2>4. CASE n # 0
    <3> DEFINE m == [x \in 0..(h.size - 1) |->
                       IF a + 0 <= x /\ x < a + used THEN Zeros(0, used)[x - a] ELSE h.mem[x]]
               F == h.free \cup {Block(a, n)}
               f == [h.vec EXCEPT ![v] = NewVec]
    <3>1. free(h, a, n, used) = [[h EXCEPT !.mem = m] EXCEPT !.free = [h EXCEPT !.mem = m].free \cup {Block(a, n)}]
      BY <2>4 DEF free, Cleared, Filled
    <3>2. c = [h EXCEPT !.vec = f] BY DEF Repoint, NewVec
    <3>3. c.size = h.size /\ c.mem = h.mem BY <2>2, <3>2, VecRec
    <3>4. free(c, a, n, used) = [[c EXCEPT !.mem = m] EXCEPT !.free = [c EXCEPT !.mem = m].free \cup {Block(a, n)}]
      BY <2>4, <3>3 DEF free, Cleared, Filled
    <3> HIDE DEF m, c
    <3>5. free(h, a, n, used) = [[h EXCEPT !.mem = m] EXCEPT !.free = F]
      BY <3>1, <2>2 DEF HeapRec
    <3> DEFINE G == [mem |-> m, size |-> h.size, base |-> h.base, offset |-> h.offset,
                     free |-> F, vec |-> f]
    <3>6. g = G
      <4> DEFINE r == free(h, a, n, used)
      <4>1. r = [mem |-> m, size |-> h.size, base |-> h.base, offset |-> h.offset,
                 free |-> F, vec |-> h.vec]
        BY <2>2, <3>5 DEF HeapRec
      <4> HIDE DEF r, F
      <4>2. g = [r EXCEPT !.vec[v] = NewVec] BY <2>1 DEF r
      <4>3. r.vec = h.vec BY <4>1
      <4>4. g = [r EXCEPT !.vec = f] BY <4>1, <4>2, <4>3
      <4> HIDE DEF f
      <4>5. QED BY <4>1, <4>4
    <3>7. free(c, a, n, used) = G
      BY <2>2, <3>2, <3>4 DEF HeapRec
    <3>8. QED BY <3>6, <3>7
  <2>5. QED BY <2>3, <2>4
<1> HIDE DEF c
<1>4. /\ HeapType(c) /\ Frame(h, c) /\ c.mem = h.mem /\ Given(h, c, v, 0, 0, 0)
      /\ Data(c, v) = 0 /\ NumBits(c, v) = 0 /\ Capacity(c, v) = 0
      /\ \A w \in Vecs : w # v => c.vec[w] = h.vec[w]
  BY <1>1, RepointIs DEF c
<1>5. HeapOK(c) /\ Others(h, c, v)
  <2>1. Used(c, v) = 0 BY <1>4 DEF Used, NumBits, words_in_use
  <2>2. VecOK(c, v) BY <1>4, <2>1 DEF VecOK
  <2>3. Own(h, v, 0, 0) BY DEF Own, Below, Apart
  <2>4. OnlyIn(h, c, 0, 0) BY <1>4 DEF OnlyIn
  <2>5. QED BY <1>4, <2>2, <2>3, <2>4, Placed
<1>6. Unheld(c, a, n)
  <2>1. Below(c, a, n)
    <3>1. Below(h, a, n) BY DEF HeapOK, Blocks
    <3>2. QED BY <3>1, <1>4 DEF Below, Frame
  <2>2. \A b \in c.free : Apart(a, n, b.ptr, b.words) BY <1>4 DEF HeapOK, Blocks, Frame
  <2>3. ASSUME NEW w \in Vecs PROVE Apart(a, n, Data(c, w), Capacity(c, w))
    <3>1. CASE w = v BY <3>1, <1>4 DEF Apart
    <3>2. CASE w # v
      <4>1. Data(c, w) = Data(h, w) /\ Capacity(c, w) = Capacity(h, w)
        BY <3>2, <1>4 DEF Data, Capacity
      <4>2. Apart(a, n, Data(h, w), Capacity(h, w)) BY <3>2 DEF HeapOK, Blocks
      <4>3. QED BY <4>1, <4>2
    <3>3. QED BY <3>1, <3>2
  <2>4. QED BY <1>2, <2>1, <2>2, <2>3 DEF Unheld
<1>7. ASSUME NEW x \in (a + used)..(a + n - 1) PROVE c.mem[x] = {}
  <2> DEFINE k == x - a
  <2>1. k \in used..(n - 1) /\ x = a + k BY <1>2
  <2>2. k \in 0..(n - 1) BY <2>1, <1>2
  <2> HIDE DEF k
  <2>3. Word(h, v, k) = h.mem[x] BY <2>1, <2>2, WordIn DEF HeapOK
  <2>4. Word(h, v, k) = {} BY <2>1, <1>1 DEF VecOK
  <2>5. QED BY <2>3, <2>4, <1>4
<1> HIDE DEF a, n, used
<1>8. HeapOK(g) /\ g.vec = c.vec /\ SameAll(c, g)
  BY <1>2, <1>3, <1>5, <1>6, <1>7, FreeSound
<1>9. Others(h, g, v) BY <1>5, <1>8, SameTransitive DEF SameAll, Others
<1>10. QED BY <1>4, <1>8, <1>9 DEF NumBits

-----------------------------------------------------------------------------
(* Vectors change in place                                                   *)

\* The vector keeps its block, and has words that fit m bits.
Fits(g, v, m) ==
  \A k \in 0..(Capacity(g, v) - 1) :
    /\ k >= words_in_use(m) => Word(g, v, k) = {}
    /\ \A b \in Word(g, v, k) : 64 * k + b < m

\* The words of v are rewritten where they are, to m bits that fit: the heap stays
\* sound and no other vector changes.
LEMMA InPlace ==
  ASSUME NEW h, HeapOK(h), NEW v \in Vecs, NEW m \in Nat, NEW g, HeapType(g), Frame(h, g),
         Given(h, g, v, Data(h, v), m, Capacity(h, v)),
         OnlyIn(h, g, Data(h, v), Capacity(h, v)),
         words_in_use(m) <= Capacity(h, v), Fits(g, v, m)
  PROVE  /\ HeapOK(g) /\ Others(h, g, v) /\ NumBits(g, v) = m /\ Capacity(g, v) = Capacity(h, v)
         /\ \A k \in Nat : WordOr0(g, v, k) = IF k < Capacity(h, v) THEN Word(g, v, k) ELSE {}
<1>1. HeapType(h) BY DEF HeapOK
<1>2. Data(h, v) \in Nat /\ Capacity(h, v) \in Nat BY <1>1, VecFields
<1>3. Data(g, v) = Data(h, v) /\ NumBits(g, v) = m /\ Capacity(g, v) = Capacity(h, v)
  BY <1>1 DEF HeapType, Given, Data, NumBits, Capacity
<1>4. Used(g, v) = words_in_use(m) /\ Used(g, v) \in Nat
  BY <1>3, WordsInUse DEF Used, NumBits
<1>5. VecOK(g, v) BY <1>2, <1>3, <1>4 DEF VecOK, Fits
<1>6. Own(h, v, Data(h, v), Capacity(h, v)) BY <1>2 DEF HeapOK, Blocks, Own
<1>7. HeapOK(g) /\ Others(h, g, v) BY <1>5, <1>6, Placed
<1>8. ASSUME NEW k \in Nat PROVE WordOr0(g, v, k) = IF k < Capacity(h, v) THEN Word(g, v, k) ELSE {}
  <2>1. CASE k < Used(g, v) BY <2>1, <1>2, <1>3, <1>4 DEF WordOr0
  <2>2. CASE k >= Used(g, v) /\ k < Capacity(h, v)
    BY <2>2, <1>2, <1>3, <1>4 DEF WordOr0, Fits
  <2>3. CASE k >= Used(g, v) /\ k >= Capacity(h, v) BY <2>3, <1>2, <1>4 DEF WordOr0
  <2>4. QED BY <2>1, <2>2, <2>3, <1>2, <1>4
<1>9. QED BY <1>3, <1>7, <1>8

\* num_bits is assigned.
WithBits(c, v, m) == [c EXCEPT !.vec[v].num_bits = m]

\* That changes num_bits of v alone.
LEMMA BitsRec ==
  ASSUME NEW c, HeapType(c), NEW v \in Vecs, NEW m \in Nat,
         NEW g, g = WithBits(c, v, m)
  PROVE  /\ HeapType(g) /\ Frame(c, g) /\ g.mem = c.mem
         /\ Given(c, g, v, Data(c, v), m, Capacity(c, v))
         /\ Data(g, v) = Data(c, v) /\ NumBits(g, v) = m /\ Capacity(g, v) = Capacity(c, v)
<1> DEFINE f == [c.vec EXCEPT ![v].num_bits = m]
<1>0. c.vec \in [Vecs -> VecType] BY DEF HeapType
<1>1. f = [c.vec EXCEPT ![v] = [data |-> Data(c, v), num_bits |-> m, capacity |-> Capacity(c, v)]]
  BY <1>0 DEF VecType, Data, Capacity
<1>2. g = [c EXCEPT !.vec = f] BY DEF HeapType, HeapRec, WithBits
<1>3. g = Repoint(c, v, Data(c, v), m, Capacity(c, v)) BY <1>1, <1>2, Zenon DEF Repoint
<1>4. Data(c, v) \in Nat /\ Capacity(c, v) \in Nat BY VecFields
<1>5. PICK a \in Nat, n \in Nat : a = Data(c, v) /\ n = Capacity(c, v) BY <1>4
<1>6. g = Repoint(c, v, a, m, n) BY <1>3, <1>5
<1>7. /\ HeapType(g) /\ Frame(c, g) /\ g.mem = c.mem /\ Given(c, g, v, a, m, n)
      /\ Data(g, v) = a /\ NumBits(g, v) = m /\ Capacity(g, v) = n
  BY <1>6, RepointIs, SMTT(30)
<1>8. QED BY <1>5, <1>7

\* Words of v that were zero, from the lo-th to before the hi-th, are cleared and num_bits
\* becomes m.
LEMMA ClearSound ==
  ASSUME NEW h, HeapOK(h), NEW v \in Vecs, NEW lo \in Nat, NEW hi \in Nat, hi <= Capacity(h, v),
         NEW m \in Nat, words_in_use(m) <= Capacity(h, v), Fits(h, v, m),
         \A k \in lo..(hi - 1) : Word(h, v, k) = {},
         NEW c, c = Cleared(h, Data(h, v), lo, hi),
         NEW g, g = WithBits(c, v, m)
  PROVE  /\ HeapOK(g) /\ Others(h, g, v) /\ NumBits(g, v) = m /\ Capacity(g, v) = Capacity(h, v)
         /\ \A k \in Nat : WordOr0(g, v, k) = WordOr0(h, v, k)
<1>1. HeapType(h) /\ VecOK(h, v) /\ Blocks(h) BY DEF HeapOK
<1>2. Data(h, v) \in Nat /\ Capacity(h, v) \in Nat /\ h.size \in Nat
  BY <1>1, VecFields DEF HeapType
<1>3. HeapType(c) /\ Frame(h, c) /\ c.vec = h.vec /\ Zeroed(h, c, Data(h, v), lo, hi)
  <2>1. PICK a \in Nat : a = Data(h, v) BY <1>2
  <2>2. c = Cleared(h, a, lo, hi) BY <2>1
  <2>3. HeapType(c) /\ Frame(h, c) /\ c.vec = h.vec /\ Zeroed(h, c, a, lo, hi)
    BY <1>1, <2>2, ClearedIs
  <2>4. QED BY <2>1, <2>3
<1>4. Data(c, v) = Data(h, v) /\ Capacity(c, v) = Capacity(h, v) BY <1>3 DEF Data, Capacity
<1>5. /\ HeapType(g) /\ Frame(c, g) /\ g.mem = c.mem
      /\ Given(c, g, v, Data(c, v), m, Capacity(c, v))
      /\ Data(g, v) = Data(c, v) /\ Capacity(g, v) = Capacity(c, v)
  BY <1>3, BitsRec
<1>6. Frame(h, g) /\ Given(h, g, v, Data(h, v), m, Capacity(h, v))
  BY <1>3, <1>4, <1>5 DEF Frame, Given
<1>7. OnlyIn(h, g, Data(h, v), Capacity(h, v))
  BY <1>2, <1>3, <1>5 DEF OnlyIn, Zeroed
<1>8. ASSUME NEW k \in 0..(Capacity(h, v) - 1) PROVE Word(g, v, k) = Word(h, v, k)
  <2> DEFINE x == Data(h, v) + k
  <2>1. x \in 0..(h.size - 1) /\ Word(h, v, k) = h.mem[x] BY <1>1, WordIn
  <2>2. Word(g, v, k) = c.mem[x] BY <1>4, <1>5 DEF Word, Data
  <2>3. CASE lo <= k /\ k < hi
    <3>1. Word(h, v, k) = {} BY <2>3
    <3>2. c.mem[x] = {} BY <2>1, <2>3, <1>2, <1>3 DEF Zeroed
    <3>3. QED BY <3>1, <3>2, <2>2
  <2>4. CASE ~(lo <= k /\ k < hi)
    <3>1. c.mem[x] = h.mem[x] BY <2>1, <2>4, <1>2, <1>3 DEF Zeroed
    <3>2. QED BY <3>1, <2>1, <2>2
  <2>5. QED BY <2>3, <2>4
<1>9. Fits(g, v, m) BY <1>4, <1>5, <1>8 DEF Fits
<1>10. /\ HeapOK(g) /\ Others(h, g, v) /\ NumBits(g, v) = m /\ Capacity(g, v) = Capacity(h, v)
       /\ \A k \in Nat : WordOr0(g, v, k) = IF k < Capacity(h, v) THEN Word(g, v, k) ELSE {}
  BY <1>5, <1>6, <1>7, <1>9, InPlace
<1>11. ASSUME NEW k \in Nat PROVE WordOr0(g, v, k) = WordOr0(h, v, k)
  <2>1. CASE k < Capacity(h, v)
    <3>1. WordOr0(h, v, k) = Word(h, v, k) BY <2>1, <1>1, WordOr0Is
    <3>2. QED BY <3>1, <2>1, <1>2, <1>8, <1>10
  <2>2. CASE ~(k < Capacity(h, v))
    <3>1. WordOr0(h, v, k) = {}
      <4>0. Used(h, v) \in Nat /\ Used(h, v) <= Capacity(h, v) BY <1>1, VecFields DEF VecOK
      <4>1. k >= Used(h, v) BY <2>2, <1>2, <4>0
      <4>2. QED BY <4>1, <1>1, WordOr0Is
    <3>2. QED BY <3>1, <2>2, <1>10
  <2>3. QED BY <2>1, <2>2
<1>12. QED BY <1>10, <1>11

\* resize keeps the bits.
LEMMA ResizeSound ==
  ASSUME NEW h, HeapOK(h), NEW v \in Vecs, NEW len \in Nat, len >= NumBits(h, v),
         NEW g, g = resize(h, v, len)
  PROVE  /\ HeapOK(g) /\ Others(h, g, v) /\ NumBits(g, v) = len
         /\ \A k \in Nat : WordOr0(g, v, k) = WordOr0(h, v, k)
<1> DEFINE n == words_in_use(len)
           e == ensure_words(h, v, n)
           c == Cleared(e, Data(e, v), Used(h, v), n)
<1>1. n \in Nat /\ NumBits(h, v) \in Nat /\ Used(h, v) \in Nat /\ Used(h, v) = words_in_use(NumBits(h, v))
  BY WordsInUse, VecFields DEF HeapOK
<1>2. Used(h, v) <= n BY <1>1, WordsMonotonic
<1>3. g = WithBits(c, v, len) BY DEF resize, Data, WithBits
<1> HIDE DEF n
<1>4. HeapOK(e) /\ SameAll(h, e) /\ Capacity(e, v) >= n BY <1>1, EnsureSound
<1> HIDE DEF e
<1>5. c = Cleared(e, Data(e, v), Used(h, v), n) OBVIOUS
<1> HIDE DEF c
<1>6. VecOK(e, v) /\ HeapType(e) /\ Same(h, e, v) BY <1>4 DEF HeapOK, SameAll
<1>7. Used(e, v) = Used(h, v) /\ NumBits(e, v) = NumBits(h, v) /\ Capacity(e, v) \in Nat
  BY <1>1, <1>6, VecFields DEF Same
<1>8. Fits(e, v, len)
  <2> SUFFICES ASSUME NEW k \in 0..(Capacity(e, v) - 1)
               PROVE  /\ k >= n => Word(e, v, k) = {}
                      /\ \A b \in Word(e, v, k) : 64 * k + b < len
    BY DEF Fits, n
  <2>1. CASE k < Used(e, v)
    <3>1. \A b \in Word(e, v, k) : 64 * k + b < NumBits(h, v) BY <2>1, <1>1, <1>6, <1>7 DEF VecOK
    <3>2. \A b \in Word(e, v, k) : b \in Nat BY <1>4, WordIn DEF HeapOK, Bits
    <3>3. QED BY <2>1, <3>1, <3>2, <1>1, <1>2, <1>7
  <2>2. CASE k >= Used(e, v)
    <3>1. Word(e, v, k) = {} BY <2>2, <1>6, <1>7, <1>1 DEF VecOK
    <3>2. QED BY <3>1
  <2>3. QED BY <2>1, <2>2, <1>1, <1>7
<1>9. \A k \in Used(h, v)..(n - 1) : Word(e, v, k) = {}
  BY <1>1, <1>4, <1>6, <1>7 DEF VecOK
<1>10. /\ HeapOK(g) /\ Others(e, g, v) /\ NumBits(g, v) = len
       /\ \A k \in Nat : WordOr0(g, v, k) = WordOr0(e, v, k)
  <2>1. words_in_use(len) <= Capacity(e, v) /\ n <= Capacity(e, v) BY <1>1, <1>4, <1>7 DEF n
  <2>2. QED BY <1>1, <1>3, <1>4, <1>5, <1>8, <1>9, <2>1, ClearSound
<1>11. Others(h, g, v) BY <1>4, <1>10, SameTransitive DEF SameAll, Others
<1>12. QED BY <1>6, <1>10, <1>11 DEF Same

\* set changes one bit.
Bit(h, v, i, val) ==
  IF val THEN WordOr0(h, v, i \div 64) \cup {i % 64} ELSE WordOr0(h, v, i \div 64) \ {i % 64}
SetTo(h, g, v, i, val) ==
  \A k \in Nat : WordOr0(g, v, k) = IF k = i \div 64 THEN Bit(h, v, i, val) ELSE WordOr0(h, v, k)

\* set changes bit i of v alone.
LEMMA SetSound ==
  ASSUME NEW h, HeapOK(h), NEW v \in Vecs, NEW i \in Nat, i < NumBits(h, v), NEW val \in BOOLEAN,
         NEW g, g = set(h, v, i, val)
  PROVE  /\ HeapOK(g) /\ Others(h, g, v) /\ NumBits(g, v) = NumBits(h, v)
         /\ SetTo(h, g, v, i, val)
<1> DEFINE q == i \div 64
           word == IF val THEN Word(h, v, q) \cup {i % 64} ELSE Word(h, v, q) \ {i % 64}
           f == [j \in {q} |-> word]
           m == NumBits(h, v)
<1>1. HeapType(h) /\ VecOK(h, v) /\ Blocks(h) BY DEF HeapOK
<1>2. /\ Data(h, v) \in Nat /\ Capacity(h, v) \in Nat /\ h.size \in Nat /\ m \in Nat
      /\ Used(h, v) \in Nat /\ Used(h, v) = words_in_use(m) /\ Used(h, v) <= Capacity(h, v)
  BY <1>1, VecFields DEF HeapType, VecOK
<1>3. q \in Nat /\ i % 64 \in Bits /\ i = 64 * q + (i % 64) BY WordOfBit
<1>4. q < Used(h, v)
  <2>1. i < 64 * Used(h, v) BY <1>2, WordsInUse
  <2>2. QED BY <1>2, <1>3, <2>1 DEF Bits
<1>5. q \in 0..(Capacity(h, v) - 1) /\ q \in 0..(Used(h, v) - 1) BY <1>2, <1>3, <1>4
<1>6. Word(h, v, q) \in SUBSET Bits /\ WordOr0(h, v, q) = Word(h, v, q)
  BY <1>1, <1>3, <1>4, <1>5, WordIn DEF WordOr0
<1>7. word \in SUBSET Bits /\ word = Bit(h, v, i, val) BY <1>3, <1>6 DEF Bit
<1>8. \A b \in word : 64 * q + b < m
  <2>1. \A b \in Word(h, v, q) : 64 * q + b < m BY <1>1, <1>5 DEF VecOK
  <2>2. QED BY <2>1, <1>3
<1>9. g = Filled(h, Data(h, v), q, q + 1, f) BY DEF set, Data
<1> HIDE DEF word, m
<1>10. f[q] = word OBVIOUS
<1> HIDE DEF q, f
<1>11. HeapType(g) /\ Frame(h, g) /\ g.vec = h.vec /\ FilledWith(h, g, Data(h, v), q, q + 1, f)
  <2>1. PICK a \in Nat, hi \in Nat : a = Data(h, v) /\ hi = q + 1 BY <1>2, <1>3
  <2>2. g = Filled(h, a, q, hi, f) BY <1>9, <2>1
  <2>3. \A k \in q..(hi - 1) : f[k] \in SUBSET Bits BY <1>3, <1>7, <1>10, <2>1
  <2>4. HeapType(g) /\ Frame(h, g) /\ g.vec = h.vec /\ FilledWith(h, g, a, q, hi, f)
    BY <1>1, <1>3, <2>2, <2>3, FilledIs
  <2>5. QED BY <2>1, <2>4
<1>12. Data(g, v) = Data(h, v) /\ Capacity(g, v) = Capacity(h, v)
  BY <1>11 DEF Data, Capacity
<1>13. Given(h, g, v, Data(h, v), m, Capacity(h, v))
  <2>1. h.vec[v] = [data |-> Data(h, v), num_bits |-> m, capacity |-> Capacity(h, v)]
    BY <1>1, VecFields DEF m
  <2>2. [h.vec EXCEPT ![v] = h.vec[v]] = h.vec BY <1>1 DEF HeapType
  <2>3. QED BY <2>1, <2>2, <1>11 DEF Given
<1>14. OnlyIn(h, g, Data(h, v), Capacity(h, v))
  BY <1>2, <1>3, <1>5, <1>11 DEF OnlyIn, FilledWith
<1>15. ASSUME NEW k \in 0..(Capacity(h, v) - 1)
       PROVE  Word(g, v, k) = IF k = q THEN word ELSE Word(h, v, k)
  <2> DEFINE x == Data(h, v) + k
  <2>1. x \in 0..(h.size - 1) /\ Word(h, v, k) = h.mem[x] BY <1>1, WordIn
  <2>2. Word(g, v, k) = g.mem[x] BY <1>12 DEF Word, Data
  <2>3. CASE k = q
    <3>1. g.mem[x] = f[x - Data(h, v)] BY <2>1, <2>3, <1>2, <1>3, <1>11 DEF FilledWith
    <3>2. x - Data(h, v) = q BY <2>3, <1>2, <1>3
    <3>3. QED BY <3>1, <3>2, <2>2, <2>3, <1>10
  <2>4. CASE k # q
    <3>0. ~(Data(h, v) + q <= x /\ x < Data(h, v) + (q + 1)) BY <2>4, <1>2, <1>3
    <3> HIDE DEF x
    <3>1. g.mem[x] = h.mem[x] BY <2>1, <3>0, <1>11 DEF FilledWith
    <3>2. QED BY <3>1, <2>1, <2>2, <2>4
  <2>5. QED BY <2>3, <2>4
<1>16. Fits(g, v, m)
  <2> SUFFICES ASSUME NEW k \in 0..(Capacity(h, v) - 1)
               PROVE  /\ k >= words_in_use(m) => Word(g, v, k) = {}
                      /\ \A b \in Word(g, v, k) : 64 * k + b < m
    BY <1>12 DEF Fits
  <2>1. CASE k = q BY <2>1, <1>2, <1>3, <1>4, <1>8, <1>15
  <2>2. CASE k # q /\ k < Used(h, v) BY <2>2, <1>1, <1>2, <1>15 DEF VecOK, m
  <2>3. CASE k # q /\ k >= Used(h, v)
    <3>1. Word(h, v, k) = {} BY <2>3, <1>1, <1>2 DEF VecOK
    <3>2. QED BY <3>1, <2>3, <1>15
  <2>4. QED BY <2>1, <2>2, <2>3, <1>2
<1>17. /\ HeapOK(g) /\ Others(h, g, v) /\ NumBits(g, v) = m
       /\ \A k \in Nat : WordOr0(g, v, k) = IF k < Capacity(h, v) THEN Word(g, v, k) ELSE {}
  BY <1>2, <1>11, <1>13, <1>14, <1>16, InPlace
<1>18. ASSUME NEW k \in Nat
       PROVE  WordOr0(g, v, k) = IF k = q THEN word ELSE WordOr0(h, v, k)
  <2>1. CASE k < Capacity(h, v)
    <3>1. WordOr0(h, v, k) = Word(h, v, k) BY <2>1, <1>1, WordOr0Is
    <3>2. WordOr0(g, v, k) = Word(g, v, k) BY <2>1, <1>17
    <3>3. k \in 0..(Capacity(h, v) - 1) BY <2>1, <1>2
    <3>4. QED BY <3>1, <3>2, <3>3, <1>15
  <2>2. CASE ~(k < Capacity(h, v))
    <3>1. k >= Used(h, v) /\ k # q BY <2>2, <1>2, <1>4, <1>3
    <3>2. WordOr0(h, v, k) = {} BY <3>1, <1>1, WordOr0Is
    <3>3. QED BY <3>1, <3>2, <2>2, <1>17
  <2>3. QED BY <2>1, <2>2
<1>19. QED BY <1>7, <1>17, <1>18 DEF m, q, SetTo

\* TokenSet::insert adds a bit.
LEMMA InsertSound ==
  ASSUME NEW h, HeapOK(h), NEW v \in Vecs, NEW i \in Nat, NEW g, g = InsertBit(h, v, i)
  PROVE  /\ HeapOK(g) /\ Others(h, g, v)
         /\ SetTo(h, g, v, i, TRUE)
<1>0. NumBits(h, v) \in Nat BY VecFields DEF HeapOK
<1>1. CASE i >= NumBits(h, v)
  <2> DEFINE r == resize(h, v, i + 1)
  <2>1. g = set(r, v, i, TRUE) BY <1>1 DEF InsertBit, NumBits
  <2>2. /\ HeapOK(r) /\ Others(h, r, v) /\ NumBits(r, v) = i + 1
        /\ \A k \in Nat : WordOr0(r, v, k) = WordOr0(h, v, k)
    <3>1. PICK len \in Nat : len = i + 1 OBVIOUS
    <3>2. r = resize(h, v, len) /\ len >= NumBits(h, v) BY <3>1, <1>0, <1>1
    <3> HIDE DEF r
    <3>3. /\ HeapOK(r) /\ Others(h, r, v) /\ NumBits(r, v) = len
          /\ \A k \in Nat : WordOr0(r, v, k) = WordOr0(h, v, k)
      BY <3>2, ResizeSound
    <3>4. QED BY <3>1, <3>3
  <2> HIDE DEF r
  <2>3. i < NumBits(r, v) BY <2>2
  <2>4. /\ HeapOK(g) /\ Others(r, g, v)
        /\ SetTo(r, g, v, i, TRUE)
    <3>1. PICK val \in BOOLEAN : val = TRUE OBVIOUS
    <3>2. g = set(r, v, i, val) BY <2>1, <3>1
    <3>3. /\ HeapOK(g) /\ Others(r, g, v)
          /\ SetTo(r, g, v, i, val)
      BY <2>2, <2>3, <3>2, SetSound
    <3>4. QED BY <3>1, <3>3
  <2>5. SetTo(h, g, v, i, TRUE)
    <3>1. i \div 64 \in Nat BY WordOfBit
    <3>2. Bit(r, v, i, TRUE) = Bit(h, v, i, TRUE) BY <3>1, <2>2 DEF Bit
    <3>3. QED BY <3>2, <2>2, <2>4 DEF SetTo
  <2>6. Others(h, g, v) BY <2>2, <2>4, SameTransitive DEF Others
  <2>7. QED BY <2>2, <2>4, <2>5, <2>6
<1>2. CASE ~(i >= NumBits(h, v))
  <2>1. g = set(h, v, i, TRUE) BY <1>2 DEF InsertBit, NumBits
  <2>2. i < NumBits(h, v) BY <1>0, <1>2
  <2>3. PICK val \in BOOLEAN : val = TRUE OBVIOUS
  <2>4. g = set(h, v, i, val) BY <2>1, <2>3
  <2>5. /\ HeapOK(g) /\ Others(h, g, v)
        /\ SetTo(h, g, v, i, val)
    BY <2>2, <2>4, SetSound
  <2>6. QED BY <2>3, <2>5
<1>3. QED BY <1>1, <1>2

\* get, by the words.
LEMMA GetIs ==
  ASSUME NEW h, HeapOK(h), NEW v \in Vecs, NEW i \in Nat
  PROVE  get(h, v, i) <=> i % 64 \in WordOr0(h, v, i \div 64)
<1>1. HeapType(h) /\ VecOK(h, v) /\ Blocks(h) BY DEF HeapOK
<1>2. NumBits(h, v) \in Nat /\ Used(h, v) \in Nat /\ Used(h, v) = words_in_use(NumBits(h, v))
  BY <1>1, VecFields
<1>3. i \div 64 \in Nat /\ i % 64 \in Bits /\ i = 64 * (i \div 64) + (i % 64) BY WordOfBit
<1>4. get(h, v, i) <=> i < NumBits(h, v) /\ i % 64 \in Word(h, v, i \div 64) BY DEF get, NumBits
<1>5. ASSUME i < NumBits(h, v) PROVE i \div 64 < Used(h, v)
  <2>1. i < 64 * Used(h, v) BY <1>2, <1>5, WordsInUse
  <2>2. QED BY <2>1, <1>2, <1>3 DEF Bits
<1>6. ASSUME i % 64 \in WordOr0(h, v, i \div 64) PROVE i < NumBits(h, v)
  <2>1. PICK k \in Nat, b \in Bits : k = i \div 64 /\ b = i % 64 BY <1>3
  <2>2. \A c \in WordOr0(h, v, k) : 64 * k + c < NumBits(h, v) BY <1>1, <2>1, WordOr0Is
  <2>3. 64 * k + b < NumBits(h, v) BY <1>6, <2>1, <2>2
  <2>4. QED BY <2>1, <2>3, <1>3
<1>7. QED BY <1>3, <1>4, <1>5, <1>6 DEF WordOr0

\* pop_zeros leaves the bits.
LEMMA PopSound ==
  ASSUME NEW h, HeapOK(h), NEW v \in Vecs, NEW g, g = pop_zeros(h, v)
  PROVE  HeapOK(g) /\ Others(h, g, v) /\ \A k \in Nat : WordOr0(g, v, k) = WordOr0(h, v, k)
<1> DEFINE n == Trimmed(h, v)
           c == Cleared(h, Data(h, v), words_in_use(n), Used(h, v))
           bits == NumBits(h, v)
<1>1. HeapType(h) /\ VecOK(h, v) /\ Blocks(h) BY DEF HeapOK
<1>2. /\ Data(h, v) \in Nat /\ Capacity(h, v) \in Nat /\ bits \in Nat
      /\ Used(h, v) \in Nat /\ Used(h, v) = words_in_use(bits) /\ Used(h, v) <= Capacity(h, v)
  BY <1>1, VecFields DEF VecOK
<1>3. n \in 0..bits /\ Trailing(h, v, n)
  <2> DEFINE S == {m \in 0..bits : Trailing(h, v, m)}
  <2>1. bits \in S BY <1>2 DEF Trailing, NumBits
  <2>2. S \subseteq Nat BY <1>2
  <2>3. PICK m \in S : \A j \in S : m <= j
    <3> HIDE DEF S
    <3>1. QED BY <2>1, <2>2, LeastExists
  <2>4. m > 0 => get(h, v, m - 1)
    <3> SUFFICES ASSUME m > 0, ~get(h, v, m - 1) PROVE FALSE OBVIOUS
    <3>1. m - 1 \in 0..bits BY <2>3, <1>2
    <3>2. Trailing(h, v, m - 1)
      <4> SUFFICES ASSUME NEW i \in (m - 1)..(h.vec[v].num_bits - 1) PROVE ~get(h, v, i)
        BY DEF Trailing
      <4>1. CASE i = m - 1 BY <4>1
      <4>2. CASE i # m - 1
        <5>1. i \in m..(h.vec[v].num_bits - 1) BY <4>2, <2>3, <1>2 DEF NumBits
        <5>2. Trailing(h, v, m) BY <2>3
        <5>3. QED BY <5>1, <5>2 DEF Trailing
      <4>3. QED BY <4>1, <4>2
    <3>3. m - 1 \in S BY <3>1, <3>2
    <3>4. m <= m - 1 BY <3>3, <2>3
    <3>5. QED BY <3>4, <2>3, <1>2
  <2>5. \E j \in 0..h.vec[v].num_bits : Trailing(h, v, j) /\ (j > 0 => get(h, v, j - 1))
    BY <2>3, <2>4 DEF NumBits
  <2>6. QED BY <2>5, Zenon DEF Trimmed, NumBits
<1>4. g = WithBits(c, v, n) BY DEF pop_zeros, WithBits, Data
<1> HIDE DEF n
<1>5. n \in Nat /\ n <= bits /\ words_in_use(n) \in Nat /\ words_in_use(n) <= Used(h, v)
  BY <1>2, <1>3, WordsInUse, WordsMonotonic
<1>6. ASSUME NEW k \in 0..(Capacity(h, v) - 1), NEW b \in Word(h, v, k) PROVE 64 * k + b < n
  <2>1. b \in Bits BY <1>1, WordIn
  <2>2. k < Used(h, v)
    <3>1. k >= Used(h, v) => Word(h, v, k) = {} BY <1>1, <1>2 DEF VecOK
    <3>2. QED BY <3>1, <1>2
  <2>3. 64 * k + b < bits BY <2>2, <1>1, <1>2 DEF VecOK
  <2>4. PICK i \in Nat : i = 64 * k + b BY <2>1 DEF Bits
  <2>5. i \div 64 = k /\ i % 64 = b BY <2>1, <2>4, BitOfWord
  <2>6. get(h, v, i) BY <2>3, <2>4, <2>5 DEF get, NumBits
  <2>7. i \in n..(h.vec[v].num_bits - 1) => FALSE BY <2>6, <1>3 DEF Trailing
  <2>8. QED BY <2>3, <2>4, <2>7, <1>2, <1>5 DEF NumBits
<1>7. ASSUME NEW k \in 0..(Capacity(h, v) - 1), k >= words_in_use(n) PROVE Word(h, v, k) = {}
  <2> SUFFICES ASSUME NEW b \in Word(h, v, k) PROVE FALSE OBVIOUS
  <2>1. b \in Bits BY <1>1, WordIn
  <2>2. 64 * k + b < n BY <1>6
  <2>3. n <= 64 * words_in_use(n) BY <1>5, WordsInUse
  <2>4. QED BY <2>1, <2>2, <2>3, <1>5, <1>7 DEF Bits
<1>8. Fits(h, v, n) BY <1>6, <1>7 DEF Fits
<1>9. \A k \in words_in_use(n)..(Used(h, v) - 1) : Word(h, v, k) = {}
  BY <1>2, <1>5, <1>7
<1>10. /\ HeapOK(g) /\ Others(h, g, v)
       /\ \A k \in Nat : WordOr0(g, v, k) = WordOr0(h, v, k)
  <2>1. PICK lo \in Nat, hi \in Nat : lo = words_in_use(n) /\ hi = Used(h, v) BY <1>2, <1>5
  <2>2. c = Cleared(h, Data(h, v), lo, hi) /\ hi <= Capacity(h, v) /\ words_in_use(n) <= Capacity(h, v)
    BY <2>1, <1>2, <1>5
  <2>3. \A k \in lo..(hi - 1) : Word(h, v, k) = {} BY <2>1, <1>9
  <2> HIDE DEF c
  <2>4. QED BY <1>4, <1>5, <1>8, <2>2, <2>3, ClearSound
<1>11. QED BY <1>10

\* Room leaves the bits, and there is room for the words of w.
LEMMA RoomSound ==
  ASSUME NEW h, HeapOK(h), NEW v \in Vecs, NEW w \in Vecs, Used(h, w) # 0,
         NEW g, g = Room(h, v, w)
  PROVE  HeapOK(g) /\ SameAll(h, g) /\ Capacity(g, v) >= Used(h, w)
<1> DEFINE n == Used(h, w)
<1>1. HeapType(h) /\ VecOK(h, v) /\ Blocks(h) BY DEF HeapOK
<1>2. /\ Data(h, v) \in Nat /\ Capacity(h, v) \in Nat /\ NumBits(h, v) \in Nat /\ n \in Nat \ {0}
      /\ Used(h, v) \in Nat /\ Used(h, v) = words_in_use(NumBits(h, v)) /\ Used(h, v) <= Capacity(h, v)
  BY <1>1, VecFields DEF VecOK
<1>3. CASE n > Capacity(h, v)
  <2> DEFINE at == alloc(h, n)
  <2>1. g = Moved(at, v, n) BY <1>3 DEF Room, Capacity
  <2> HIDE DEF n
  <2>2. /\ HeapOK(at.heap) /\ Spare(at.heap, at.ptr, n)
        /\ at.heap.vec = h.vec /\ SameAll(h, at.heap)
    BY <1>2, AllocSound
  <2> HIDE DEF at
  <2>3. Used(at.heap, v) <= n BY <1>2, <1>3, <2>2 DEF Used
  <2>4. HeapOK(g) /\ SameAll(at.heap, g) /\ Capacity(g, v) = n BY <2>1, <2>2, <2>3, MovedSound
  <2>5. QED BY <1>2, <2>2, <2>4, SameTransitive DEF SameAll, n
<1>4. CASE ~(n > Capacity(h, v))
  <2>1. g = Cleared(h, Data(h, v), Used(h, v), n) BY <1>4 DEF Room, Capacity, Data
  <2> HIDE DEF n
  <2>2. PICK m \in Nat, lo \in Nat : m = NumBits(h, v) /\ lo = Used(h, v) BY <1>2
  <2>3. g = WithBits(g, v, m)
    <3>1. PICK a \in Nat : a = Data(h, v) BY <1>2
    <3>2. g = Cleared(h, a, lo, n) BY <2>1, <2>2, <3>1
    <3>3. HeapType(g) /\ g.vec = h.vec
      <4>1. PICK hi \in Nat : hi = n BY <1>2
      <4>2. g = Cleared(h, a, lo, hi) BY <3>2, <4>1
      <4>3. HeapType(g) /\ Frame(h, g) /\ g.vec = h.vec /\ Zeroed(h, g, a, lo, hi)
        BY <1>1, <4>2, ClearedIs
      <4>4. QED BY <4>3
    <3>4. g.vec[v].num_bits = m BY <2>2, <3>3 DEF NumBits
    <3> DEFINE f == [g.vec EXCEPT ![v].num_bits = m]
    <3>5. f = g.vec BY <3>3, <3>4 DEF HeapType, VecType
    <3>6. WithBits(g, v, m) = [g EXCEPT !.vec = f] BY <3>3 DEF WithBits, HeapType, HeapRec
    <3> HIDE DEF f
    <3>7. [g EXCEPT !.vec = g.vec] = g BY <3>3 DEF HeapType, HeapRec
    <3>8. QED BY <3>5, <3>6, <3>7
  <2>4. Fits(h, v, m)
    <3> SUFFICES ASSUME NEW k \in 0..(Capacity(h, v) - 1)
                 PROVE  /\ k >= words_in_use(m) => Word(h, v, k) = {}
                        /\ \A b \in Word(h, v, k) : 64 * k + b < m
      BY DEF Fits
    <3>1. CASE k < Used(h, v) BY <3>1, <2>2, <1>1, <1>2 DEF VecOK
    <3>2. CASE k >= Used(h, v)
      <4>1. Word(h, v, k) = {} BY <3>2, <1>1, <1>2 DEF VecOK
      <4>2. QED BY <4>1
    <3>3. QED BY <3>1, <3>2, <1>2
  <2>5. \A k \in lo..(n - 1) : Word(h, v, k) = {} BY <2>2, <1>1, <1>2, <1>4 DEF VecOK
  <2>6. /\ HeapOK(g) /\ Others(h, g, v) /\ NumBits(g, v) = m /\ Capacity(g, v) = Capacity(h, v)
        /\ \A k \in Nat : WordOr0(g, v, k) = WordOr0(h, v, k)
    <3>1. n <= Capacity(h, v) /\ words_in_use(m) <= Capacity(h, v) BY <2>2, <1>2, <1>4
    <3>2. g = Cleared(h, Data(h, v), lo, n) BY <2>1, <2>2
    <3>3. QED BY <1>2, <2>3, <2>4, <2>5, <3>1, <3>2, ClearSound
  <2>7. SameAll(h, g) BY <2>2, <2>6 DEF SameAll, Others, Same
  <2>8. QED BY <2>6, <2>7, <1>2, <1>4 DEF n
<1>5. QED BY <1>3, <1>4

\* words_in_use of the larger number is the larger words_in_use.
LEMMA WordsOfLarger ==
  ASSUME NEW m \in Nat, NEW n \in Nat
  PROVE  words_in_use(Larger(m, n)) = Larger(words_in_use(m), words_in_use(n))
<1>1. words_in_use(m) \in Nat /\ words_in_use(n) \in Nat BY WordsInUse
<1>2. CASE m > n
  <2>1. words_in_use(n) <= words_in_use(m) BY <1>2, WordsMonotonic
  <2>2. QED BY <1>1, <1>2, <2>1 DEF Larger
<1>3. CASE ~(m > n)
  <2>1. words_in_use(m) <= words_in_use(n) BY <1>3, WordsMonotonic
  <2>2. QED BY <1>1, <1>3, <2>1 DEF Larger
<1>4. QED BY <1>2, <1>3

\* The words of w are or-ed into those of v.
LEMMA OrSound ==
  ASSUME NEW h, HeapOK(h), NEW v \in Vecs, NEW w \in Vecs, v # w, Used(h, w) <= Capacity(h, v),
         NEW g, g = OrInto(h, v, w)
  PROVE  /\ HeapOK(g) /\ Others(h, g, v)
         /\ \A k \in Nat : WordOr0(g, v, k) = WordOr0(h, v, k) \cup WordOr0(h, w, k)
<1> DEFINE n == Used(h, w)
           f == [k \in 0..(n - 1) |-> Word(h, v, k) \cup Word(h, w, k)]
           m == Larger(NumBits(h, v), NumBits(h, w))
           c == Filled(h, Data(h, v), 0, n, f)
<1>1. HeapType(h) /\ VecOK(h, v) /\ VecOK(h, w) /\ Blocks(h) BY DEF HeapOK
<1>2. /\ Data(h, v) \in Nat /\ Capacity(h, v) \in Nat /\ NumBits(h, v) \in Nat
      /\ Used(h, v) \in Nat /\ Used(h, v) = words_in_use(NumBits(h, v)) /\ Used(h, v) <= Capacity(h, v)
  BY <1>1, VecFields DEF VecOK
<1>3. /\ n \in Nat /\ NumBits(h, w) \in Nat /\ n = words_in_use(NumBits(h, w)) /\ n <= Capacity(h, w)
      /\ Capacity(h, w) \in Nat /\ n <= Capacity(h, v)
  BY <1>1, VecFields DEF VecOK
<1>4. m \in Nat /\ m >= NumBits(h, v) /\ m >= NumBits(h, w) BY <1>2, <1>3 DEF Larger
<1>5. /\ words_in_use(m) \in Nat /\ words_in_use(m) >= Used(h, v) /\ words_in_use(m) >= n
      /\ words_in_use(m) <= Capacity(h, v)
  <2>1. words_in_use(m) = Larger(Used(h, v), n) BY <1>2, <1>3, WordsOfLarger
  <2> HIDE DEF n, m
  <2>2. QED BY <1>2, <1>3, <2>1 DEF Larger
<1>6. g = [c EXCEPT !.vec[v].num_bits = Larger(c.vec[v].num_bits, h.vec[w].num_bits)]
  BY DEF OrInto, Data
<1>7. \A k \in 0..(n - 1) : f[k] = Word(h, v, k) \cup Word(h, w, k) /\ f[k] \in SUBSET Bits
  <2> TAKE k \in 0..(n - 1)
  <2>1. k \in 0..(Capacity(h, v) - 1) /\ k \in 0..(Capacity(h, w) - 1) BY <1>2, <1>3
  <2>2. Word(h, v, k) \in SUBSET Bits /\ Word(h, w, k) \in SUBSET Bits BY <1>1, <2>1, WordIn
  <2>3. QED BY <2>2
<1> HIDE DEF n, f, m
<1>8. HeapType(c) /\ Frame(h, c) /\ c.vec = h.vec /\ FilledWith(h, c, Data(h, v), 0, n, f)
  <2>1. PICK a \in Nat, lo \in Nat, hi \in Nat : a = Data(h, v) /\ lo = 0 /\ hi = n BY <1>2, <1>3
  <2>2. c = Filled(h, a, lo, hi, f) BY <2>1
  <2>3. \A k \in lo..(hi - 1) : f[k] \in SUBSET Bits BY <2>1, <1>7
  <2> HIDE DEF c
  <2>4. HeapType(c) /\ Frame(h, c) /\ c.vec = h.vec /\ FilledWith(h, c, a, lo, hi, f)
    BY <1>1, <2>2, <2>3, FilledIs
  <2>5. QED BY <2>1, <2>4
<1> HIDE DEF c
<1>9. g = WithBits(c, v, m) BY <1>6, <1>8 DEF WithBits, m, NumBits
<1>10. /\ HeapType(g) /\ Frame(c, g) /\ g.mem = c.mem
       /\ Given(c, g, v, Data(c, v), m, Capacity(c, v))
       /\ Data(g, v) = Data(c, v) /\ Capacity(g, v) = Capacity(c, v)
  BY <1>4, <1>8, <1>9, BitsRec
<1>11. Data(c, v) = Data(h, v) /\ Capacity(c, v) = Capacity(h, v) BY <1>8 DEF Data, Capacity
<1>12. Frame(h, g) /\ Given(h, g, v, Data(h, v), m, Capacity(h, v))
  BY <1>8, <1>10, <1>11 DEF Frame, Given
<1>13. OnlyIn(h, g, Data(h, v), Capacity(h, v))
  BY <1>2, <1>3, <1>8, <1>10 DEF OnlyIn, FilledWith
<1>14. ASSUME NEW k \in 0..(Capacity(h, v) - 1)
       PROVE  Word(g, v, k) = WordOr0(h, v, k) \cup WordOr0(h, w, k)
  <2> DEFINE x == Data(h, v) + k
  <2>1. x \in 0..(h.size - 1) /\ Word(h, v, k) = h.mem[x] BY <1>1, WordIn
  <2>2. Word(g, v, k) = c.mem[x] BY <1>10, <1>11 DEF Word, Data
  <2>3. k \in Nat /\ k < Capacity(h, v) BY <1>2
  <2>4. WordOr0(h, v, k) = Word(h, v, k) BY <2>3, <1>1, WordOr0Is
  <2>5. CASE k < n
    <3>1. WordOr0(h, w, k) = Word(h, w, k) BY <2>5 DEF WordOr0, n
    <3>2. Data(h, v) + 0 <= x /\ x < Data(h, v) + n /\ x - Data(h, v) = k BY <2>3, <2>5, <1>2, <1>3
    <3> HIDE DEF x
    <3>3. c.mem[x] = f[k] BY <2>1, <3>2, <1>8 DEF FilledWith
    <3>4. k \in 0..(n - 1) BY <2>3, <2>5, <1>3
    <3>5. f[k] = Word(h, v, k) \cup Word(h, w, k) BY <3>4, <1>7
    <3>6. QED BY <2>2, <2>4, <3>1, <3>3, <3>5
  <2>6. CASE ~(k < n)
    <3>1. WordOr0(h, w, k) = {} BY <2>6 DEF WordOr0, n
    <3>2. ~(Data(h, v) + 0 <= x /\ x < Data(h, v) + n) BY <2>3, <2>6, <1>2, <1>3
    <3> HIDE DEF x
    <3>3. c.mem[x] = h.mem[x] BY <2>1, <3>2, <1>8 DEF FilledWith
    <3>4. QED BY <2>1, <2>2, <2>4, <3>1, <3>3
  <2>7. QED BY <2>5, <2>6
<1>15. ASSUME NEW k \in Nat
       PROVE  /\ k >= words_in_use(m) => WordOr0(h, v, k) = {} /\ WordOr0(h, w, k) = {}
              /\ \A b \in WordOr0(h, v, k) \cup WordOr0(h, w, k) : 64 * k + b < m
  <2>1. /\ WordOr0(h, v, k) \in SUBSET Bits
        /\ k >= Used(h, v) => WordOr0(h, v, k) = {}
        /\ \A b \in WordOr0(h, v, k) : 64 * k + b < NumBits(h, v)
    BY <1>1, WordOr0Is
  <2>2. /\ WordOr0(h, w, k) \in SUBSET Bits
        /\ k >= n => WordOr0(h, w, k) = {}
        /\ \A b \in WordOr0(h, w, k) : 64 * k + b < NumBits(h, w)
    BY <1>1, WordOr0Is DEF n
  <2>3. k >= words_in_use(m) => WordOr0(h, v, k) = {} /\ WordOr0(h, w, k) = {}
    BY <2>1, <2>2, <1>2, <1>3, <1>5
  <2>4. \A b \in WordOr0(h, v, k) \cup WordOr0(h, w, k) : 64 * k + b < m
    <3> TAKE b \in WordOr0(h, v, k) \cup WordOr0(h, w, k)
    <3>1. b \in Nat BY <2>1, <2>2 DEF Bits
    <3>2. 64 * k + b < NumBits(h, v) \/ 64 * k + b < NumBits(h, w) BY <2>1, <2>2
    <3>3. QED BY <3>1, <3>2, <1>2, <1>3, <1>4
  <2>5. QED BY <2>3, <2>4
<1>16. Fits(g, v, m)
  <2> SUFFICES ASSUME NEW k \in 0..(Capacity(h, v) - 1)
               PROVE  /\ k >= words_in_use(m) => Word(g, v, k) = {}
                      /\ \A b \in Word(g, v, k) : 64 * k + b < m
    BY <1>10, <1>11 DEF Fits
  <2>1. k \in Nat BY <1>2
  <2>2. QED BY <2>1, <1>14, <1>15
<1>17. /\ HeapOK(g) /\ Others(h, g, v)
       /\ \A k \in Nat : WordOr0(g, v, k) = IF k < Capacity(h, v) THEN Word(g, v, k) ELSE {}
  BY <1>4, <1>5, <1>10, <1>12, <1>13, <1>16, InPlace
<1>18. ASSUME NEW k \in Nat
       PROVE  WordOr0(g, v, k) = WordOr0(h, v, k) \cup WordOr0(h, w, k)
  <2>1. CASE k < Capacity(h, v)
    <3>1. k \in 0..(Capacity(h, v) - 1) BY <2>1, <1>2
    <3>2. QED BY <3>1, <2>1, <1>14, <1>17
  <2>2. CASE ~(k < Capacity(h, v))
    <3>1. k >= words_in_use(m) BY <2>2, <1>2, <1>5
    <3>2. QED BY <3>1, <2>2, <1>15, <1>17
  <2>3. QED BY <2>1, <2>2
<1>19. QED BY <1>17, <1>18

\* insert_all is union, and returns whether a bit was new.
LEMMA InsertAllSound ==
  ASSUME NEW h, HeapOK(h), NEW v \in Vecs, NEW w \in Vecs, v # w, NEW g, g = insert_all(h, v, w)
  PROVE  /\ HeapOK(g) /\ Others(h, g, v)
         /\ \A k \in Nat : WordOr0(g, v, k) = WordOr0(h, v, k) \cup WordOr0(h, w, k)
         /\ AnyNew(h, v, w) <=> \E k \in Nat : WordOr0(h, w, k) \ WordOr0(h, v, k) # {}
<1>1. Used(h, w) \in Nat BY VecFields DEF HeapOK
<1>2. CASE Used(h, w) = 0
  <2>1. g = h /\ ~AnyNew(h, v, w) BY <1>2 DEF insert_all, AnyNew
  <2>2. \A k \in Nat : WordOr0(h, w, k) = {} BY <1>2 DEF WordOr0
  <2>3. QED BY <2>1, <2>2 DEF Others, Same
<1>3. CASE Used(h, w) # 0
  <2> DEFINE r == Room(h, v, w)
  <2>1. g = OrInto(r, v, w) BY <1>3 DEF insert_all
  <2>2. HeapOK(r) /\ SameAll(h, r) /\ Capacity(r, v) >= Used(h, w) BY <1>3, RoomSound
  <2>3. AnyNew(h, v, w) <=> \E k \in 0..(Used(h, w) - 1) : Word(r, w, k) \ Word(r, v, k) # {}
    BY <1>3 DEF AnyNew
  <2> HIDE DEF r
  <2>4. HeapType(r) /\ Blocks(r) /\ VecOK(r, v) /\ VecOK(r, w) BY <2>2 DEF HeapOK
  <2>5. Used(r, w) = Used(h, w) /\ Capacity(r, v) \in Nat
    <3>1. NumBits(r, w) = NumBits(h, w) BY <2>2 DEF SameAll, Same
    <3>2. HeapType(h) BY DEF HeapOK
    <3>3. QED BY <3>1, <3>2, <2>4, VecFields
  <2>6. /\ HeapOK(g) /\ Others(r, g, v)
        /\ \A k \in Nat : WordOr0(g, v, k) = WordOr0(r, v, k) \cup WordOr0(r, w, k)
    BY <1>1, <2>1, <2>2, <2>5, OrSound
  <2>7. \A k \in Nat : WordOr0(r, v, k) = WordOr0(h, v, k) /\ WordOr0(r, w, k) = WordOr0(h, w, k)
    BY <2>2 DEF SameAll, Same
  <2>8. Others(h, g, v) BY <2>2, <2>6, SameTransitive DEF SameAll, Others
  <2>9. \A k \in 0..(Used(h, w) - 1) : Word(r, w, k) = WordOr0(h, w, k) /\ Word(r, v, k) = WordOr0(h, v, k)
    <3> TAKE k \in 0..(Used(h, w) - 1)
    <3>1. k \in Nat /\ k < Used(r, w) /\ k < Capacity(r, v) BY <1>1, <2>2, <2>5
    <3>2. Word(r, w, k) = WordOr0(r, w, k) BY <3>1 DEF WordOr0
    <3>3. Word(r, v, k) = WordOr0(r, v, k) BY <3>1, <2>4, WordOr0Is
    <3>4. QED BY <3>1, <3>2, <3>3, <2>7
  <2>10. \A k \in Nat : WordOr0(h, w, k) # {} => k \in 0..(Used(h, w) - 1)
    BY <1>1 DEF WordOr0
  <2>11. AnyNew(h, v, w) <=> \E k \in Nat : WordOr0(h, w, k) \ WordOr0(h, v, k) # {}
    <3>1. ASSUME NEW k \in 0..(Used(h, w) - 1), Word(r, w, k) \ Word(r, v, k) # {}
          PROVE  \E j \in Nat : WordOr0(h, w, j) \ WordOr0(h, v, j) # {}
      BY <3>1, <2>9, <1>1
    <3>2. ASSUME NEW k \in Nat, WordOr0(h, w, k) \ WordOr0(h, v, k) # {}
          PROVE  k \in 0..(Used(h, w) - 1) /\ Word(r, w, k) \ Word(r, v, k) # {}
      BY <3>2, <2>9, <2>10
    <3>3. QED BY <3>1, <3>2, <2>3
  <2>12. QED BY <2>6, <2>7, <2>8, <2>11
<1>4. QED BY <1>2, <1>3

-----------------------------------------------------------------------------
(* Vectors are sets                                                          *)

\* iter yields the bits that are set.
LEMMA IterMember ==
  ASSUME NEW h, HeapOK(h), NEW v \in Vecs, NEW i
  PROVE  i \in iter(h, v) <=> i \in Nat /\ i % 64 \in WordOr0(h, v, i \div 64)
<1>1. HeapType(h) /\ VecOK(h, v) /\ Blocks(h) BY DEF HeapOK
<1>2. Used(h, v) \in Nat /\ Capacity(h, v) \in Nat /\ Used(h, v) <= Capacity(h, v)
  BY <1>1, VecFields DEF VecOK
<1>3. i \in iter(h, v) <=> \E k \in 0..(Used(h, v) - 1) : \E b \in Word(h, v, k) : i = 64 * k + b
  BY DEF iter
<1>4. ASSUME NEW k \in 0..(Used(h, v) - 1), NEW b \in Word(h, v, k), i = 64 * k + b
      PROVE  i \in Nat /\ i % 64 \in WordOr0(h, v, i \div 64)
  <2>1. k \in 0..(Capacity(h, v) - 1) /\ k \in Nat BY <1>2
  <2>2. b \in Bits BY <1>1, <2>1, WordIn
  <2>3. i \in Nat /\ i \div 64 = k /\ i % 64 = b BY <1>4, <2>1, <2>2, BitOfWord
  <2>4. WordOr0(h, v, k) = Word(h, v, k) BY <1>2 DEF WordOr0
  <2>5. QED BY <2>3, <2>4
<1>5. ASSUME i \in Nat, i % 64 \in WordOr0(h, v, i \div 64)
      PROVE  \E k \in 0..(Used(h, v) - 1) : \E b \in Word(h, v, k) : i = 64 * k + b
  <2>1. i \div 64 \in Nat /\ i = 64 * (i \div 64) + (i % 64) BY <1>5, WordOfBit
  <2>2. PICK k \in Nat : k = i \div 64 BY <2>1
  <2>3. k < Used(h, v) /\ i % 64 \in Word(h, v, k) BY <1>5, <2>2 DEF WordOr0
  <2>4. k \in 0..(Used(h, v) - 1) /\ i = 64 * k + (i % 64) BY <2>1, <2>2, <2>3, <1>2
  <2>5. QED BY <2>3, <2>4
<1>6. QED BY <1>3, <1>4, <1>5

\* The same, by word and bit.
LEMMA BitMember ==
  ASSUME NEW h, HeapOK(h), NEW v \in Vecs, NEW k \in Nat, NEW b \in Bits
  PROVE  b \in WordOr0(h, v, k) <=> 64 * k + b \in iter(h, v)
<1>1. PICK i \in Nat : i = 64 * k + b BY DEF Bits
<1>2. i \div 64 = k /\ i % 64 = b BY <1>1, BitOfWord
<1>3. QED BY <1>1, <1>2, IterMember

\* Vectors have the same words if and only if they are the same set.
LEMMA SameWords ==
  ASSUME NEW g, HeapOK(g), NEW h, HeapOK(h), NEW v \in Vecs, NEW w \in Vecs
  PROVE  (\A k \in Nat : WordOr0(g, v, k) = WordOr0(h, w, k)) <=> iter(g, v) = iter(h, w)
<1>1. ASSUME \A k \in Nat : WordOr0(g, v, k) = WordOr0(h, w, k) PROVE iter(g, v) = iter(h, w)
  <2>1. ASSUME NEW i PROVE i \in iter(g, v) <=> i \in iter(h, w)
    <3>1. i \in Nat => i \div 64 \in Nat BY WordOfBit
    <3>2. QED BY <1>1, <3>1, IterMember
  <2>2. QED BY <2>1
<1>2. ASSUME iter(g, v) = iter(h, w), NEW k \in Nat PROVE WordOr0(g, v, k) = WordOr0(h, w, k)
  <2>1. WordOr0(g, v, k) \subseteq Bits /\ WordOr0(h, w, k) \subseteq Bits
    <3>1. HeapType(g) /\ VecOK(g, v) /\ Blocks(g) /\ HeapType(h) /\ VecOK(h, w) /\ Blocks(h)
      BY DEF HeapOK
    <3>2. WordOr0(g, v, k) \in SUBSET Bits BY <3>1, WordOr0Is
    <3>3. WordOr0(h, w, k) \in SUBSET Bits BY <3>1, WordOr0Is
    <3>4. QED BY <3>2, <3>3
  <2>2. \A b \in Bits : b \in WordOr0(g, v, k) <=> b \in WordOr0(h, w, k)
    <3> TAKE b \in Bits
    <3>1. b \in WordOr0(g, v, k) <=> 64 * k + b \in iter(g, v) BY BitMember
    <3>2. b \in WordOr0(h, w, k) <=> 64 * k + b \in iter(h, w) BY BitMember
    <3>3. QED BY <1>2, <3>1, <3>2
  <2>3. QED BY <2>1, <2>2
<1>3. QED BY <1>1, <1>2

\* No other vector changes.
OtherSets(h, g, v) == \A w \in Vecs : w # v => iter(g, w) = iter(h, w)

\* Vectors with the same words are the same sets.
LEMMA OthersAreSets ==
  ASSUME NEW h, HeapOK(h), NEW g, HeapOK(g), NEW v, Others(h, g, v)
  PROVE  OtherSets(h, g, v)
<1> SUFFICES ASSUME NEW w \in Vecs, w # v PROVE iter(g, w) = iter(h, w) BY DEF OtherSets
<1>1. \A k \in Nat : WordOr0(g, w, k) = WordOr0(h, w, k) BY DEF Others, Same
<1>2. QED BY <1>1, SameWords

\* The same for all of them.
LEMMA AllAreSets ==
  ASSUME NEW h, HeapOK(h), NEW g, HeapOK(g), SameAll(h, g)
  PROVE  \A w \in Vecs : iter(g, w) = iter(h, w)
<1> TAKE w \in Vecs
<1>1. \A k \in Nat : WordOr0(g, w, k) = WordOr0(h, w, k) BY DEF SameAll, Same
<1>2. QED BY <1>1, SameWords

\* A vector of no bits is the empty set.
LEMMA EmptyIs ==
  ASSUME NEW h, HeapOK(h), NEW v \in Vecs, NumBits(h, v) = 0
  PROVE  iter(h, v) = {}
<1>1. Used(h, v) = 0 BY DEF Used, NumBits, words_in_use
<1>2. QED BY <1>1 DEF iter

\* What each operation does to the sets.
LEMMA DropIs ==
  ASSUME NEW h, HeapOK(h), NEW v \in Vecs, NEW g, g = drop(h, v)
  PROVE  HeapOK(g) /\ OtherSets(h, g, v) /\ iter(g, v) = {}
<1>1. HeapOK(g) /\ Others(h, g, v) /\ NumBits(g, v) = 0 BY DropSound
<1>2. QED BY <1>1, OthersAreSets, EmptyIs

\* clone copies the set.
LEMMA CloneIs ==
  ASSUME NEW h, HeapOK(h), NEW v \in Vecs, NEW w \in Vecs, NumBits(h, w) = 0,
         NEW g, g = clone(h, v, w)
  PROVE  HeapOK(g) /\ Others(h, g, w) /\ OtherSets(h, g, w) /\ iter(g, w) = iter(h, v)
<1>1. /\ HeapOK(g) /\ Others(h, g, w)
      /\ \A k \in Nat : WordOr0(g, w, k) = WordOr0(h, v, k)
  BY CloneSound
<1>2. iter(g, w) = iter(h, v) BY <1>1, SameWords
<1>3. QED BY <1>1, <1>2, OthersAreSets

\* A bit of a word is the number i.
LEMMA BitIs ==
  ASSUME NEW i \in Nat, NEW j \in Nat
  PROVE  i = j <=> i \div 64 = j \div 64 /\ i % 64 = j % 64
<1>1. i = 64 * (i \div 64) + (i % 64) /\ j = 64 * (j \div 64) + (j % 64) BY WordOfBit
<1>2. QED BY <1>1

\* insert adds i.
LEMMA InsertIs ==
  ASSUME NEW h, HeapOK(h), NEW v \in Vecs, NEW i \in Nat, NEW g, g = InsertBit(h, v, i)
  PROVE  HeapOK(g) /\ OtherSets(h, g, v) /\ iter(g, v) = iter(h, v) \cup {i}
<1>1. /\ HeapOK(g) /\ Others(h, g, v)
      /\ SetTo(h, g, v, i, TRUE)
  BY InsertSound
<1>2. ASSUME NEW j PROVE j \in iter(g, v) <=> j \in iter(h, v) \/ j = i
  <2>1. CASE j \notin Nat BY <2>1, <1>1, IterMember
  <2>2. CASE j \in Nat
    <3>1. j \div 64 \in Nat BY <2>2, WordOfBit
    <3>2. j = i <=> j \div 64 = i \div 64 /\ j % 64 = i % 64 BY <2>2, BitIs
    <3>3. WordOr0(g, v, j \div 64)
          = IF j \div 64 = i \div 64 THEN Bit(h, v, i, TRUE) ELSE WordOr0(h, v, j \div 64)
      BY <3>1, <1>1 DEF SetTo
    <3>4. j \in iter(g, v) <=> j % 64 \in WordOr0(g, v, j \div 64) BY <2>2, <1>1, IterMember
    <3>5. j \in iter(h, v) <=> j % 64 \in WordOr0(h, v, j \div 64) BY <2>2, IterMember
    <3>6. QED BY <3>2, <3>3, <3>4, <3>5 DEF Bit
  <2>3. QED BY <2>1, <2>2
<1>3. QED BY <1>1, <1>2, OthersAreSets

Cut(h, v, i) == pop_zeros(set(h, v, i, FALSE), v)

\* remove takes i out, when it is there.
LEMMA RemoveIs ==
  ASSUME NEW h, HeapOK(h), NEW v \in Vecs, NEW i \in Nat, get(h, v, i), NEW g, g = Cut(h, v, i)
  PROVE  HeapOK(g) /\ OtherSets(h, g, v) /\ iter(g, v) = iter(h, v) \ {i}
<1> DEFINE c == set(h, v, i, FALSE)
<1>1. i < NumBits(h, v) BY DEF get, NumBits
<1>2. /\ HeapOK(c) /\ Others(h, c, v)
      /\ SetTo(h, c, v, i, FALSE)
  <2>1. PICK val \in BOOLEAN : val = FALSE OBVIOUS
  <2>2. c = set(h, v, i, val) BY <2>1
  <2> HIDE DEF c
  <2>3. /\ HeapOK(c) /\ Others(h, c, v)
        /\ SetTo(h, c, v, i, val)
    BY <1>1, <2>2, SetSound
  <2>4. QED BY <2>1, <2>3
<1> HIDE DEF c
<1>3. g = pop_zeros(c, v) BY DEF c, Cut
<1>4. HeapOK(g) /\ Others(c, g, v) /\ \A k \in Nat : WordOr0(g, v, k) = WordOr0(c, v, k)
  BY <1>2, <1>3, PopSound
<1>5. Others(h, g, v) BY <1>2, <1>4, SameTransitive DEF Others
<1>6. ASSUME NEW j PROVE j \in iter(g, v) <=> j \in iter(h, v) /\ j # i
  <2>1. CASE j \notin Nat BY <2>1, <1>4, IterMember
  <2>2. CASE j \in Nat
    <3>1. j \div 64 \in Nat BY <2>2, WordOfBit
    <3>2. j = i <=> j \div 64 = i \div 64 /\ j % 64 = i % 64 BY <2>2, BitIs
    <3>3. WordOr0(g, v, j \div 64)
          = IF j \div 64 = i \div 64 THEN Bit(h, v, i, FALSE) ELSE WordOr0(h, v, j \div 64)
      BY <3>1, <1>2, <1>4 DEF SetTo
    <3>4. j \in iter(g, v) <=> j % 64 \in WordOr0(g, v, j \div 64) BY <2>2, <1>4, IterMember
    <3>5. j \in iter(h, v) <=> j % 64 \in WordOr0(h, v, j \div 64) BY <2>2, IterMember
    <3>6. QED BY <3>2, <3>3, <3>4, <3>5 DEF Bit
  <2>3. QED BY <2>1, <2>2
<1>7. QED BY <1>4, <1>5, <1>6, OthersAreSets

\* insert_all unites the sets, and reports exactly whether something was added.
LEMMA InsertAllIs ==
  ASSUME NEW h, HeapOK(h), NEW v \in Vecs, NEW w \in Vecs, v # w, NEW g, g = insert_all(h, v, w)
  PROVE  /\ HeapOK(g) /\ OtherSets(h, g, v) /\ iter(g, v) = iter(h, v) \cup iter(h, w)
         /\ AnyNew(h, v, w) <=> ~(iter(h, w) \subseteq iter(h, v))
<1>1. /\ HeapOK(g) /\ Others(h, g, v)
      /\ \A k \in Nat : WordOr0(g, v, k) = WordOr0(h, v, k) \cup WordOr0(h, w, k)
      /\ AnyNew(h, v, w) <=> \E k \in Nat : WordOr0(h, w, k) \ WordOr0(h, v, k) # {}
  BY InsertAllSound
<1>2. ASSUME NEW j PROVE j \in iter(g, v) <=> j \in iter(h, v) \/ j \in iter(h, w)
  <2>1. j \in Nat => j \div 64 \in Nat BY WordOfBit
  <2>2. j \in iter(g, v) <=> j \in Nat /\ j % 64 \in WordOr0(g, v, j \div 64) BY <1>1, IterMember
  <2>3. j \in iter(h, v) <=> j \in Nat /\ j % 64 \in WordOr0(h, v, j \div 64) BY IterMember
  <2>4. j \in iter(h, w) <=> j \in Nat /\ j % 64 \in WordOr0(h, w, j \div 64) BY IterMember
  <2>5. j \in Nat => WordOr0(g, v, j \div 64) = WordOr0(h, v, j \div 64) \cup WordOr0(h, w, j \div 64)
    BY <2>1, <1>1
  <2>6. QED BY <2>2, <2>3, <2>4, <2>5
<1>3. ASSUME NEW k \in Nat, WordOr0(h, w, k) \ WordOr0(h, v, k) # {}
      PROVE  ~(iter(h, w) \subseteq iter(h, v))
  <2>1. PICK b \in WordOr0(h, w, k) : b \notin WordOr0(h, v, k) BY <1>3
  <2>2. b \in Bits
    <3>1. HeapType(h) /\ VecOK(h, w) /\ Blocks(h) BY DEF HeapOK
    <3>2. WordOr0(h, w, k) \in SUBSET Bits BY <3>1, WordOr0Is
    <3>3. QED BY <2>1, <3>2
  <2>3. 64 * k + b \in iter(h, w) BY <2>1, <2>2, BitMember
  <2>4. 64 * k + b \notin iter(h, v) BY <2>1, <2>2, BitMember
  <2>5. QED BY <2>3, <2>4
<1>4. ASSUME NEW j \in iter(h, w), j \notin iter(h, v)
      PROVE  \E k \in Nat : WordOr0(h, w, k) \ WordOr0(h, v, k) # {}
  <2>1. j \in Nat /\ j % 64 \in WordOr0(h, w, j \div 64) BY IterMember
  <2>2. j % 64 \notin WordOr0(h, v, j \div 64) BY <1>4, <2>1, IterMember
  <2>3. j \div 64 \in Nat BY <2>1, WordOfBit
  <2>4. QED BY <2>1, <2>2, <2>3
<1>5. AnyNew(h, v, w) <=> ~(iter(h, w) \subseteq iter(h, v)) BY <1>1, <1>3, <1>4
<1>6. QED BY <1>1, <1>2, <1>5, OthersAreSets

-----------------------------------------------------------------------------
(* Comparisons                                                               *)

\* eq looks at all words that one of the vectors has.
LEMMA EqIs ==
  ASSUME NEW h, HeapOK(h), NEW v \in Vecs, NEW w \in Vecs
  PROVE  eq(h, v, w) <=> \A k \in Nat : WordOr0(h, v, k) = WordOr0(h, w, k)
<1>1. Used(h, v) \in Nat /\ Used(h, w) \in Nat BY VecFields DEF HeapOK
<1>2. Either(h, v, w) \subseteq Nat BY <1>1 DEF Either, Larger
<1>3. \A k \in Nat \ Either(h, v, w) : WordOr0(h, v, k) = {} /\ WordOr0(h, w, k) = {}
  BY <1>1 DEF Either, Larger, WordOr0
<1>4. QED BY <1>2, <1>3 DEF eq

\* cmp is symmetric: the lowest bit in which the vectors differ is in one of them.
LEMMA CmpSymmetric ==
  ASSUME NEW h, HeapOK(h), NEW v \in Vecs, NEW w \in Vecs
  PROVE  /\ cmp(h, v, w) = "equal" <=> eq(h, v, w)
         /\ cmp(h, v, w) = "less" <=> cmp(h, w, v) = "greater"
<1> DEFINE D == {k \in Either(h, v, w) : WordOr0(h, v, k) # WordOr0(h, w, k)}
           E == {k \in Either(h, w, v) : WordOr0(h, w, k) # WordOr0(h, v, k)}
           k == Least(D)
           x == WordOr0(h, v, k)
           y == WordOr0(h, w, k)
           b == Least(Differing(x, y))
<1>1. Used(h, v) \in Nat /\ Used(h, w) \in Nat BY VecFields DEF HeapOK
<1>2. D = E /\ D \subseteq Nat BY <1>1 DEF Either, Larger
<1>3. D = {} <=> eq(h, v, w) BY DEF eq
<1>4. Differing(y, x) = Differing(x, y) BY DEF Differing
<1>5. cmp(h, v, w) = IF D = {} THEN "equal" ELSE IF b \in x THEN "greater" ELSE "less"
  BY DEF cmp
<1>6. cmp(h, w, v) = IF D = {} THEN "equal" ELSE IF b \in y THEN "greater" ELSE "less"
  BY <1>2, <1>4 DEF cmp
<1>7. D # {} => (b \in x <=> b \notin y)
  <2> SUFFICES ASSUME D # {} PROVE b \in x <=> b \notin y OBVIOUS
  <2> HIDE DEF D
  <2>1. k \in D BY <1>2, LeastIs
  <2>2. k \in Nat /\ x # y BY <1>2, <2>1 DEF D
  <2> HIDE DEF k
  <2>3. x \subseteq Bits /\ y \subseteq Bits
    <3>1. HeapType(h) /\ VecOK(h, v) /\ VecOK(h, w) /\ Blocks(h) BY DEF HeapOK
    <3>2. WordOr0(h, v, k) \in SUBSET Bits BY <2>2, <3>1, WordOr0Is
    <3>3. WordOr0(h, w, k) \in SUBSET Bits BY <2>2, <3>1, WordOr0Is
    <3>4. QED BY <3>2, <3>3
  <2> HIDE DEF x, y
  <2>4. Differing(x, y) \subseteq Nat /\ Differing(x, y) # {} BY <2>2, <2>3 DEF Differing, Bits
  <2>5. b \in Differing(x, y) BY <2>4, LeastIs
  <2> HIDE DEF b
  <2>6. QED BY <2>5 DEF Differing
<1> HIDE DEF D, E, k, x, y, b
<1>8. QED BY <1>3, <1>5, <1>6, <1>7

\* What is hashed ends at the last word that is not zero.
Top(h, v) ==
  LET nonzero == {k \in 0..(Used(h, v) - 1) : Word(h, v, k) # {}}
  IN  IF nonzero = {} THEN 0 ELSE (CHOOSE k \in nonzero : \A j \in nonzero : j <= k) + 1

\* The words from Top on are zero; the one before it is not.
LEMMA TopIs ==
  ASSUME NEW h, HeapOK(h), NEW v \in Vecs
  PROVE  /\ Top(h, v) \in Nat
         /\ \A k \in Nat : k >= Top(h, v) => WordOr0(h, v, k) = {}
         /\ Top(h, v) > 0 => WordOr0(h, v, Top(h, v) - 1) # {}
         /\ \A k \in 0..(Top(h, v) - 1) : Word(h, v, k) = WordOr0(h, v, k)
<1> DEFINE S == {k \in 0..(Used(h, v) - 1) : Word(h, v, k) # {}}
           t == Top(h, v)
<1>1. Used(h, v) \in Nat BY VecFields DEF HeapOK
<1>2. \A k \in Nat : WordOr0(h, v, k) # {} <=> k \in S BY <1>1 DEF WordOr0
<1>3. S \subseteq Nat /\ \A k \in S : k < Used(h, v) BY <1>1
<1>4. t = IF S = {} THEN 0 ELSE (CHOOSE k \in S : \A j \in S : j <= k) + 1 BY DEF Top
<1> HIDE DEF S, t
<1>5. CASE S = {}
  <2>1. t = 0 BY <1>4, <1>5
  <2>2. QED BY <2>1, <1>2, <1>5 DEF t
<1>6. CASE S # {}
  <2>1. \E k \in S : \A j \in S : j <= k BY <1>1, <1>3, <1>6, GreatestExists
  <2> DEFINE m == CHOOSE k \in S : \A j \in S : j <= k
  <2>2. m \in S /\ \A j \in S : j <= m BY <2>1, Zenon
  <2>3. t = m + 1 BY <1>4, <1>6
  <2> HIDE DEF m
  <2>4. m \in Nat /\ m < Used(h, v) /\ t \in Nat /\ t - 1 = m BY <2>2, <2>3, <1>3
  <2>5. \A k \in Nat : k >= t => WordOr0(h, v, k) = {} BY <2>2, <2>3, <2>4, <1>2
  <2>6. WordOr0(h, v, t - 1) # {} BY <2>2, <2>4, <1>2
  <2>7. \A k \in 0..(t - 1) : Word(h, v, k) = WordOr0(h, v, k)
    BY <2>3, <2>4, <1>1 DEF WordOr0
  <2>8. QED BY <2>4, <2>5, <2>6, <2>7 DEF t
<1>7. QED BY <1>5, <1>6

\* What is hashed is the same exactly for vectors that are equal.
LEMMA HashAgrees ==
  ASSUME NEW h, HeapOK(h), NEW v \in Vecs, NEW w \in Vecs
  PROVE  hash_input(h, v) = hash_input(h, w) <=> eq(h, v, w)
<1> DEFINE m == Top(h, v)
           n == Top(h, w)
           f == [k \in 0..(m - 1) |-> Word(h, v, k)]
           g == [k \in 0..(n - 1) |-> Word(h, w, k)]
<1>1. hash_input(h, v) = f /\ hash_input(h, w) = g BY DEF hash_input, Top
<1>2. /\ m \in Nat /\ \A k \in Nat : k >= m => WordOr0(h, v, k) = {}
      /\ m > 0 => WordOr0(h, v, m - 1) # {}
      /\ \A k \in 0..(m - 1) : Word(h, v, k) = WordOr0(h, v, k)
  BY TopIs
<1>3. /\ n \in Nat /\ \A k \in Nat : k >= n => WordOr0(h, w, k) = {}
      /\ n > 0 => WordOr0(h, w, n - 1) # {}
      /\ \A k \in 0..(n - 1) : Word(h, w, k) = WordOr0(h, w, k)
  BY TopIs
<1> HIDE DEF m, n
<1>4. ASSUME f = g, NEW k \in Nat PROVE WordOr0(h, v, k) = WordOr0(h, w, k)
  <2>1. DOMAIN f = 0..(m - 1) /\ DOMAIN g = 0..(n - 1) OBVIOUS
  <2>2. 0..(m - 1) = 0..(n - 1) BY <1>4, <2>1
  <2>3. m = n
    <3>0. \A j : j \in 0..(m - 1) <=> j \in 0..(n - 1) BY <2>2
    <3>1. m > 0 => m - 1 \in 0..(n - 1)
      <4>1. m > 0 => m - 1 \in 0..(m - 1) BY <1>2
      <4>2. QED BY <4>1, <3>0
    <3>2. n > 0 => n - 1 \in 0..(m - 1)
      <4>1. n > 0 => n - 1 \in 0..(n - 1) BY <1>3
      <4>2. QED BY <4>1, <3>0
    <3>3. QED BY <3>1, <3>2, <1>2, <1>3
  <2>4. CASE k >= m BY <2>3, <2>4, <1>2, <1>3
  <2>5. CASE k < m
    <3>1. k \in 0..(m - 1) /\ k \in 0..(n - 1) BY <2>3, <2>5, <1>2
    <3>2. f[k] = Word(h, v, k) /\ g[k] = Word(h, w, k) BY <3>1
    <3>3. QED BY <1>4, <3>1, <3>2, <1>2, <1>3
  <2>6. QED BY <2>4, <2>5, <1>2
<1>5. ASSUME \A k \in Nat : WordOr0(h, v, k) = WordOr0(h, w, k) PROVE f = g
  <2>1. m = n
    <3>1. ~(m < n)
      <4> SUFFICES ASSUME m < n PROVE FALSE OBVIOUS
      <4>1. n > 0 /\ n - 1 \in Nat /\ n - 1 >= m BY <1>2, <1>3
      <4>2. WordOr0(h, w, n - 1) # {} /\ WordOr0(h, v, n - 1) = {} BY <4>1, <1>2, <1>3
      <4>3. QED BY <4>1, <4>2, <1>5
    <3>2. ~(n < m)
      <4> SUFFICES ASSUME n < m PROVE FALSE OBVIOUS
      <4>1. m > 0 /\ m - 1 \in Nat /\ m - 1 >= n BY <1>2, <1>3
      <4>2. WordOr0(h, v, m - 1) # {} /\ WordOr0(h, w, m - 1) = {} BY <4>1, <1>2, <1>3
      <4>3. QED BY <4>1, <4>2, <1>5
    <3>3. QED BY <3>1, <3>2, <1>2, <1>3
  <2>2. \A k \in 0..(m - 1) : Word(h, v, k) = Word(h, w, k) BY <2>1, <1>2, <1>3, <1>5
  <2>3. QED BY <2>1, <2>2
<1> HIDE DEF f, g
<1>6. QED BY <1>1, <1>4, <1>5, EqIs

\* eq, cmp and hash are those of the sets that the vectors are.
LEMMA ComparisonsSound ==
  ASSUME HeapOK(heap) PROVE ComparisonsAgree
<1> SUFFICES ASSUME NEW v \in Vecs, NEW w \in Vecs
             PROVE  /\ eq(heap, v, w) <=> iter(heap, v) = iter(heap, w)
                    /\ cmp(heap, v, w) = "equal" <=> eq(heap, v, w)
                    /\ hash_input(heap, v) = hash_input(heap, w) <=> eq(heap, v, w)
                    /\ cmp(heap, v, w) = "less" <=> cmp(heap, w, v) = "greater"
  BY DEF ComparisonsAgree
<1>1. eq(heap, v, w) <=> iter(heap, v) = iter(heap, w) BY EqIs, SameWords
<1>2. QED BY <1>1, CmpSymmetric, HashAgrees

-----------------------------------------------------------------------------
(* The calls                                                                 *)

TokInv ==
  /\ HeapOK(heap)
  /\ eof \in [Sets -> BOOLEAN] /\ end_of_nonterminal_extra \in [Sets -> BOOLEAN]
  /\ changed \in BOOLEAN

\* Token sets do not share vectors.
LEMMA VecNames ==
  ASSUME NEW s \in Sets, NEW u \in Sets
  PROVE  /\ T(s) \in Vecs /\ X(s) \in Vecs /\ T(s) # X(u) /\ X(s) # T(u)
         /\ s # u => T(s) # T(u) /\ X(s) # X(u)
BY DEF T, X, Vecs

\* ArenaSound, without the auxiliary definitions of this module.
LEMMA SoundIs ==
  ASSUME HeapOK(heap) PROVE ArenaSound
<1>1. HeapType(heap) /\ Blocks(heap) /\ \A v \in Vecs : VecOK(heap, v) BY DEF HeapOK
<1>2. heap.size \in Nat BY <1>1 DEF HeapType
<1>3. \A v \in Vecs : /\ Data(heap, v) \in Nat /\ Capacity(heap, v) \in Nat
                      /\ NumBits(heap, v) \in Nat /\ Used(heap, v) \in Nat
  BY <1>1, VecFields
<1>4. \A b \in heap.free : b.ptr \in Nat /\ b.words \in Nat BY <1>1 DEF HeapType
<1>5. \A v \in Vecs : BlockOf(v).ptr = Data(heap, v) /\ BlockOf(v).words = Capacity(heap, v)
  BY DEF BlockOf, Data, Capacity
<1>6. \A v \in Vecs : Used(heap, v) <= heap.vec[v].capacity BY <1>1 DEF VecOK, Capacity
<1>7. ASSUME NEW b \in heap.free \cup {BlockOf(v) : v \in Vecs}, b.words > 0
      PROVE  Addresses(b) \subseteq 0..(heap.size - 1)
  <2>1. b.ptr \in Nat /\ b.words \in Nat /\ Below(heap, b.ptr, b.words)
    BY <1>1, <1>3, <1>4, <1>5 DEF Blocks
  <2>2. QED BY <2>1, <1>2, <1>7 DEF Below, Addresses
<1>8. ASSUME NEW a, NEW b, a.ptr \in Nat, a.words \in Nat, b.ptr \in Nat, b.words \in Nat,
             Apart(a.ptr, a.words, b.ptr, b.words)
      PROVE  Addresses(a) \cap Addresses(b) = {}
  BY <1>8 DEF Apart, Addresses
<1>9. \A b, c \in heap.free : b # c => Addresses(b) \cap Addresses(c) = {}
  BY <1>1, <1>4, <1>8 DEF Blocks
<1>10. \A v, w \in Vecs : v # w => Addresses(BlockOf(v)) \cap Addresses(BlockOf(w)) = {}
  BY <1>1, <1>3, <1>5, <1>8 DEF Blocks
<1>11. \A v \in Vecs, b \in heap.free : Addresses(BlockOf(v)) \cap Addresses(b) = {}
  BY <1>1, <1>3, <1>4, <1>5, <1>8 DEF Blocks
<1>12. \A b \in heap.free : \A a \in Addresses(b) : heap.mem[a] = {}
  BY <1>1 DEF Blocks, Clean, Addresses
<1>13. \A v \in Vecs : \A k \in Used(heap, v) .. (heap.vec[v].capacity - 1) : Word(heap, v, k) = {}
  BY <1>1 DEF VecOK, Capacity
<1>14. ASSUME NEW v \in Vecs, NEW i \in iter(heap, v) PROVE i < heap.vec[v].num_bits
  <2>1. PICK k \in 0..(Used(heap, v) - 1) : \E b \in Word(heap, v, k) : i = 64 * k + b
    BY DEF iter
  <2>2. QED BY <2>1, <1>1 DEF VecOK, NumBits
<1>15. QED BY <1>6, <1>7, <1>9, <1>10, <1>11, <1>12, <1>13, <1>14 DEF ArenaSound

\* It holds of the sets that TokenSet::new makes.
LEMMA InitHolds == TokInit => TokInv
<1> SUFFICES ASSUME TokInit PROVE TokInv OBVIOUS
<1>1. /\ heap.size = 0 /\ heap.base = 0 /\ heap.offset = ChunkWords /\ heap.free = {}
      /\ heap.mem = [a \in {} |-> {}] /\ heap.vec = [v \in Vecs |-> NewVec] /\ HeapRec(heap)
  BY DEF TokInit, NewHeap, HeapRec
<1>2. NewVec \in VecType /\ ChunkWords \in Nat BY ChunkAssumption DEF NewVec, VecType
<1>3. HeapType(heap)
  <2>1. heap.mem \in [0..(heap.size - 1) -> SUBSET Bits]
    <3>1. 0..(heap.size - 1) = {} BY <1>1
    <3>2. QED BY <1>1, <3>1
  <2>2. heap.vec \in [Vecs -> VecType] BY <1>1, <1>2
  <2>3. QED BY <1>1, <1>2, <2>1, <2>2 DEF HeapType
<1>4. \A v \in Vecs : Data(heap, v) = 0 /\ Capacity(heap, v) = 0 /\ NumBits(heap, v) = 0 /\ Used(heap, v) = 0
  BY <1>1 DEF Data, Capacity, NumBits, Used, NewVec, words_in_use
<1>5. Chunk(heap) BY <1>1, <1>2 DEF Chunk
<1>6. Blocks(heap) BY <1>1, <1>4 DEF Blocks, Below, Apart
<1>7. \A v \in Vecs : VecOK(heap, v) BY <1>4 DEF VecOK
<1>8. QED BY <1>3, <1>5, <1>6, <1>7 DEF TokInv, HeapOK, TokInit

\* The tokens of a set by its parts.
Parts(A, B, e, x) ==
  {terminal(i) : i \in A} \cup {external(i) : i \in B}
  \cup (IF e THEN {end} ELSE {}) \cup (IF x THEN {extra} ELSE {})

\* Which tokens a set has follows from its four parts.
LEMMA PartsHave ==
  ASSUME NEW A, NEW B, NEW e \in BOOLEAN, NEW x \in BOOLEAN
  PROVE  /\ \A i : terminal(i) \in Parts(A, B, e, x) <=> i \in A
         /\ \A i : external(i) \in Parts(A, B, e, x) <=> i \in B
         /\ end \in Parts(A, B, e, x) <=> e
         /\ extra \in Parts(A, B, e, x) <=> x
         /\ \A t \in Parts(A, B, e, x) :
              (\E i : t = terminal(i)) \/ (\E i : t = external(i)) \/ t = end \/ t = extra
BY DEF Parts, terminal, external, end, extra

\* The four parts of a token set.
LEMMA TokensAre ==
  ASSUME NEW s \in Sets
  PROVE  TokensOf(s) = Parts(iter(heap, T(s)), iter(heap, X(s)), eof[s], end_of_nonterminal_extra[s])
BY DEF TokensOf, Indices, Parts

\* A set of which no vector and no flag changes has the same tokens.
LEMMA TokensKept ==
  ASSUME NEW s \in Sets,
         iter(heap, T(s))' = iter(heap, T(s)), iter(heap, X(s))' = iter(heap, X(s)),
         eof'[s] = eof[s], end_of_nonterminal_extra'[s] = end_of_nonterminal_extra[s]
  PROVE  TokensOf(s)' = TokensOf(s)
BY DEF TokensOf, Indices

\* The abstract variable, when only s changes.
LEMMA BecomesIs ==
  ASSUME NEW s \in Sets, NEW S, TokensOf(s)' = S,
         \A r \in Sets : r # s => TokensOf(r)' = TokensOf(r)
  PROVE  Abstract!Becomes(s, S)
BY DEF Abstract!Becomes

\* Calls that change no set and report nothing are stutters of the abstract sets.
LEMMA StutterIs ==
  ASSUME \A r \in Sets : TokensOf(r)' = TokensOf(r), UNCHANGED changed
  PROVE  UNCHANGED Abstract!absVars
BY DEF Abstract!absVars

\* drop empties the set.
LEMMA DropStep ==
  ASSUME TokInv, NEW s \in Sets, Drop(s)
  PROVE  TokInv' /\ Abstract!Clear(s)
<1> DEFINE g == drop(heap, T(s))
<1>1. heap' = drop(g, X(s)) BY DEF Drop
<1>2. HeapOK(g) /\ OtherSets(heap, g, T(s)) /\ iter(g, T(s)) = {}
  BY VecNames, DropIs DEF TokInv
<1> HIDE DEF g
<1>3. HeapOK(heap') /\ OtherSets(g, heap', X(s)) /\ iter(heap', X(s)) = {}
  BY <1>1, <1>2, VecNames, DropIs
<1>4. iter(heap', T(s)) = {} BY <1>2, <1>3, VecNames DEF OtherSets
<1>5. \A v \in Vecs : v # T(s) /\ v # X(s) => iter(heap', v) = iter(heap, v)
  BY <1>2, <1>3 DEF OtherSets
<1>6. ~eof'[s] /\ ~end_of_nonterminal_extra'[s] /\ UNCHANGED changed BY DEF Drop, TokInv
<1>7. \A r \in Sets : r # s => eof'[r] = eof[r] /\ end_of_nonterminal_extra'[r] = end_of_nonterminal_extra[r]
  BY DEF Drop, TokInv
<1>8. TokInv' BY <1>3 DEF TokInv, Drop
<1>9. TokensOf(s)' = {} BY <1>3, <1>4, <1>6 DEF TokensOf, Indices
<1>10. ASSUME NEW r \in Sets, r # s PROVE TokensOf(r)' = TokensOf(r)
  BY <1>5, <1>7, <1>10, VecNames, TokensKept
<1>11. Abstract!Becomes(s, {}) BY <1>9, <1>10, BecomesIs
<1>12. QED BY <1>6, <1>8, <1>11 DEF Abstract!Clear

\* with_capacity changes no set.
LEMMA WithCapacityStep ==
  ASSUME TokInv, NEW s \in Sets, NEW n \in Nat, NEW m \in Nat, WithCapacity(s, n, m)
  PROVE  TokInv' /\ UNCHANGED Abstract!absVars
<1> DEFINE g == with_capacity(heap, T(s), n)
<1>1. heap' = with_capacity(g, X(s), m) BY DEF WithCapacity
<1>2. NumBits(heap, T(s)) = 0 /\ NumBits(heap, X(s)) = 0
  BY DEF WithCapacity, Unmade, NumBits, NewVec
<1>3. HeapOK(g) /\ SameAll(heap, g) BY <1>2, VecNames, WithCapacitySound DEF TokInv
<1> HIDE DEF g
<1>4. NumBits(g, X(s)) = 0 BY <1>2, <1>3, VecNames DEF SameAll, Same
<1>5. HeapOK(heap') /\ SameAll(g, heap') BY <1>1, <1>3, <1>4, VecNames, WithCapacitySound
<1>6. \A v \in Vecs : iter(heap', v) = iter(heap, v)
  <2>1. \A v \in Vecs : iter(g, v) = iter(heap, v) BY <1>3, AllAreSets DEF TokInv
  <2>2. \A v \in Vecs : iter(heap', v) = iter(g, v) BY <1>3, <1>5, AllAreSets
  <2>3. QED BY <2>1, <2>2
<1>7. TokInv' BY <1>5 DEF TokInv, WithCapacity
<1>8. ASSUME NEW r \in Sets PROVE TokensOf(r)' = TokensOf(r)
  BY <1>6, VecNames, TokensKept DEF WithCapacity
<1>9. QED BY <1>7, <1>8, StutterIs DEF WithCapacity

\* clone copies it.
LEMMA CloneStep ==
  ASSUME TokInv, NEW s \in Sets, NEW u \in Sets, Clone(s, u)
  PROVE  TokInv' /\ Abstract!Copy(s, u)
<1> DEFINE g == clone(heap, T(s), T(u))
<1>1. heap' = clone(g, X(s), X(u)) /\ s # u BY DEF Clone
<1>2. NumBits(heap, T(u)) = 0 /\ NumBits(heap, X(u)) = 0
  BY DEF Clone, Unmade, NumBits, NewVec
<1>3. HeapOK(g) /\ Others(heap, g, T(u)) /\ OtherSets(heap, g, T(u)) /\ iter(g, T(u)) = iter(heap, T(s))
  BY <1>2, VecNames, CloneIs DEF TokInv
<1> HIDE DEF g
<1>4. NumBits(g, X(u)) = 0 BY <1>2, <1>3, VecNames DEF Others, Same
<1>5. HeapOK(heap') /\ OtherSets(g, heap', X(u)) /\ iter(heap', X(u)) = iter(g, X(s))
  BY <1>1, <1>3, <1>4, VecNames, CloneIs
<1>6. iter(heap', T(u)) = iter(heap, T(s)) /\ iter(heap', X(u)) = iter(heap, X(s))
  BY <1>3, <1>5, VecNames DEF OtherSets
<1>7. \A v \in Vecs : v # T(u) /\ v # X(u) => iter(heap', v) = iter(heap, v)
  BY <1>3, <1>5 DEF OtherSets
<1>8. eof'[u] = eof[s] /\ end_of_nonterminal_extra'[u] = end_of_nonterminal_extra[s] /\ UNCHANGED changed
  BY DEF Clone, TokInv
<1>9. \A r \in Sets : r # u => eof'[r] = eof[r] /\ end_of_nonterminal_extra'[r] = end_of_nonterminal_extra[r]
  BY DEF Clone, TokInv
<1>10. TokInv' BY <1>5 DEF TokInv, Clone
<1>11. TokensOf(u)' = TokensOf(s) BY <1>6, <1>8 DEF TokensOf, Indices
<1>12. ASSUME NEW r \in Sets, r # u PROVE TokensOf(r)' = TokensOf(r)
  BY <1>7, <1>9, <1>12, VecNames, TokensKept
<1>13. Abstract!Becomes(u, TokensOf(s)) BY <1>11, <1>12, BecomesIs
<1>14. QED BY <1>8, <1>10, <1>13 DEF Abstract!Copy

\* One flag of a set.
LEMMA FlagsAre ==
  ASSUME TokInv, NEW s \in Sets
  PROVE  eof[s] \in BOOLEAN /\ end_of_nonterminal_extra[s] \in BOOLEAN
BY DEF TokInv

\* insert of a terminal.
LEMMA InsertTerminalStep ==
  ASSUME TokInv, NEW s \in Sets, NEW i \in Nat, Insert(T(s), i)
  PROVE  TokInv' /\ Abstract!Insert(s, terminal(i))
<1>1. HeapOK(heap') /\ OtherSets(heap, heap', T(s)) /\ iter(heap', T(s)) = iter(heap, T(s)) \cup {i}
  BY VecNames, InsertIs DEF TokInv, Insert
<1>2. TokInv' /\ UNCHANGED <<eof, end_of_nonterminal_extra, changed>> BY <1>1 DEF TokInv, Insert
<1>3. iter(heap', X(s)) = iter(heap, X(s)) BY <1>1, VecNames DEF OtherSets
<1>4. TokensOf(s)' = TokensOf(s) \cup {terminal(i)}
  BY <1>1, <1>2, <1>3 DEF TokensOf, Indices
<1>5. ASSUME NEW r \in Sets, r # s PROVE TokensOf(r)' = TokensOf(r)
  BY <1>1, <1>2, <1>5, VecNames, TokensKept DEF OtherSets
<1>6. Abstract!Becomes(s, TokensOf(s) \cup {terminal(i)}) BY <1>4, <1>5, BecomesIs
<1>7. QED BY <1>2, <1>6 DEF Abstract!Insert

\* insert of an external token.
LEMMA InsertExternalStep ==
  ASSUME TokInv, NEW s \in Sets, NEW i \in Nat, Insert(X(s), i)
  PROVE  TokInv' /\ Abstract!Insert(s, external(i))
<1>1. HeapOK(heap') /\ OtherSets(heap, heap', X(s)) /\ iter(heap', X(s)) = iter(heap, X(s)) \cup {i}
  BY VecNames, InsertIs DEF TokInv, Insert
<1>2. TokInv' /\ UNCHANGED <<eof, end_of_nonterminal_extra, changed>> BY <1>1 DEF TokInv, Insert
<1>3. iter(heap', T(s)) = iter(heap, T(s)) BY <1>1, VecNames DEF OtherSets
<1>4. TokensOf(s)' = TokensOf(s) \cup {external(i)}
  BY <1>1, <1>2, <1>3 DEF TokensOf, Indices
<1>5. ASSUME NEW r \in Sets, r # s PROVE TokensOf(r)' = TokensOf(r)
  BY <1>1, <1>2, <1>5, VecNames, TokensKept DEF OtherSets
<1>6. Abstract!Becomes(s, TokensOf(s) \cup {external(i)}) BY <1>4, <1>5, BecomesIs
<1>7. QED BY <1>2, <1>6 DEF Abstract!Insert

\* Inserting and removing the flags.
LEMMA FlagStep ==
  ASSUME TokInv, NEW s \in Sets
  PROVE  /\ InsertEnd(s) => TokInv' /\ Abstract!Insert(s, end)
         /\ InsertExtra(s) => TokInv' /\ Abstract!Insert(s, extra)
         /\ RemoveEnd(s) => TokInv' /\ Abstract!Remove(s, end)
         /\ RemoveExtra(s) => TokInv' /\ Abstract!Remove(s, extra)
<1> DEFINE A == iter(heap, T(s))
           B == iter(heap, X(s))
           e == eof[s]
           x == end_of_nonterminal_extra[s]
<1>1. e \in BOOLEAN /\ x \in BOOLEAN /\ TokensOf(s) = Parts(A, B, e, x) BY FlagsAre, TokensAre
<1>2. /\ \A i : terminal(i) # end /\ external(i) # end /\ terminal(i) # extra /\ external(i) # extra
      /\ end # extra
  BY DEF terminal, external, end, extra
<1>3. ASSUME UNCHANGED heap
      PROVE  HeapOK(heap') /\ iter(heap, T(s))' = A /\ iter(heap, X(s))' = B
             /\ \A r \in Sets : iter(heap, T(r))' = iter(heap, T(r)) /\ iter(heap, X(r))' = iter(heap, X(r))
  BY <1>3 DEF TokInv
<1>4. ASSUME UNCHANGED heap,
             \A r \in Sets : r # s => /\ eof'[r] = eof[r]
                                      /\ end_of_nonterminal_extra'[r] = end_of_nonterminal_extra[r]
      PROVE  /\ \A r \in Sets : r # s => TokensOf(r)' = TokensOf(r)
             /\ TokensOf(s)' = Parts(A, B, eof'[s], end_of_nonterminal_extra'[s])
  BY <1>3, <1>4, TokensKept DEF TokensOf, Indices, Parts
<1> HIDE DEF A, B
<1>5. /\ Parts(A, B, TRUE, x) = Parts(A, B, e, x) \cup {end}
      /\ Parts(A, B, e, TRUE) = Parts(A, B, e, x) \cup {extra}
  BY <1>1, <1>2 DEF Parts
<1>6. /\ Parts(A, B, FALSE, x) = Parts(A, B, e, x) \ {end}
      /\ Parts(A, B, e, FALSE) = Parts(A, B, e, x) \ {extra}
  BY <1>1, <1>2 DEF Parts
<1>7. (end \in Parts(A, B, e, x) <=> e) /\ (extra \in Parts(A, B, e, x) <=> x)
  BY <1>1, PartsHave
<1>8. ASSUME InsertEnd(s) PROVE TokInv' /\ Abstract!Insert(s, end)
  <2>1. /\ UNCHANGED heap /\ eof'[s] = TRUE /\ end_of_nonterminal_extra'[s] = x /\ UNCHANGED changed
        /\ \A r \in Sets : r # s => /\ eof'[r] = eof[r]
                                    /\ end_of_nonterminal_extra'[r] = end_of_nonterminal_extra[r]
        /\ eof' \in [Sets -> BOOLEAN] /\ UNCHANGED end_of_nonterminal_extra
    BY <1>8 DEF InsertEnd, TokInv
  <2>2. TokInv' BY <2>1, <1>3 DEF TokInv
  <2>3. Abstract!Becomes(s, TokensOf(s) \cup {end}) BY <2>1, <1>1, <1>4, <1>5, BecomesIs
  <2>4. QED BY <2>1, <2>2, <2>3 DEF Abstract!Insert
<1>9. ASSUME InsertExtra(s) PROVE TokInv' /\ Abstract!Insert(s, extra)
  <2>1. /\ UNCHANGED heap /\ eof'[s] = e /\ end_of_nonterminal_extra'[s] = TRUE /\ UNCHANGED changed
        /\ \A r \in Sets : r # s => /\ eof'[r] = eof[r]
                                    /\ end_of_nonterminal_extra'[r] = end_of_nonterminal_extra[r]
        /\ end_of_nonterminal_extra' \in [Sets -> BOOLEAN] /\ UNCHANGED eof
    BY <1>9 DEF InsertExtra, TokInv
  <2>2. TokInv' BY <2>1, <1>3 DEF TokInv
  <2>3. Abstract!Becomes(s, TokensOf(s) \cup {extra}) BY <2>1, <1>1, <1>4, <1>5, BecomesIs
  <2>4. QED BY <2>1, <2>2, <2>3 DEF Abstract!Insert
<1>10. ASSUME RemoveEnd(s) PROVE TokInv' /\ Abstract!Remove(s, end)
  <2>1. /\ UNCHANGED heap /\ eof'[s] = FALSE /\ end_of_nonterminal_extra'[s] = x /\ changed' = e
        /\ \A r \in Sets : r # s => /\ eof'[r] = eof[r]
                                    /\ end_of_nonterminal_extra'[r] = end_of_nonterminal_extra[r]
        /\ eof' \in [Sets -> BOOLEAN] /\ UNCHANGED end_of_nonterminal_extra
    BY <1>10 DEF RemoveEnd, TokInv
  <2>2. TokInv' BY <2>1, <1>1, <1>3 DEF TokInv
  <2>3. Abstract!Becomes(s, TokensOf(s) \ {end}) BY <2>1, <1>1, <1>4, <1>6, BecomesIs
  <2>4. changed' = (end \in TokensOf(s)) BY <2>1, <1>1, <1>7
  <2>5. QED BY <2>2, <2>3, <2>4 DEF Abstract!Remove
<1>11. ASSUME RemoveExtra(s) PROVE TokInv' /\ Abstract!Remove(s, extra)
  <2>1. /\ UNCHANGED heap /\ eof'[s] = e /\ end_of_nonterminal_extra'[s] = FALSE /\ changed' = x
        /\ \A r \in Sets : r # s => /\ eof'[r] = eof[r]
                                    /\ end_of_nonterminal_extra'[r] = end_of_nonterminal_extra[r]
        /\ end_of_nonterminal_extra' \in [Sets -> BOOLEAN] /\ UNCHANGED eof
    BY <1>11 DEF RemoveExtra, TokInv
  <2>2. TokInv' BY <2>1, <1>1, <1>3 DEF TokInv
  <2>3. Abstract!Becomes(s, TokensOf(s) \ {extra}) BY <2>1, <1>1, <1>4, <1>6, BecomesIs
  <2>4. changed' = (extra \in TokensOf(s)) BY <2>1, <1>1, <1>7
  <2>5. QED BY <2>2, <2>3, <2>4 DEF Abstract!Remove
<1>12. QED BY <1>8, <1>9, <1>10, <1>11

\* remove, of a vector v of set s with its token t.
LEMMA RemoveHeap ==
  ASSUME TokInv, NEW v \in Vecs, NEW i \in Nat, Remove(v, i)
  PROVE  /\ TokInv' /\ OtherSets(heap, heap', v) /\ iter(heap', v) = iter(heap, v) \ {i}
         /\ changed' = (i \in iter(heap, v)) /\ UNCHANGED <<eof, end_of_nonterminal_extra>>
<1>1. HeapOK(heap) BY DEF TokInv
<1>2. get(heap, v, i) <=> i \in iter(heap, v) BY <1>1, GetIs, IterMember
<1>3. CASE get(heap, v, i)
  <2>1. heap' = Cut(heap, v, i) /\ changed' = TRUE BY <1>3 DEF Remove, get, Cut
  <2>2. HeapOK(heap') /\ OtherSets(heap, heap', v) /\ iter(heap', v) = iter(heap, v) \ {i}
    BY <1>1, <1>3, <2>1, RemoveIs
  <2>3. QED BY <1>2, <1>3, <2>1, <2>2 DEF TokInv, Remove
<1>4. CASE ~get(heap, v, i)
  <2>1. heap' = heap /\ changed' = FALSE BY <1>4 DEF Remove, get
  <2>2. UNCHANGED <<eof, end_of_nonterminal_extra>> BY DEF Remove
  <2>3. TokInv' BY <2>1, <2>2 DEF TokInv
  <2>4. OtherSets(heap, heap', v) BY <2>1 DEF OtherSets
  <2>5. i \notin iter(heap, v) BY <1>2, <1>4
  <2>6. iter(heap', v) = iter(heap, v) \ {i} BY <2>1, <2>5
  <2>7. (i \in iter(heap, v)) = FALSE BY <2>5
  <2>8. changed' = (i \in iter(heap, v)) BY <2>1, <2>7, Zenon
  <2>9. QED BY <2>2, <2>3, <2>4, <2>6, <2>8, Zenon
<1>5. QED BY <1>3, <1>4

\* remove of a terminal.
LEMMA RemoveTerminalStep ==
  ASSUME TokInv, NEW s \in Sets, NEW i \in Nat, Remove(T(s), i)
  PROVE  TokInv' /\ Abstract!Remove(s, terminal(i))
<1> DEFINE A == iter(heap, T(s))
           B == iter(heap, X(s))
           e == eof[s]
           x == end_of_nonterminal_extra[s]
<1>1. /\ TokInv' /\ OtherSets(heap, heap', T(s)) /\ iter(heap', T(s)) = A \ {i}
      /\ changed' = (i \in A) /\ UNCHANGED <<eof, end_of_nonterminal_extra>>
  BY VecNames, RemoveHeap
<1>2. iter(heap', X(s)) = B BY <1>1, VecNames DEF OtherSets
<1>3. e \in BOOLEAN /\ x \in BOOLEAN /\ TokensOf(s) = Parts(A, B, e, x) BY FlagsAre, TokensAre
<1>4. TokensOf(s)' = Parts(A \ {i}, B, e, x) BY <1>1, <1>2 DEF TokensOf, Indices, Parts
<1> HIDE DEF A, B, e, x
<1>5. Parts(A \ {i}, B, e, x) = Parts(A, B, e, x) \ {terminal(i)}
  BY DEF Parts, terminal, external, end, extra
<1>6. terminal(i) \in Parts(A, B, e, x) <=> i \in A BY <1>3, PartsHave
<1>7. ASSUME NEW r \in Sets, r # s PROVE TokensOf(r)' = TokensOf(r)
  BY <1>1, <1>7, VecNames, TokensKept DEF OtherSets
<1>8. Abstract!Becomes(s, TokensOf(s) \ {terminal(i)}) BY <1>3, <1>4, <1>5, <1>7, BecomesIs
<1>9. changed' = (terminal(i) \in TokensOf(s)) BY <1>1, <1>3, <1>6
<1>10. QED BY <1>1, <1>8, <1>9 DEF Abstract!Remove

\* remove of an external token.
LEMMA RemoveExternalStep ==
  ASSUME TokInv, NEW s \in Sets, NEW i \in Nat, Remove(X(s), i)
  PROVE  TokInv' /\ Abstract!Remove(s, external(i))
<1> DEFINE A == iter(heap, T(s))
           B == iter(heap, X(s))
           e == eof[s]
           x == end_of_nonterminal_extra[s]
<1>1. /\ TokInv' /\ OtherSets(heap, heap', X(s)) /\ iter(heap', X(s)) = B \ {i}
      /\ changed' = (i \in B) /\ UNCHANGED <<eof, end_of_nonterminal_extra>>
  BY VecNames, RemoveHeap
<1>2. iter(heap', T(s)) = A BY <1>1, VecNames DEF OtherSets
<1>3. e \in BOOLEAN /\ x \in BOOLEAN /\ TokensOf(s) = Parts(A, B, e, x) BY FlagsAre, TokensAre
<1>4. TokensOf(s)' = Parts(A, B \ {i}, e, x) BY <1>1, <1>2 DEF TokensOf, Indices, Parts
<1> HIDE DEF A, B, e, x
<1>5. Parts(A, B \ {i}, e, x) = Parts(A, B, e, x) \ {external(i)}
  BY DEF Parts, terminal, external, end, extra
<1>6. external(i) \in Parts(A, B, e, x) <=> i \in B BY <1>3, PartsHave
<1>7. ASSUME NEW r \in Sets, r # s PROVE TokensOf(r)' = TokensOf(r)
  BY <1>1, <1>7, VecNames, TokensKept DEF OtherSets
<1>8. Abstract!Becomes(s, TokensOf(s) \ {external(i)}) BY <1>3, <1>4, <1>5, <1>7, BecomesIs
<1>9. changed' = (external(i) \in TokensOf(s)) BY <1>1, <1>3, <1>6
<1>10. QED BY <1>1, <1>8, <1>9 DEF Abstract!Remove

\* insert_all_terminals adds the terminals of u and no other token.
LEMMA InsertAllTerminalsStep ==
  ASSUME TokInv, NEW s \in Sets, NEW u \in Sets, InsertAllTerminals(s, u)
  PROVE  TokInv' /\ Abstract!Union(s, {t \in TokensOf(u) : IsTerminal(t)})
<1> DEFINE A == iter(heap, T(s))
           B == iter(heap, X(s))
           e == eof[s]
           x == end_of_nonterminal_extra[s]
           C == iter(heap, T(u))
           S == {t \in TokensOf(u) : IsTerminal(t)}
<1>1. s # u /\ heap' = insert_all(heap, T(s), T(u)) /\ UNCHANGED <<eof, end_of_nonterminal_extra>>
  BY DEF InsertAllTerminals
<1>2. /\ HeapOK(heap') /\ OtherSets(heap, heap', T(s)) /\ iter(heap', T(s)) = A \cup C
      /\ AnyNew(heap, T(s), T(u)) <=> ~(C \subseteq A)
  BY <1>1, VecNames, InsertAllIs DEF TokInv
<1>3. changed' = ~(C \subseteq A)
  <2>1. changed' = AnyNew(heap, T(s), T(u)) BY DEF InsertAllTerminals
  <2>2. AnyNew(heap, T(s), T(u)) \in BOOLEAN BY DEF AnyNew
  <2>3. QED BY <1>2, <2>1, <2>2
<1>4. TokInv' BY <1>1, <1>2, <1>3 DEF TokInv
<1>5. iter(heap', X(s)) = B BY <1>2, VecNames DEF OtherSets
<1>6. e \in BOOLEAN /\ x \in BOOLEAN /\ TokensOf(s) = Parts(A, B, e, x) BY FlagsAre, TokensAre
<1>7. TokensOf(s)' = Parts(A \cup C, B, e, x) BY <1>1, <1>2, <1>5 DEF TokensOf, Indices, Parts
<1>8. S = {terminal(i) : i \in C}
  <2>1. TokensOf(u) = Parts(C, iter(heap, X(u)), eof[u], end_of_nonterminal_extra[u]) BY TokensAre
  <2>2. QED BY <2>1 DEF Parts, IsTerminal, terminal, external, end, extra
<1>9. ASSUME NEW r \in Sets, r # s PROVE TokensOf(r)' = TokensOf(r)
  BY <1>1, <1>2, <1>9, VecNames, TokensKept DEF OtherSets
<1> HIDE DEF A, B, C, S, e, x
<1>10. Parts(A \cup C, B, e, x) = Parts(A, B, e, x) \cup S BY <1>8 DEF Parts
<1>11. S \subseteq Parts(A, B, e, x) <=> C \subseteq A
  <2>1. \A i : terminal(i) \in Parts(A, B, e, x) <=> i \in A BY <1>6, PartsHave
  <2>2. QED BY <2>1, <1>8
<1>12. Abstract!Becomes(s, TokensOf(s) \cup S) BY <1>6, <1>7, <1>9, <1>10, BecomesIs
<1>13. changed' = ~(S \subseteq TokensOf(s)) BY <1>3, <1>6, <1>11
<1>14. QED BY <1>4, <1>12, <1>13 DEF Abstract!Union, S

\* insert_all adds all tokens of u, and reports exactly whether one was new.
LEMMA InsertAllStep ==
  ASSUME TokInv, NEW s \in Sets, NEW u \in Sets, InsertAll(s, u)
  PROVE  TokInv' /\ Abstract!Union(s, TokensOf(u))
<1> DEFINE A == iter(heap, T(s))
           B == iter(heap, X(s))
           e == eof[s]
           x == end_of_nonterminal_extra[s]
           A1 == iter(heap, T(u))
           B1 == iter(heap, X(u))
           e1 == eof[u]
           x1 == end_of_nonterminal_extra[u]
           g == insert_all(heap, T(s), T(u))
<1>1. s # u /\ heap' = insert_all(g, X(s), X(u)) BY DEF InsertAll
<1>2. /\ HeapOK(g) /\ OtherSets(heap, g, T(s)) /\ iter(g, T(s)) = A \cup A1
      /\ AnyNew(heap, T(s), T(u)) <=> ~(A1 \subseteq A)
  BY <1>1, VecNames, InsertAllIs DEF TokInv
<1>3. /\ e \in BOOLEAN /\ x \in BOOLEAN /\ TokensOf(s) = Parts(A, B, e, x)
      /\ e1 \in BOOLEAN /\ x1 \in BOOLEAN /\ TokensOf(u) = Parts(A1, B1, e1, x1)
  BY FlagsAre, TokensAre
<1>4. /\ changed' = ((e1 /\ ~e) \/ (x1 /\ ~x) \/ AnyNew(heap, T(s), T(u)) \/ AnyNew(g, X(s), X(u)))
      /\ eof' = [eof EXCEPT ![s] = e \/ e1]
      /\ end_of_nonterminal_extra' = [end_of_nonterminal_extra EXCEPT ![s] = x \/ x1]
  BY DEF InsertAll
<1> HIDE DEF g
<1>5. /\ HeapOK(heap') /\ OtherSets(g, heap', X(s)) /\ iter(heap', X(s)) = iter(g, X(s)) \cup iter(g, X(u))
      /\ AnyNew(g, X(s), X(u)) <=> ~(iter(g, X(u)) \subseteq iter(g, X(s)))
  BY <1>1, <1>2, VecNames, InsertAllIs
<1>6. iter(g, X(s)) = B /\ iter(g, X(u)) = B1 BY <1>2, VecNames DEF OtherSets
<1>7. iter(heap', T(s)) = A \cup A1 /\ iter(heap', X(s)) = B \cup B1
  BY <1>2, <1>5, <1>6, VecNames DEF OtherSets
<1>8. eof'[s] = (e \/ e1) /\ end_of_nonterminal_extra'[s] = (x \/ x1)
  BY <1>4 DEF TokInv
<1>9. changed' = ~(A1 \subseteq A /\ B1 \subseteq B /\ (e1 => e) /\ (x1 => x))
  <2>1. AnyNew(heap, T(s), T(u)) <=> ~(A1 \subseteq A) BY <1>2
  <2>2. AnyNew(g, X(s), X(u)) <=> ~(B1 \subseteq B) BY <1>5, <1>6
  <2> HIDE DEF A, B, A1, B1, e, e1, x, x1
  <2>3. ((e1 /\ ~e) \/ (x1 /\ ~x) \/ AnyNew(heap, T(s), T(u)) \/ AnyNew(g, X(s), X(u)))
        <=> ~(A1 \subseteq A /\ B1 \subseteq B /\ (e1 => e) /\ (x1 => x))
    BY <2>1, <2>2, <1>3
  <2>4. QED BY <2>3, <1>4
<1>10. TokInv'
  <2>1. eof' \in [Sets -> BOOLEAN] /\ end_of_nonterminal_extra' \in [Sets -> BOOLEAN]
    BY <1>3, <1>4 DEF TokInv
  <2>2. QED BY <2>1, <1>5, <1>9 DEF TokInv
<1>11. TokensOf(s)' = Parts(A \cup A1, B \cup B1, e \/ e1, x \/ x1)
  BY <1>7, <1>8 DEF TokensOf, Indices, Parts
<1>12. ASSUME NEW r \in Sets, r # s PROVE TokensOf(r)' = TokensOf(r)
  <2>1. iter(heap', T(r)) = iter(heap, T(r)) /\ iter(heap', X(r)) = iter(heap, X(r))
    BY <1>2, <1>5, <1>12, VecNames DEF OtherSets
  <2>2. eof'[r] = eof[r] /\ end_of_nonterminal_extra'[r] = end_of_nonterminal_extra[r]
    BY <1>4, <1>12 DEF TokInv
  <2>3. QED BY <2>1, <2>2, TokensKept
<1> HIDE DEF A, B, A1, B1, e, e1, x, x1
<1>13. Parts(A \cup A1, B \cup B1, e \/ e1, x \/ x1) = Parts(A, B, e, x) \cup Parts(A1, B1, e1, x1)
  <2>1. e \in BOOLEAN /\ x \in BOOLEAN /\ e1 \in BOOLEAN /\ x1 \in BOOLEAN BY <1>3
  <2>2. QED BY <2>1 DEF Parts
<1>14. Parts(A1, B1, e1, x1) \subseteq Parts(A, B, e, x)
       <=> A1 \subseteq A /\ B1 \subseteq B /\ (e1 => e) /\ (x1 => x)
  <2> DEFINE P == Parts(A1, B1, e1, x1)
             Q == Parts(A, B, e, x)
  <2>1. /\ \A i : terminal(i) \in P <=> i \in A1
        /\ \A i : external(i) \in P <=> i \in B1
        /\ end \in P <=> e1
        /\ extra \in P <=> x1
        /\ \A t \in P : (\E i : t = terminal(i)) \/ (\E i : t = external(i)) \/ t = end \/ t = extra
    BY <1>3, PartsHave
  <2>2. /\ \A i : terminal(i) \in Q <=> i \in A
        /\ \A i : external(i) \in Q <=> i \in B
        /\ end \in Q <=> e
        /\ extra \in Q <=> x
    BY <1>3, PartsHave
  <2> HIDE DEF P, Q
  <2>3. P \subseteq Q => A1 \subseteq A /\ B1 \subseteq B /\ (e1 => e) /\ (x1 => x)
    BY <2>1, <2>2, Zenon
  <2>4. A1 \subseteq A /\ B1 \subseteq B /\ (e1 => e) /\ (x1 => x) => P \subseteq Q
    BY <2>1, <2>2, Zenon
  <2>5. QED BY <2>3, <2>4 DEF P, Q
<1>15. Abstract!Becomes(s, TokensOf(s) \cup TokensOf(u)) BY <1>3, <1>11, <1>12, <1>13, BecomesIs
<1>16. changed' = ~(TokensOf(u) \subseteq TokensOf(s)) BY <1>3, <1>9, <1>14
<1>17. QED BY <1>10, <1>15, <1>16 DEF Abstract!Union

\* Every call preserves the invariant, and is the abstract operation or a stutter.
LEMMA StepHolds ==
  TokInv /\ [TokNext]_tokVars => TokInv' /\ [Abstract!Next]_(Abstract!absVars)
<1> SUFFICES ASSUME TokInv, [TokNext]_tokVars PROVE TokInv' /\ [Abstract!Next]_(Abstract!absVars)
  OBVIOUS
<1>1. CASE UNCHANGED tokVars
  <2>1. UNCHANGED <<heap, eof, end_of_nonterminal_extra, changed>> BY <1>1 DEF tokVars
  <2>2. TokInv' BY <2>1 DEF TokInv
  <2>3. \A r \in Sets : TokensOf(r)' = TokensOf(r) BY <2>1 DEF TokensOf, Indices
  <2>4. QED BY <2>1, <2>2, <2>3, StutterIs
<1>2. CASE TokNext
  <2>1. PICK s \in Sets : Call(s) BY <1>2 DEF TokNext
  <2>2. \A i \in Terminals : i \in Nat /\ terminal(i) \in Symbols
    BY TokenAssumption DEF Symbols
  <2>3. \A i \in Externals : i \in Nat /\ external(i) \in Symbols
    BY TokenAssumption DEF Symbols
  <2>4. end \in Symbols /\ extra \in Symbols BY DEF Symbols
  <2>5. CASE Drop(s)
    <3>1. TokInv' /\ Abstract!Clear(s) BY <2>5, DropStep
    <3>2. QED BY <3>1 DEF Abstract!Next
  <2>6. CASE InsertEnd(s) \/ InsertExtra(s) \/ RemoveEnd(s) \/ RemoveExtra(s)
    <3>1. TokInv' /\ \E t \in Symbols : Abstract!Insert(s, t) \/ Abstract!Remove(s, t)
      BY <2>4, <2>6, FlagStep
    <3>2. QED BY <3>1 DEF Abstract!Next
  <2>7. ASSUME NEW i \in Terminals, Insert(T(s), i) \/ Remove(T(s), i)
        PROVE  TokInv' /\ Abstract!Next
    <3>1. TokInv' /\ (Abstract!Insert(s, terminal(i)) \/ Abstract!Remove(s, terminal(i)))
      BY <2>2, <2>7, InsertTerminalStep, RemoveTerminalStep
    <3>2. QED BY <2>2, <3>1 DEF Abstract!Next
  <2>8. ASSUME NEW i \in Externals, Insert(X(s), i) \/ Remove(X(s), i)
        PROVE  TokInv' /\ Abstract!Next
    <3>1. TokInv' /\ (Abstract!Insert(s, external(i)) \/ Abstract!Remove(s, external(i)))
      BY <2>3, <2>8, InsertExternalStep, RemoveExternalStep
    <3>2. QED BY <2>3, <3>1 DEF Abstract!Next
  <2>9. ASSUME NEW n \in Terminals, NEW m \in Externals \cup {0}, WithCapacity(s, n, m)
        PROVE  TokInv' /\ UNCHANGED Abstract!absVars
    <3>1. n \in Nat /\ m \in Nat BY <2>2, <2>3
    <3>2. QED BY <3>1, <2>9, WithCapacityStep
  <2>10. ASSUME NEW u \in Sets, Clone(s, u) PROVE TokInv' /\ Abstract!Next
    <3>1. TokInv' /\ Abstract!Copy(s, u) BY <2>10, CloneStep
    <3>2. QED BY <3>1 DEF Abstract!Next
  <2>11. ASSUME NEW u \in Sets, InsertAllTerminals(s, u) PROVE TokInv' /\ Abstract!Next
    <3>1. TokInv' /\ Abstract!Union(s, {t \in TokensOf(u) : IsTerminal(t)})
      BY <2>11, InsertAllTerminalsStep
    <3>2. QED BY <3>1 DEF Abstract!Next
  <2>12. ASSUME NEW u \in Sets, InsertAll(s, u) PROVE TokInv' /\ Abstract!Next
    <3>1. TokInv' /\ Abstract!Union(s, TokensOf(u)) BY <2>12, InsertAllStep
    <3>2. QED BY <3>1 DEF Abstract!Next
  <2>13. QED
    BY <2>1, <2>5, <2>6, <2>7, <2>8, <2>9, <2>10, <2>11, <2>12 DEF Call
<1>3. QED BY <1>1, <1>2

-----------------------------------------------------------------------------
\* The heap is sound after any sequence of calls.
LEMMA InvariantHolds == TokSpec => []TokInv
<1>1. TokInv /\ [TokNext]_tokVars => TokInv' BY StepHolds
<1>2. QED BY <1>1, InitHolds, PTL DEF TokSpec

\* What the SAFETY comments of bitvec.rs claim of data, capacity and zeroed words holds
\* after any sequence of calls, whatever the chunk size, the sets and the tokens.
THEOREM TokenArenaSound == TokSpec => []ArenaSound
<1>1. TokInv => ArenaSound BY SoundIs DEF TokInv
<1>2. QED BY <1>1, InvariantHolds, PTL

\* TokenSet implements sets of tokens: every call does to the set what the abstract
\* operation does and nothing to the others, insert_all and remove report a change
\* exactly if there was one, and eq, cmp and hash are those of the sets.
THEOREM TokenSetsRefine == TokSpec => TokenSetsAreSets
<1>1. TokInit => Abstract!Init
  <2> SUFFICES ASSUME TokInit PROVE Abstract!Init OBVIOUS
  <2>1. HeapOK(heap) BY InitHolds DEF TokInv
  <2>2. ASSUME NEW v \in Vecs PROVE iter(heap, v) = {}
    <3>1. NumBits(heap, v) = 0 BY DEF TokInit, NewHeap, NewVec, NumBits
    <3>2. QED BY <2>1, <3>1, EmptyIs
  <2>3. ASSUME NEW s \in Sets PROVE TokensOf(s) = {}
    <3>1. iter(heap, T(s)) = {} /\ iter(heap, X(s)) = {} BY <2>2, VecNames
    <3>2. ~eof[s] /\ ~end_of_nonterminal_extra[s] BY DEF TokInit
    <3>3. QED BY <3>1, <3>2 DEF TokensOf, Indices
  <2>4. QED BY <2>3 DEF Abstract!Init, TokInit
<1>2. TokInv /\ [TokNext]_tokVars => [Abstract!Next]_(Abstract!absVars) BY StepHolds
<1>3. TokSpec => Abstract!Spec BY <1>1, <1>2, InvariantHolds, PTL DEF TokSpec, Abstract!Spec
<1>4. TokInv => ComparisonsAgree BY ComparisonsSound DEF TokInv
<1>5. TokSpec => []ComparisonsAgree BY <1>4, InvariantHolds, PTL
<1>6. QED BY <1>3, <1>5 DEF TokenSetsAreSets
=============================================================================
