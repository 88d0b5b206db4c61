------------------------------- MODULE BitVec -------------------------------
(***************************************************************************)
(* crates/generate/src/bitvec.rs: bit vectors whose words lie in an arena. *)
(* A word is the set of its bits that are one.  A heap is a record of the  *)
(* arena and the vectors:                                                  *)
(*   mem      the words of all chunks, one chunk after the other           *)
(*   size     their number                                                 *)
(*   base     the address of the last chunk                                *)
(*   offset   the first word of it that is not allocated                   *)
(*   free     the freed blocks [ptr, words]                                *)
(*   vec      data, num_bits and capacity of each vector                   *)
(* free_list keeps the blocks of one size in a stack.  Here any of them    *)
(* may be taken: nothing depends on which.  A vector that was dropped is   *)
(* one that was not made yet.                                              *)
(***************************************************************************)
EXTENDS Integers

CONSTANT ChunkWords  \* ARENA_CHUNK_WORDS

ASSUME ChunkAssumption == ChunkWords \in Nat \ {0}

Bits == 0..63
words_in_use(n) == (n + 63) \div 64

Block(ptr, words) == [ptr |-> ptr, words |-> words]
NewVec == [data |-> 0, num_bits |-> 0, capacity |-> 0]

\* WordArena::new: the first allocation makes a chunk.
NewHeap(Vecs) ==
  [mem |-> [a \in {} |-> {}], size |-> 0, base |-> 0, offset |-> ChunkWords, free |-> {},
   vec |-> [v \in Vecs |-> NewVec]]

-----------------------------------------------------------------------------
(* The arena                                                                 *)

Larger(m, n) == IF m > n THEN m ELSE n

\* The words of a block from the lo-th to before the hi-th become those of f.
Filled(h, ptr, lo, hi, f) ==
  [h EXCEPT !.mem = [a \in 0..(h.size - 1) |->
                       IF ptr + lo <= a /\ a < ptr + hi THEN f[a - ptr] ELSE h.mem[a]]]
Zeros(lo, hi) == [k \in lo..(hi - 1) |-> {}]
Cleared(h, ptr, lo, hi) == Filled(h, ptr, lo, hi, Zeros(lo, hi))

FreeOf(h, n) == {b \in h.free : b.words = n}

NewChunk(h, n) ==
  LET size == h.size + Larger(ChunkWords, n)
  IN  [h EXCEPT !.mem = [a \in 0..(size - 1) |-> IF a < h.size THEN h.mem[a] ELSE {}],
                !.size = size, !.base = h.size, !.offset = 0]

\* alloc: where n words are taken from, the heap after it and the address.
Taken(h, b) == [heap |-> [h EXCEPT !.free = @ \ {b}], ptr |-> b.ptr]
Bumped(h, n) == [heap |-> [h EXCEPT !.offset = @ + n], ptr |-> h.base + h.offset]
alloc(h, n) ==
  IF FreeOf(h, n) # {} THEN Taken(h, CHOOSE b \in FreeOf(h, n) : TRUE)
  ELSE IF h.offset + n > ChunkWords THEN Bumped(NewChunk(h, n), n)
  ELSE Bumped(h, n)

\* Mutant: a block is freed with what is in it.
free_Dirty(h, ptr, n, used) ==
  IF n = 0 THEN h ELSE [h EXCEPT !.free = @ \cup {Block(ptr, n)}]

\* free: only the words in use are cleared, the rest are zero.
free(h, ptr, n, used) ==
  IF n = 0 THEN h
  ELSE [Cleared(h, ptr, 0, used) EXCEPT !.free = @ \cup {Block(ptr, n)}]

-----------------------------------------------------------------------------
(* Vectors                                                                   *)

Used(h, v) == words_in_use(h.vec[v].num_bits)
Word(h, v, k) == h.mem[h.vec[v].data + k]
WordsOf(h, v) == [k \in 0..(Used(h, v) - 1) |-> Word(h, v, k)]
get(h, v, i) == i < h.vec[v].num_bits /\ i % 64 \in Word(h, v, i \div 64)

\* The vector moves to a block of n words that was allocated, at.heap; words it does
\* not copy are taken to be zero.
Moved(at, v, n) ==
  LET h == at.heap
      old == h.vec[v]
      used == words_in_use(old.num_bits)
      copied == Filled(h, at.ptr, 0, used, WordsOf(h, v))
      pointed == [copied EXCEPT !.vec[v].data = at.ptr, !.vec[v].capacity = n]
  IN  free(pointed, old.data, old.capacity, used)

with_capacity(h, v, bits) ==
  LET n == words_in_use(bits)
      at == alloc(h, n)
  IN  IF n = 0 THEN h
      ELSE [at.heap EXCEPT !.vec[v] = [data |-> at.ptr, num_bits |-> 0, capacity |-> n]]

ensure_words(h, v, n) ==
  LET new == Larger(n, 2 * h.vec[v].capacity)
  IN  IF n > h.vec[v].capacity THEN Moved(alloc(h, new), v, new) ELSE h

\* resize to a length that is no smaller, with zeros.
resize(h, v, len) ==
  LET g == ensure_words(h, v, words_in_use(len))
  IN  [Cleared(g, g.vec[v].data, Used(h, v), words_in_use(len))
         EXCEPT !.vec[v].num_bits = len]

\* set: one word changes.
set(h, v, i, val) ==
  LET k == i \div 64
      word == IF val THEN Word(h, v, k) \cup {i % 64} ELSE Word(h, v, k) \ {i % 64}
  IN  Filled(h, h.vec[v].data, k, k + 1, [j \in {k} |-> word])

\* pop as long as the last bit is zero; words that are no longer in use are cleared.
Trailing(h, v, n) == \A i \in n..(h.vec[v].num_bits - 1) : ~get(h, v, i)
Trimmed(h, v) ==
  CHOOSE n \in 0..h.vec[v].num_bits :
    Trailing(h, v, n) /\ (n > 0 => get(h, v, n - 1))
pop_zeros(h, v) ==
  LET n == Trimmed(h, v)
  IN  [Cleared(h, h.vec[v].data, words_in_use(n), Used(h, v)) EXCEPT !.vec[v].num_bits = n]

\* insert_all: room for the words of w, then the words are or-ed.
Room(h, v, w) ==
  LET n == Used(h, w)
  IN  IF n > h.vec[v].capacity THEN Moved(alloc(h, n), v, n)
      ELSE Cleared(h, h.vec[v].data, Used(h, v), n)

OrInto(h, v, w) ==
  [Filled(h, h.vec[v].data, 0, Used(h, w),
          [k \in 0..(Used(h, w) - 1) |-> Word(h, v, k) \cup Word(h, w, k)])
     EXCEPT !.vec[v].num_bits = Larger(@, h.vec[w].num_bits)]

insert_all(h, v, w) == IF Used(h, w) = 0 THEN h ELSE OrInto(Room(h, v, w), v, w)

\* Mutant: only the words that are new to v are looked at.
AnyNew_Longer(h, v, w) == Used(h, w) > Used(h, v)

\* Whether any bit was new, by the words of both.
AnyNew(h, v, w) ==
  LET g == Room(h, v, w)
  IN  Used(h, w) # 0 /\ \E k \in 0..(Used(h, w) - 1) : Word(g, w, k) \ Word(g, v, k) # {}

\* Drop
drop(h, v) ==
  [free(h, h.vec[v].data, h.vec[v].capacity, Used(h, v)) EXCEPT !.vec[v] = NewVec]

\* Clone of v, into one that was not made yet.
CopyWords(at, v, w) ==
  LET h == at.heap
  IN  [Filled(h, at.ptr, 0, Used(h, v), WordsOf(h, v))
         EXCEPT !.vec[w] = [data |-> at.ptr, num_bits |-> h.vec[v].num_bits,
                            capacity |-> Used(h, v)]]
clone(h, v, w) == IF Used(h, v) = 0 THEN h ELSE CopyWords(alloc(h, Used(h, v)), v, w)

-----------------------------------------------------------------------------
(* Comparisons look at words, one that a vector does not have is zero.       *)

WordOr0(h, v, k) == IF k < Used(h, v) THEN Word(h, v, k) ELSE {}

Either(h, v, w) == 0..(Larger(Used(h, v), Used(h, w)) - 1)
eq(h, v, w) == \A k \in Either(h, v, w) : WordOr0(h, v, k) = WordOr0(h, w, k)

\* The lowest bit of the first word in which they differ decides.
Differing(x, y) == (x \ y) \cup (y \ x)
Least(S) == CHOOSE n \in S : \A m \in S : n <= m
cmp(h, v, w) ==
  LET different == {k \in Either(h, v, w) : WordOr0(h, v, k) # WordOr0(h, w, k)}
      k == Least(different)
  IN  IF different = {} THEN "equal"
      ELSE IF Least(Differing(WordOr0(h, v, k), WordOr0(h, w, k))) \in WordOr0(h, v, k)
      THEN "greater" ELSE "less"

\* What is hashed: the words up to the last that is not zero.
hash_input(h, v) ==
  LET nonzero == {k \in 0..(Used(h, v) - 1) : Word(h, v, k) # {}}
      n == IF nonzero = {} THEN 0 ELSE (CHOOSE k \in nonzero : \A j \in nonzero : j <= k) + 1
  IN  [k \in 0..(n - 1) |-> Word(h, v, k)]

\* SetBitsIter
iter(h, v) == UNION {{64 * k + b : b \in Word(h, v, k)} : k \in 0..(Used(h, v) - 1)}
=============================================================================
