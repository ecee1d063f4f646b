---------------------------- MODULE SectorProofs ----------------------------
(***************************************************************************)
(* What the other proofs need to know of sectors, for every number of them *)
(* and every chunk size: the ranges of SectorRanges partition those they   *)
(* are asked to cover, and SectorCipher gives each, up to the last one a   *)
(* u64 can name, an IV of its own.                                         *)
(***************************************************************************)
EXTENDS SectorRanges, SectorCipher, FiniteSetTheorems, TLAPS

(* An interval holds as many numbers as its bounds say.                    *)
LEMMA IntervalSize ==
  ASSUME NEW a \in Int, NEW n \in Nat, NEW S, S = a .. a + n - 1
  PROVE  IsFiniteSet(S) /\ Cardinality(S) = n
<1>1. a + n - 1 \in Int
  OBVIOUS
<1> DEFINE b == a + n - 1
<1>2. /\ IsFiniteSet(a .. b)
      /\ Cardinality(a .. b) = IF a > b THEN 0 ELSE b - a + 1
  <2> HIDE DEF b
  <2> QED BY <1>1, FS_Interval DEF b
<1>3. (IF a > b THEN 0 ELSE b - a + 1) = n
  OBVIOUS
<1> QED BY <1>2, <1>3

(* Every bounded set of numbers that is not empty has a greatest one: the  *)
(* intervals from its members up to the bound are finite sets, of which    *)
(* one has no other strictly inside it.                                    *)
LEMMA LargestNumber ==
  ASSUME NEW n \in Nat, NEW T, T \subseteq 0 .. n, T # {}
  PROVE  \E x \in T : \A y \in T : y <= x
<1> DEFINE Above(t) == t .. n
           S == {Above(t) : t \in T}
<1>1. S # {} /\ S \subseteq FiniteSubsetsOf(Nat)
  <2>1. ASSUME NEW t \in T PROVE Above(t) \in SUBSET Nat /\ IsFiniteSet(Above(t))
    <3>1. t \in Int /\ n \in Int
      OBVIOUS
    <3> QED BY <3>1, FS_Interval
  <2> QED BY <2>1 DEF FiniteSubsetsOf
<1>2. PICK s \in S : \A u \in S : <<u, s>> \notin StrictSubsetOrdering(Nat)
  <2> HIDE DEF S
  <2> QED BY <1>1, FS_StrictSubsetOrderingWellFounded, WFMin
<1>3. PICK x \in T : s = Above(x)
  OBVIOUS
<1>4. ASSUME NEW y \in T, ~(y <= x) PROVE FALSE
  <2>1. Above(y) \in S /\ Above(y) \in SUBSET Nat /\ s \in SUBSET Nat
    BY <1>3
  <2>2. Above(y) \subseteq s /\ Above(y) # s
    <3>1. x \in s /\ x \notin Above(y)
      BY <1>3, <1>4
    <3>2. Above(y) \subseteq s
      BY <1>3, <1>4
    <3> QED BY <3>1, <3>2
  <2>3. <<Above(y), s>> \in StrictSubsetOrdering(Nat)
    <3> HIDE DEF Above
    <3> QED BY <2>1, <2>2 DEF StrictSubsetOrdering
  <2> QED BY <2>1, <2>3, <1>2
<1> QED BY <1>4

(* Rounding up: the least multiple of b that is not below a.               *)
LEMMA DivCeilBounds ==
  ASSUME NEW a \in Nat, NEW b \in Nat \ {0}
  PROVE  /\ DivCeil(a, b) \in Nat
         /\ DivCeil(a, b) * b >= a
         /\ (DivCeil(a, b) - 1) * b < a
         /\ a = 0 => DivCeil(a, b) = 0
<1> DEFINE q == (a + b - 1) \div b
           r == (a + b - 1) % b
<1>1. /\ a + b - 1 = b * q + r
      /\ q \in Int /\ r \in 0 .. b - 1
  OBVIOUS
<1> HIDE DEF q, r
<1>2. q >= 0
  <2> SUFFICES ASSUME q <= -1 PROVE FALSE
    BY <1>1
  <2>1. b * q <= -b
    BY <1>1
  <2> QED BY <2>1, <1>1
<1>3. q * b >= a /\ (q - 1) * b < a
  BY <1>1
<1>4. a = 0 => q = 0
  <2> SUFFICES ASSUME a = 0, q >= 1 PROVE FALSE
    BY <1>1, <1>2
  <2>1. b * q >= b
    BY <1>1
  <2> QED BY <2>1, <1>1
<1> QED BY <1>1, <1>2, <1>3, <1>4 DEF DivCeil, q

(* Multiples of a positive chunk grow with the index, a chunk at a time.   *)
LEMMA FirstGrows ==
  ASSUME NEW j \in Nat, NEW k \in Nat, j < k
  PROVE  First(j) + ChunkSectors <= First(k)
<1>1. ChunkSectors \in Nat \ {0}
  BY ChunkSectorsAssumption
<1>2. PICK d \in Nat : k = j + 1 + d
  <2>1. k - j - 1 \in Nat /\ k = j + 1 + (k - j - 1)
    OBVIOUS
  <2> QED BY <2>1
<1>3. k * ChunkSectors = j * ChunkSectors + ChunkSectors + d * ChunkSectors
  BY <1>1, <1>2
<1>4. d * ChunkSectors >= 0
  BY <1>1
<1>5. j * ChunkSectors \in Int /\ d * ChunkSectors \in Int
  BY <1>1
<1> HIDE <1>2
<1> QED BY <1>1, <1>3, <1>4, <1>5 DEF First

(* A range that is asked for is not empty and stays below the total.       *)
LEMMA RangeInside ==
  ASSUME NEW total \in Nat, NEW k \in RangeIds(total)
  PROVE  /\ k \in Nat /\ First(k) \in Nat /\ First(k) < total
         /\ Count(total, k) \in 1 .. ChunkSectors
         /\ First(k) + Count(total, k) <= total
         /\ First(k) \in SectorsOf(total, k)
         /\ SectorsOf(total, k) \subseteq 0 .. total - 1
<1> DEFINE n == DivCeil(total, ChunkSectors)
<1>1. ChunkSectors \in Nat \ {0}
  BY ChunkSectorsAssumption
<1>2. n \in Nat /\ (n - 1) * ChunkSectors < total
  BY <1>1, DivCeilBounds
<1>3. k \in Nat /\ k <= n - 1
  BY <1>2 DEF RangeIds
<1>4. First(k) \in Nat /\ First(n - 1) \in Int /\ First(n - 1) < total
  BY <1>1, <1>2, <1>3 DEF First
<1>5. First(k) < total
  <2>1. CASE k = n - 1
    BY <2>1, <1>4
  <2>2. CASE k < n - 1
    <3>1. First(k) + ChunkSectors <= First(n - 1)
      BY <2>2, <1>2, <1>3, FirstGrows
    <3> QED BY <3>1, <1>1, <1>4
  <2> QED BY <2>1, <2>2, <1>2, <1>3
<1> HIDE DEF n
<1> QED BY <1>1, <1>3, <1>4, <1>5 DEF Count, Least, SectorsOf

(* Two different ranges share no sector.                                   *)
LEMMA RangesDisjoint ==
  ASSUME NEW total \in Nat, NEW j \in RangeIds(total), NEW k \in RangeIds(total),
         j # k
  PROVE  SectorsOf(total, j) \cap SectorsOf(total, k) = {}
<1>1. ASSUME NEW a \in RangeIds(total), NEW b \in RangeIds(total), a < b
      PROVE  SectorsOf(total, a) \cap SectorsOf(total, b) = {}
  <2>1. /\ a \in Nat /\ First(a) \in Nat /\ Count(total, a) \in 1 .. ChunkSectors
        /\ b \in Nat /\ First(b) \in Nat
    BY RangeInside
  <2>2. First(a) + ChunkSectors <= First(b)
    BY <1>1, <2>1, FirstGrows
  <2>3. ChunkSectors \in Nat
    BY ChunkSectorsAssumption
  <2> QED BY <2>1, <2>2, <2>3 DEF SectorsOf
<1>2. j \in Nat /\ k \in Nat
  BY RangeInside
<1> QED BY <1>1, <1>2

(* Every sector below the total is in one of them.                         *)
LEMMA RangesCover ==
  ASSUME NEW total \in Nat, NEW s \in 0 .. total - 1
  PROVE  \E k \in RangeIds(total) : s \in SectorsOf(total, k)
<1> DEFINE n == DivCeil(total, ChunkSectors)
           k == s \div ChunkSectors
           r == s % ChunkSectors
<1>1. ChunkSectors \in Nat \ {0} /\ s \in Nat
  BY ChunkSectorsAssumption
<1>2. s = ChunkSectors * k + r /\ k \in Nat /\ r \in 0 .. ChunkSectors - 1
  BY <1>1
<1>3. n \in Nat /\ n * ChunkSectors >= total
  BY <1>1, DivCeilBounds
<1> HIDE DEF n, k, r
<1>4. First(k) \in Nat /\ First(k) <= s /\ s < First(k) + ChunkSectors
  BY <1>1, <1>2 DEF First
<1>5. k <= n - 1
  <2> SUFFICES ASSUME n <= k PROVE FALSE
    BY <1>2, <1>3
  <2>1. CASE n = k
    BY <2>1, <1>2, <1>3, <1>4 DEF First
  <2>2. CASE n < k
    <3>1. First(n) + ChunkSectors <= First(k)
      BY <2>2, <1>2, <1>3, FirstGrows
    <3>2. First(n) \in Nat /\ First(n) >= total
      BY <1>1, <1>3 DEF First
    <3> QED BY <3>1, <3>2, <1>1, <1>4
  <2> QED BY <2>1, <2>2, <1>2, <1>3
<1>6. k \in RangeIds(total)
  BY <1>2, <1>3, <1>5 DEF RangeIds, n
<1>7. s \in SectorsOf(total, k)
  BY <1>1, <1>4 DEF SectorsOf, Count, Least
<1> QED BY <1>6, <1>7

(* A range ends where the next one starts, or at the total.                *)
LEMMA RangeEnd ==
  ASSUME NEW total \in Nat, NEW k \in Nat, First(k) < total
  PROVE  First(k) + Count(total, k) = Least(First(k + 1), total)
<1>1. ChunkSectors \in Nat \ {0} /\ First(k) \in Nat
      /\ First(k + 1) = First(k) + ChunkSectors
  BY ChunkSectorsAssumption DEF First
<1> QED BY <1>1 DEF Count, Least

-----------------------------------------------------------------------------
(* plain64_iv always returns two words of 32 bits.                         *)
LEMMA IvType == ASSUME NEW s \in Nat PROVE plain64_iv(s) \in Iv
BY IvWordAssumption DEF plain64_iv, Iv

(* Dividing by a positive number: the usual quotient and remainder.        *)
LEMMA DivMod ==
  ASSUME NEW a \in Nat, NEW b \in Nat \ {0}
  PROVE  /\ a = b * (a \div b) + (a % b)
         /\ a % b \in 0 .. b - 1 /\ a \div b \in Nat
OBVIOUS

(* plain64 gives every sector number of a u64 an IV of its own.            *)
THEOREM IvInjective ==
  ASSUME NEW s \in 0 .. IvWord * IvWord - 1, NEW t \in 0 .. IvWord * IvWord - 1,
         plain64_iv(s) = plain64_iv(t)
  PROVE  s = t
<1>0. IvWord \in Nat \ {0} /\ s \in Nat /\ t \in Nat
  BY IvWordAssumption
<1>1. ASSUME NEW u \in 0 .. IvWord * IvWord - 1
      PROVE  (u \div IvWord) % IvWord = u \div IvWord
  <2> DEFINE q == u \div IvWord
  <2>1. u = IvWord * q + (u % IvWord) /\ u % IvWord \in 0 .. IvWord - 1 /\ q \in Nat
    BY <1>0, DivMod
  <2> HIDE DEF q
  <2>2. q < IvWord
    <3> SUFFICES ASSUME q >= IvWord PROVE FALSE
      BY <1>0, <2>1
    <3>1. IvWord * q >= IvWord * IvWord
      BY <1>0, <2>1
    <3> QED BY <3>1, <2>1, <1>0
  <2>3. q % IvWord = q
    BY <2>1, <2>2, <1>0
  <2> QED BY <2>3 DEF q
<1>2. s % IvWord = t % IvWord /\ s \div IvWord = t \div IvWord
  BY <1>1 DEF plain64_iv
<1> QED BY <1>0, <1>2, DivMod

(* The cipher and the padding of a short read yield sector contents.       *)
LEMMA CryptType ==
  ASSUME NEW dir \in {"enc", "dec"}, NEW s \in Nat, NEW c \in Content
  PROVE  Crypt(dir, s, c) \in Content
<1> DEFINE op == [op |-> dir, arg |-> plain64_iv(s)]
           n  == Len(c.ops)
<1>1. op \in Ops
  BY IvType DEF Ops
<1>2. c.ops \in Seq(Ops \cup Cuts) /\ n \in Nat
  BY DEF Content
<1>3. Append(c.ops, op) \in Seq(Ops \cup Cuts)
  BY <1>1, <1>2
<1>4. n > 0 => SubSeq(c.ops, 1, n - 1) \in Seq(Ops \cup Cuts)
  BY <1>2
<1>5. ASSUME NEW q \in Seq(Ops \cup Cuts) PROVE [c EXCEPT !.ops = q] \in Content
  BY DEF Content
<1> QED BY <1>3, <1>4, <1>5 DEF Crypt

(* The zero-padded tail sector is a sector like any other to the engine.   *)
LEMMA PaddedType ==
  ASSUME NEW c \in Content, NEW available \in Int, NEW size \in Nat
  PROVE  Padded(c, available, size) \in Content
<1>1. Zero \in Content
  BY DEF Zero, Fresh, Content
<1>2. ASSUME available > 0
      PROVE  [c EXCEPT !.ops = Append(c.ops, [op |-> "cut", arg |-> <<available, 0>>])]
               \in Content
  <2>1. [op |-> "cut", arg |-> <<available, 0>>] \in Cuts
    BY <1>2 DEF Cuts
  <2>2. Append(c.ops, [op |-> "cut", arg |-> <<available, 0>>]) \in Seq(Ops \cup Cuts)
    BY <2>1 DEF Content
  <2> QED BY <2>2 DEF Content
<1> QED BY <1>1, <1>2 DEF Padded

(* Decrypting a sector under the number it was encrypted under gives back  *)
(* the plaintext.                                                          *)
LEMMA DecryptUndoesEncrypt ==
  ASSUME NEW s \in Nat, NEW c \in Content,
         Len(c.ops) > 0 => c.ops[Len(c.ops)].op # "dec"
  PROVE  Crypt("dec", s, Crypt("enc", s, c)) = c
<1> DEFINE enc == [op |-> "enc", arg |-> plain64_iv(s)]
           d   == [c EXCEPT !.ops = Append(c.ops, enc)]
           n   == Len(c.ops)
<1>1. c.ops \in Seq(Ops \cup Cuts) /\ n \in Nat
  BY DEF Content
<1>2. Crypt("enc", s, c) = d
  BY <1>1 DEF Crypt, Opposite
<1>3. /\ d.ops = Append(c.ops, enc) /\ Len(d.ops) = n + 1
      /\ d.ops[n + 1] = enc
  BY <1>1 DEF Content
<1>4. Crypt("dec", s, d) = [d EXCEPT !.ops = SubSeq(d.ops, 1, n)]
  BY <1>1, <1>3 DEF Crypt, Opposite
<1>5. SubSeq(Append(c.ops, enc), 1, n) = c.ops
  BY <1>1
<1>6. [d EXCEPT !.ops = c.ops] = c
  BY DEF Content
<1> QED BY <1>2, <1>3, <1>4, <1>5, <1>6

=============================================================================
