---------------------------- MODULE SectorCipher ----------------------------
(***************************************************************************)
(* What SectorEngine does to the sectors of a buffer.                      *)
(*                                                                         *)
(* AES-XTS and AES-CBC-ESSIV are both keyed permutations of one 512-byte   *)
(* sector, selected by the plain64 IV of the absolute sector number, with  *)
(* no chaining from one sector to the next.  The key is fixed during a     *)
(* command, so a sector's content is described by where its bytes came     *)
(* from and by the operations applied to them since; an encryption and a   *)
(* decryption under the same IV undo each other, and nothing else does.    *)
(***************************************************************************)
EXTENDS Integers, Sequences

CONSTANT IvWord     \* values of one 32-bit half of the little-endian u64 (2^32)

ASSUME IvWordAssumption == IvWord \in Nat \ {0}

\* Mutant: dm-crypt's 32-bit "plain" IV.
plain_iv(sector) == <<sector % IvWord, 0>>

(* plain64: the sector number as a u64, low half first, zero above it.     *)
plain64_iv(sector) == <<sector % IvWord, (sector \div IvWord) % IvWord>>

Iv == (0 .. IvWord - 1) \X (0 .. IvWord - 1)

(* "cut" keeps the first arg[1] bytes of a sector and zeroes the others.   *)
Ops  == [op : {"enc", "dec"}, arg : Iv]
Cuts == [op : {"cut"}, arg : (Nat \ {0}) \X {0}]

(* base: "data" from the input file, "zero" a hole or a fresh buffer, "old"*)
(* bytes the output file held before, "torn" a sector half overwritten.    *)
Content == [base : {"data", "zero", "old", "torn"}, at : Nat,
            ops : Seq(Ops \cup Cuts)]

Fresh(base, s) == [base |-> base, at |-> s, ops |-> <<>>]
Zero == Fresh("zero", 0)

Opposite(dir) == IF dir = "enc" THEN "dec" ELSE "enc"

(* One sector through the cipher.                                          *)
Crypt(dir, sector, c) ==
  LET op   == [op |-> dir, arg |-> plain64_iv(sector)]
      undo == [op |-> Opposite(dir), arg |-> plain64_iv(sector)]
      n    == Len(c.ops)
  IN  IF n > 0 /\ c.ops[n] = undo
      THEN [c EXCEPT !.ops = SubSeq(c.ops, 1, n - 1)]
      ELSE [c EXCEPT !.ops = Append(c.ops, op)]

\* Mutant: sectors are numbered from the start of the buffer.
CryptRangeRelative(dir, buf) ==
  LET first == CHOOSE f \in DOMAIN buf : \A s \in DOMAIN buf : f <= s
  IN  [s \in DOMAIN buf |-> Crypt(dir, s - first, buf[s])]

(* encrypt_range / decrypt_range: every sector of buf under its own        *)
(* absolute number; buf is a function on absolute sector numbers.          *)
CryptRange(dir, buf) == [s \in DOMAIN buf |-> Crypt(dir, s, buf[s])]

(* What `available` bytes of c leave in a zeroed buffer of size bytes.     *)
Padded(c, available, size) ==
  IF available >= size THEN c
  ELSE IF available <= 0 THEN Zero
  ELSE [c EXCEPT !.ops = Append(c.ops, [op |-> "cut", arg |-> <<available, 0>>])]

=============================================================================
