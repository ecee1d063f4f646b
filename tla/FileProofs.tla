----------------------------- MODULE FileProofs -----------------------------
(***************************************************************************)
(* For every u64, alignment, number of runs and appends, every volume, and *)
(* every stream and window: what align, validate and entropy say of a file *)
(* is so, and align fix takes from it only what came in its window.        *)
(*                                                                         *)
(* The three parts of the invariant are of three commands: that a length   *)
(* which is measured is not below the data until something is appended;    *)
(* that the stat of a volume nobody truncated is its length still; and     *)
(* that the windows scored so far are the first of the stream.             *)
(***************************************************************************)
EXTENDS FileCommands, SequenceTheorems, TLAPS

Ends  == {"ok", "not_aligned", "io", "panic"}
Steps == Ends \cup {"idle", "stat", "open", "resize"}

AlignInv ==
  /\ file_length \in Align!Lengths /\ last_data \in 0 .. file_length
  /\ kind \in [AlignRuns -> {"check", "fix"}] /\ alignment \in [AlignRuns -> 0 .. U64Max]
  /\ file_size \in [AlignRuns -> Align!Lengths] /\ align_pc \in [AlignRuns -> Steps]
  /\ overtaken \in BOOLEAN
  /\ \A r \in AlignRuns : Align!InWindow(r) =>
       alignment[r] # 0 /\ (overtaken = FALSE => last_data <= file_size[r])
  /\ \A a \in fixed : a \in Nat \ {0} /\ file_length % a = 0

(* Dividing by a positive number: the usual quotient and remainder.        *)
LEMMA DivMod ==
  ASSUME NEW a \in Nat, NEW b \in Nat \ {0}
  PROVE  /\ a = b * (a \div b) + (a % b)
         /\ a % b \in 0 .. b - 1 /\ a \div b \in Nat
OBVIOUS

(* ... and the only one.                                                   *)
LEMMA DivModUnique ==
  ASSUME NEW b \in Nat \ {0}, NEW q \in Nat, NEW r \in 0 .. b - 1
  PROVE  (q * b + r) \div b = q /\ (q * b + r) % b = r
<1>1. PICK n \in Nat : n = q * b + r
  <2>1. q * b + r \in Nat
    OBVIOUS
  <2> QED BY <2>1
<1>2. PICK p \in Nat, s \in 0 .. b - 1 :
        p = n \div b /\ s = n % b /\ q * b + r = b * p + s
  BY <1>1, DivMod
<1>3. CASE p > q
  <2>1. PICK d \in Nat : p = q + 1 + d
    <3>1. p - q - 1 \in Nat /\ p = q + 1 + (p - q - 1)
      BY <1>3
    <3> QED BY <3>1
  <2>2. b * p = q * b + b + b * d /\ b * d \in Nat /\ q * b \in Nat
    BY <2>1
  <2> QED BY <1>2, <2>2
<1>4. CASE p < q
  <2>1. PICK d \in Nat : q = p + 1 + d
    <3>1. q - p - 1 \in Nat /\ q = p + 1 + (q - p - 1)
      BY <1>4
    <3> QED BY <3>1
  <2>2. q * b = b * p + b + b * d /\ b * d \in Nat /\ b * p \in Nat
    BY <2>1
  <2> QED BY <1>2, <2>2
<1>5. CASE p = q
  <2>1. b * p = q * b /\ q * b \in Nat
    BY <1>5
  <2> QED BY <1>1, <1>2, <1>5, <2>1
<1> QED BY <1>3, <1>4, <1>5

(* align_up of a length that a file can have never wraps: it is the next   *)
(* multiple of the alignment, even at the top of u64.                      *)
LEMMA AlignUpFacts ==
  ASSUME NEW l \in Align!Lengths, NEW a \in 1 .. U64Max
  PROVE  /\ Align!AlignUp(l, a) \in Nat /\ Align!AlignUp(l, a) >= l
         /\ Align!AlignUp(l, a) % a = 0
<1>1. /\ U64Max \in Nat /\ l \in Nat /\ 2 * l <= U64Max /\ a \in Nat \ {0}
  BY FileCommandsAssumption DEF Align!Lengths, Align!MaxLength
<1>2. PICK q \in Nat, r \in 0 .. a - 1 : q = l \div a /\ r = l % a /\ l = a * q + r
  BY <1>1, DivMod
<1>3. CASE r = 0
  BY <1>1, <1>2, <1>3 DEF Align!AlignUp
<1>4. CASE r # 0
  <2>1. l + (a - r) = (q + 1) * a + 0 /\ (q + 1) * a \in Nat /\ (q + 1) * a = a * q + a
    BY <1>1, <1>2
  <2>2. (q + 1) * a <= U64Max
    <3>1. CASE q = 0
      BY <2>1, <3>1, <1>1
    <3>2. CASE q # 0
      <4>1. PICK d \in Nat : q = 1 + d
        <5>1. q - 1 \in Nat /\ q = 1 + (q - 1)
          BY <3>2
        <5> QED BY <5>1
      <4>2. a * q = a + a * d /\ a * d \in Nat
        BY <4>1, <1>1
      <4> QED BY <1>1, <1>2, <2>1, <4>2
    <3> QED BY <3>1, <3>2
  <2>3. PICK t \in Nat : t = (q + 1) * a
    BY <2>1
  <2>4. t % (U64Max + 1) = t
    BY <1>1, <2>2, <2>3
  <2>5. Align!AlignUp(l, a) = t
    BY <1>2, <1>4, <2>1, <2>3, <2>4 DEF Align!AlignUp
  <2>6. t % a = 0
    <3>1. ((q + 1) * a + 0) % a = 0
      BY <1>1, DivModUnique
    <3> QED BY <2>3, <3>1
  <2>7. t >= l
    BY <1>1, <1>2, <2>1, <2>3
  <2> QED BY <2>5, <2>6, <2>7
<1> QED BY <1>3, <1>4

(* Half of the largest u64 is a number.                                    *)
LEMMA LengthFacts ==
  /\ U64Max \in Nat \ {0} /\ Align!MaxLength \in Nat
  /\ Align!Lengths = 0 .. Align!MaxLength
BY FileCommandsAssumption DEF Align!MaxLength, Align!Lengths

(* Before the first stat nothing is fixed and nothing was measured.        *)
LEMMA AlignStart == Align!Init \/ Align!Idle => AlignInv
<1> SUFFICES ASSUME Align!Init \/ Align!Idle PROVE AlignInv
  OBVIOUS
<1>1. /\ file_length \in Align!Lengths /\ file_length \in Nat /\ last_data = file_length
      /\ file_size = [r \in AlignRuns |-> 0]
      /\ overtaken = FALSE /\ fixed = {}
  BY LengthFacts DEF Align!Init, Align!Idle
<1>2. kind \in [AlignRuns -> {"check", "fix"}]
  BY DEF Align!Init, Align!Idle
<1>3. alignment \in [AlignRuns -> 0 .. U64Max]
  <2>1. CASE Align!Init
    BY <2>1, FileCommandsAssumption DEF Align!Init
  <2>2. CASE Align!Idle
    <3>1. alignment = [r \in AlignRuns |-> 1] /\ 1 \in 0 .. U64Max
      BY <2>2, LengthFacts DEF Align!Idle
    <3> QED BY <3>1
  <2> QED BY <2>1, <2>2
<1>4. PICK s \in {"stat", "idle"} : align_pc = [r \in AlignRuns |-> s]
  BY DEF Align!Init, Align!Idle
<1>5. align_pc \in [AlignRuns -> Steps] /\ \A r \in AlignRuns : ~Align!InWindow(r)
  BY <1>4 DEF Steps, Align!InWindow
<1>6. file_size \in [AlignRuns -> Align!Lengths] /\ last_data \in 0 .. file_length
  BY <1>1, LengthFacts
<1> QED BY <1>1, <1>2, <1>3, <1>5, <1>6 DEF AlignInv

(* The steps of a run that leave the file alone.                           *)
LEMMA AlignLooks ==
  ASSUME AlignInv, NEW r \in AlignRuns,
         Align!Check(r) \/ Align!Panic(r) \/ Align!Open(r) \/ Align!Fail(r)
  PROVE  AlignInv'
<1>1. /\ UNCHANGED <<file_length, last_data, kind, alignment, file_size, overtaken, fixed>>
      /\ \/ align_pc[r] = "open" /\ align_pc' = [align_pc EXCEPT ![r] = "resize"]
         \/ \E e \in Ends : align_pc' = [align_pc EXCEPT ![r] = e]
  <2>1. CASE Align!Check(r)
    BY <2>1 DEF Align!Check, Align!Goto, Ends
  <2>2. CASE Align!Panic(r) \/ Align!Fail(r)
    BY <2>2 DEF Align!Panic, Align!Fail, Align!Goto, Ends
  <2>3. CASE Align!Open(r)
    BY <2>3 DEF Align!Open, Align!Goto
  <2> QED BY <2>1, <2>2, <2>3
<1>2. /\ align_pc' \in [AlignRuns -> Steps]
      /\ \A s \in AlignRuns : align_pc'[s] \in {"open", "resize"} => align_pc[s] \in {"open", "resize"}
  BY <1>1 DEF AlignInv, Steps, Ends
<1> QED BY <1>1, <1>2 DEF AlignInv, Align!InWindow, Align!Lengths

(* A stat measures the length, which is not below the data; and a file     *)
(* that is aligned already is a fixed one.                                 *)
LEMMA AlignStat == ASSUME AlignInv, NEW r \in AlignRuns, Align!Stat(r) PROVE AlignInv'
<1>1. /\ alignment[r] # 0 /\ alignment[r] \in 0 .. U64Max
      /\ file_size' = [file_size EXCEPT ![r] = file_length]
      /\ \/ /\ Align!AlignUp(file_length, alignment[r]) = file_length
            /\ align_pc' = [align_pc EXCEPT ![r] = "ok"] /\ fixed' = fixed \cup {alignment[r]}
         \/ align_pc' = [align_pc EXCEPT ![r] = "open"] /\ UNCHANGED fixed
      /\ UNCHANGED <<file_length, last_data, kind, alignment, overtaken>>
  BY DEF Align!Stat, Align!Goto, AlignInv
<1>2. alignment[r] \in 1 .. U64Max /\ file_length \in Align!Lengths /\ last_data \in 0 .. file_length
  BY <1>1, LengthFacts DEF AlignInv
<1>3. align_pc' \in [AlignRuns -> Steps] /\ \A s \in AlignRuns \ {r} : align_pc'[s] = align_pc[s]
  BY <1>1 DEF AlignInv, Steps, Ends
<1>4. /\ file_size' \in [AlignRuns -> Align!Lengths]
      /\ file_size'[r] = file_length /\ \A s \in AlignRuns \ {r} : file_size'[s] = file_size[s]
  BY <1>1, <1>2 DEF AlignInv
<1>5. \A s \in AlignRuns : align_pc'[s] \in {"open", "resize"} =>
        alignment[s] # 0 /\ (overtaken = FALSE => last_data <= file_size'[s])
  <2>1. last_data <= file_length
    BY <1>2, LengthFacts
  <2> QED BY <1>1, <1>3, <1>4, <2>1 DEF AlignInv, Align!InWindow
<1>6. \A a \in fixed' : a \in Nat \ {0} /\ file_length % a = 0
  <2>1. Align!AlignUp(file_length, alignment[r]) % alignment[r] = 0
    BY <1>2, AlignUpFacts
  <2>2. alignment[r] \in Nat \ {0}
    BY <1>2, LengthFacts
  <2> QED BY <1>1, <2>1, <2>2 DEF AlignInv
<1> QED BY <1>1, <1>3, <1>4, <1>5, <1>6 DEF AlignInv, Align!InWindow, Align!Lengths

(* set_len: the new length is a multiple of this run's alignment, and      *)
(* without an append in the window not below the data.                     *)
LEMMA AlignResize ==
  ASSUME AlignInv, NEW r \in AlignRuns, Align!Resize(r)
  PROVE  AlignInv' /\ (overtaken = FALSE => last_data' = last_data)
<1> DEFINE target == Align!AlignUp(file_size[r], alignment[r])
<1>1. /\ align_pc[r] = "resize" /\ alignment[r] \in 1 .. U64Max /\ file_size[r] \in Align!Lengths
      /\ overtaken = FALSE => last_data <= file_size[r]
      /\ last_data \in Nat /\ file_length \in Nat /\ last_data <= file_length
      /\ UNCHANGED <<kind, alignment, file_size, overtaken>>
  <2>1. /\ align_pc[r] = "resize" /\ Align!InWindow(r)
        /\ UNCHANGED <<kind, alignment, file_size, overtaken>>
    BY DEF Align!Resize, Align!InWindow
  <2> QED BY <2>1, LengthFacts DEF AlignInv
<1>2. target \in Nat /\ target >= file_size[r] /\ target % alignment[r] = 0
  BY <1>1, AlignUpFacts
<1>3. \/ /\ target > Align!MaxLength
         /\ align_pc' = [align_pc EXCEPT ![r] = "io"] /\ UNCHANGED <<file_length, last_data, fixed>>
      \/ /\ ~(target > Align!MaxLength)
         /\ align_pc' = [align_pc EXCEPT ![r] = "ok"] /\ file_length' = target
         /\ last_data' = IF last_data < target THEN last_data ELSE target
         /\ fixed' = (IF file_length = target THEN fixed ELSE {}) \cup {alignment[r]}
  BY DEF Align!Resize, Align!Goto
<1> HIDE DEF target
<1>4. /\ align_pc' \in [AlignRuns -> Steps]
      /\ \A s \in AlignRuns : align_pc'[s] \in {"open", "resize"} => align_pc[s] \in {"open", "resize"} /\ s # r
  BY <1>3 DEF AlignInv, Steps, Ends
<1>5. /\ file_length' \in Align!Lengths /\ last_data' \in 0 .. file_length' /\ last_data' <= last_data
      /\ overtaken = FALSE => last_data' = last_data
  <2>1. file_size[r] \in Nat
    BY <1>1, LengthFacts
  <2> QED BY <1>1, <1>2, <1>3, <2>1, LengthFacts DEF AlignInv
<1>6. \A s \in AlignRuns : align_pc'[s] \in {"open", "resize"} =>
        alignment[s] # 0 /\ (overtaken = FALSE => last_data' <= file_size[s])
  BY <1>4, <1>5 DEF AlignInv, Align!InWindow
<1>7. \A a \in fixed' : a \in Nat \ {0} /\ file_length' % a = 0
  <2>1. alignment[r] \in Nat \ {0}
    BY <1>1, LengthFacts
  <2> QED BY <1>2, <1>3, <2>1 DEF AlignInv
<1> QED BY <1>1, <1>4, <1>5, <1>6, <1>7 DEF AlignInv, Align!InWindow, Align!Lengths

(* An append in no fix's window is measured by the next stat.              *)
LEMMA AlignAppend == ASSUME AlignInv, Align!Append PROVE AlignInv' /\ last_data' >= last_data
<1>1. /\ file_length < Align!MaxLength
      /\ file_length' = file_length + 1 /\ last_data' = file_length + 1 /\ fixed' = {}
      /\ overtaken' = (overtaken \/ \E r \in AlignRuns : Align!InWindow(r))
      /\ UNCHANGED <<kind, alignment, file_size, align_pc>>
  BY DEF Align!Append
<1>2. /\ file_length \in Nat /\ file_length' \in Align!Lengths /\ last_data' \in 0 .. file_length'
      /\ last_data' >= last_data
  BY <1>1, LengthFacts DEF AlignInv
<1>3. overtaken' \in BOOLEAN
      /\ (overtaken' = FALSE => \A r \in AlignRuns : ~Align!InWindow(r))
  BY <1>1
<1>4. \A r \in AlignRuns : Align!InWindow(r)' => Align!InWindow(r)
  BY <1>1 DEF Align!InWindow
<1> QED BY <1>1, <1>2, <1>3, <1>4 DEF AlignInv, Align!Lengths

(* Every step of align, and of the other programs, keeps its part.         *)
LEMMA AlignStepInv ==
  ASSUME AlignInv, Align!Next
  PROVE  AlignInv' /\ (last_data' < last_data => overtaken)
<1>1. last_data \in Nat
  BY LengthFacts DEF AlignInv
<1>2. ASSUME NEW r \in AlignRuns,
             Align!Check(r) \/ Align!Panic(r) \/ Align!Open(r) \/ Align!Fail(r)
      PROVE  AlignInv' /\ last_data' = last_data
  <2>1. last_data' = last_data
    BY <1>2 DEF Align!Check, Align!Panic, Align!Open, Align!Fail
  <2> QED BY <1>2, <2>1, AlignLooks
<1>3. ASSUME NEW r \in AlignRuns, Align!Stat(r) PROVE AlignInv' /\ last_data' = last_data
  <2>1. last_data' = last_data
    BY <1>3 DEF Align!Stat
  <2> QED BY <1>3, <2>1, AlignStat
<1>4. ASSUME NEW r \in AlignRuns, Align!Resize(r)
      PROVE  AlignInv' /\ (last_data' < last_data => overtaken)
  <2>1. AlignInv' /\ (overtaken = FALSE => last_data' = last_data)
    BY <1>4, AlignResize
  <2>2. overtaken \in BOOLEAN
    BY DEF AlignInv
  <2> QED BY <1>1, <2>1, <2>2
<1>5. CASE Align!Append
  <2>1. last_data' = file_length + 1 /\ file_length \in Nat /\ last_data <= file_length
    BY <1>5, LengthFacts DEF AlignInv, Align!Append
  <2>2. ~(last_data' < last_data)
    BY <1>1, <2>1
  <2> QED BY <1>5, <2>2, AlignAppend
<1>6. CASE Align!Over
  <2>1. UNCHANGED <<file_length, last_data, kind, alignment, file_size, align_pc, overtaken, fixed>>
    BY <1>6 DEF Align!Over, Align!vars
  <2>2. AlignInv'
    BY <2>1 DEF AlignInv, Align!InWindow, Align!Lengths
  <2> QED BY <1>1, <2>1, <2>2
<1>7. last_data' = last_data => ~(last_data' < last_data)
  BY <1>1
<1> QED BY <1>2, <1>3, <1>4, <1>5, <1>6, <1>7 DEF Align!Next

-----------------------------------------------------------------------------
CheckSteps == {"idle", "stat", "structure", "key", "read", "magic", "Success", "Io",
               "UnsupportedCipher", "LuksCompat", "KeyValidation"}

(* The magic number of a volume of n sectors is in its head.               *)
MagicWithin(n) ==
  /\ fits = TRUE
  /\ \/ magic = "squashfs" /\ n > 0
     \/ magic = "ext" /\ n > ExtSector

ChecksInv ==
  /\ length \in Nat /\ odd \in BOOLEAN /\ volume_size \in Nat \X BOOLEAN /\ shrunk \in BOOLEAN
  /\ fits \in BOOLEAN /\ step \in CheckSteps
  /\ step \in {"idle", "stat", "structure", "key", "read", "magic"} => seen = "none"
  /\ shrunk = FALSE /\ (step \in {"structure", "key", "read", "magic"}
                        \/ seen \in {"structure", "magic", "no magic"}) =>
       volume_size = <<length, odd>>
  /\ step \in {"key", "read", "magic"} \/ seen \in {"magic", "no magic"} => volume_size[2] = FALSE
  /\ step \in {"read", "magic"} => Checks!head_sectors > 0
  /\ step = "magic" => head = [s \in 0 .. Checks!head_sectors - 1 |-> Checks!Volume(s)]
  /\ seen = "structure" /\ step = "LuksCompat" => volume_size[2] = TRUE
  /\ seen = "magic" => MagicWithin(volume_size[1])
  /\ seen = "no magic" => ~MagicWithin(volume_size[1])

(* What the command's cipher makes of a sector of the volume.              *)
LEMMA VolumeDecrypted ==
  ASSUME NEW s \in Nat
  PROVE  /\ fits = TRUE =>
              Checks!Crypt("dec", s, Checks!Volume(s)) = Checks!Fresh("data", s)
         /\ fits = FALSE =>
              Checks!Crypt("dec", s, Checks!Volume(s)) # Checks!Fresh("data", s)
<1> DEFINE enc == [op |-> "enc", arg |-> Checks!plain64_iv(s)]
           dec == [op |-> "dec", arg |-> Checks!plain64_iv(s)]
           F(b) == [base |-> b, at |-> s, ops |-> <<>>]
<1>1. \A b : Checks!Fresh(b, s) = F(b) /\ F(b).ops = <<>> /\ Len(F(b).ops) = 0
  BY DEF Checks!Fresh
<1>2. CASE fits = TRUE
  <2>1. Checks!Volume(s) = [F("data") EXCEPT !.ops = Append(<<>>, enc)]
    BY <1>1, <1>2 DEF Checks!Volume, Checks!Crypt, Checks!Opposite
  <2>2. PICK v : v = [base |-> "data", at |-> s, ops |-> <<enc>>]
    OBVIOUS
  <2>3. Checks!Volume(s) = v
    BY <2>1, <2>2
  <2>4. v.ops = <<enc>> /\ Len(<<enc>>) = 1 /\ <<enc>>[1] = enc
        /\ SubSeq(<<enc>>, 1, 1 - 1) = <<>>
    BY <2>2
  <2>5. Checks!Crypt("dec", s, v) = [v EXCEPT !.ops = <<>>]
    BY <2>4 DEF Checks!Crypt, Checks!Opposite
  <2> QED BY <1>1, <1>2, <2>2, <2>3, <2>5
<1>3. CASE fits = FALSE
  <2>1. Checks!Volume(s) = F("torn")
    BY <1>1, <1>3 DEF Checks!Volume
  <2>2. Checks!Crypt("dec", s, F("torn")).base = "torn"
    BY <1>1 DEF Checks!Crypt
  <2>3. F("data").base = "data"
    OBVIOUS
  <2> QED BY <1>1, <1>3, <2>1, <2>2, <2>3
<1> QED BY <1>2, <1>3

(* detect_fs_magic finds a magic number exactly if the head holds the one  *)
(* of a volume made with this key.                                         *)
LEMMA MagicFound ==
  ASSUME ChecksInv, step = "magic"
  PROVE  Checks!HasMagic(Checks!CryptRange("dec", head)) <=> MagicWithin(volume_size[1])
<1>1. ExtSector \in Nat /\ HeadSectors \in Nat /\ ExtSector < HeadSectors
  BY FileCommandsAssumption
<1>2. PICK n \in Nat : n = volume_size[1]
  BY DEF ChecksInv
<1>3. PICK h \in Nat : h = Checks!head_sectors /\ h > 0
                       /\ h = IF n < HeadSectors THEN n ELSE HeadSectors
  BY <1>1, <1>2 DEF ChecksInv, Checks!head_sectors
<1>4. PICK plain : plain = Checks!CryptRange("dec", head)
  OBVIOUS
<1>5. /\ plain = [s \in 0 .. h - 1 |-> Checks!Crypt("dec", s, Checks!Volume(s))]
      /\ DOMAIN plain = 0 .. h - 1
  BY <1>3, <1>4 DEF ChecksInv, Checks!CryptRange
<1>6. \A s \in 0 .. h - 1 : plain[s] = Checks!Fresh("data", s) <=> fits = TRUE
  <2> SUFFICES ASSUME NEW s \in 0 .. h - 1
               PROVE  plain[s] = Checks!Fresh("data", s) <=> fits = TRUE
    OBVIOUS
  <2>1. s \in Nat /\ plain[s] = Checks!Crypt("dec", s, Checks!Volume(s))
    BY <1>3, <1>5
  <2>2. fits = TRUE \/ fits = FALSE
    BY DEF ChecksInv
  <2> QED BY <2>1, <2>2, VolumeDecrypted
<1>7. 0 \in 0 .. h - 1 /\ (ExtSector \in 0 .. h - 1 <=> n > ExtSector)
  BY <1>1, <1>3
<1>8. Checks!HasMagic(plain) <=> MagicWithin(n)
  <2>1. n > 0
    BY <1>3
  <2>2. plain[0] = Checks!Fresh("data", 0) <=> fits = TRUE
    BY <1>6, <1>7
  <2>3. ExtSector \in DOMAIN plain <=> n > ExtSector
    BY <1>5, <1>7
  <2>4. n > ExtSector => (plain[ExtSector] = Checks!Fresh("data", ExtSector) <=> fits = TRUE)
    BY <1>6, <1>7
  <2>5. Checks!HasMagic(plain) <=>
          \/ magic = "squashfs" /\ plain[0] = Checks!Fresh("data", 0)
          \/ magic = "ext" /\ n > ExtSector
             /\ plain[ExtSector] = Checks!Fresh("data", ExtSector)
    BY <2>3 DEF Checks!HasMagic
  <2>6. Checks!HasMagic(plain) <=>
          /\ fits = TRUE
          /\ magic = "squashfs" \/ (magic = "ext" /\ n > ExtSector)
    BY <2>2, <2>4, <2>5
  <2> QED BY <2>1, <2>6 DEF MagicWithin
<1> QED BY <1>2, <1>4, <1>8

(* Before the stat nothing is said of the volume.                          *)
LEMMA ChecksStart == Checks!ChecksInit \/ Checks!ChecksIdle => ChecksInv
<1> SUFFICES ASSUME Checks!ChecksInit \/ Checks!ChecksIdle PROVE ChecksInv
  OBVIOUS
<1>1. /\ odd \in BOOLEAN /\ fits \in BOOLEAN /\ volume_size = <<0, FALSE>>
      /\ step \in {"stat", "idle"} /\ seen = "none" /\ shrunk = FALSE
  BY DEF Checks!ChecksInit, Checks!ChecksIdle
<1>2. length \in Nat
  <2>1. MaxVolume \in Nat
    BY FileCommandsAssumption
  <2>2. length \in 0 .. MaxVolume \/ length = 0
    BY DEF Checks!ChecksInit, Checks!ChecksIdle
  <2> QED BY <2>1, <2>2
<1> QED BY <1>1, <1>2 DEF ChecksInv, CheckSteps

(* Every step of validate, and a truncation at any moment, keeps its part. *)
LEMMA ChecksStepInv == ASSUME ChecksInv, Checks!ChecksNext PROVE ChecksInv'
<1> USE DEF Checks!Fixed, Checks!FileFixed, Checks!Exit
<1>1. CASE Checks!StatFile
  <2>1. /\ step = "stat" /\ seen = "none"
        /\ \/ volume_size' = <<length, odd>> /\ step' = "structure" /\ UNCHANGED seen
           \/ step' = "Io" /\ seen' = "stat" /\ UNCHANGED volume_size
        /\ UNCHANGED <<head, magic, fits, keyed, length, odd, shrunk>>
    BY <1>1 DEF Checks!StatFile, ChecksInv
  <2>2. volume_size' \in Nat \X BOOLEAN
    BY <2>1 DEF ChecksInv
  <2>3. step' = "structure" => seen' = "none"
    BY <2>1
  <2> QED BY <2>1, <2>2, <2>3 DEF ChecksInv, CheckSteps
<1>2. CASE Checks!Structure
  <2>1. /\ step = "structure" /\ seen = "none"
        /\ \/ step' = "UnsupportedCipher" /\ seen' = "spec"
           \/ volume_size[2] = TRUE /\ step' = "LuksCompat" /\ seen' = "structure"
           \/ volume_size[2] = FALSE /\ step' = "Success" /\ seen' = "structure"
           \/ volume_size[2] = FALSE /\ step' = "key" /\ UNCHANGED seen
        /\ UNCHANGED <<volume_size, head, magic, fits, keyed, length, odd, shrunk>>
    BY <1>2 DEF Checks!Structure, ChecksInv
  <2> QED BY <2>1 DEF ChecksInv, CheckSteps, MagicWithin, Checks!head_sectors
<1>3. CASE Checks!Key
  BY <1>3 DEF Checks!Key, ChecksInv, CheckSteps, MagicWithin, Checks!head_sectors
<1>4. CASE Checks!ReadHead
  <2>1. /\ step = "read" /\ seen = "none"
        /\ \/ /\ head' = [s \in 0 .. Checks!head_sectors - 1 |-> Checks!Volume(s)]
              /\ step' = "magic" /\ UNCHANGED seen
           \/ step' = "Io" /\ seen' = "read" /\ UNCHANGED head
        /\ UNCHANGED <<volume_size, magic, fits, keyed, length, odd, shrunk>>
    BY <1>4 DEF Checks!ReadHead, ChecksInv
  <2>2. Checks!head_sectors' = Checks!head_sectors
        /\ \A s : Checks!Volume(s)' = Checks!Volume(s)
    BY <2>1 DEF Checks!head_sectors, Checks!Volume
  <2> QED BY <2>1, <2>2 DEF ChecksInv, CheckSteps, MagicWithin
<1>5. CASE Checks!Magic
  <2>1. /\ step = "magic" /\ seen = "none"
        /\ \/ /\ Checks!HasMagic(Checks!CryptRange("dec", head))
              /\ step' = "Success" /\ seen' = "magic"
           \/ /\ ~Checks!HasMagic(Checks!CryptRange("dec", head))
              /\ step' = "LuksCompat" /\ seen' = "no magic"
        /\ UNCHANGED <<volume_size, head, magic, fits, keyed, length, odd, shrunk>>
    BY <1>5 DEF Checks!Magic, ChecksInv
  <2>2. /\ seen' = "magic" => MagicWithin(volume_size[1])
        /\ seen' = "no magic" => ~MagicWithin(volume_size[1])
        /\ seen' \in {"magic", "no magic"}
    BY <2>1, MagicFound
  <2>3. MagicWithin(volume_size[1])' <=> MagicWithin(volume_size[1])
    BY <2>1 DEF MagicWithin
  <2> QED BY <2>1, <2>2, <2>3 DEF ChecksInv, CheckSteps
<1>6. CASE Checks!Truncate
  <2>1. /\ step \in {"stat", "structure", "key", "read", "magic"} /\ shrunk' = TRUE
        /\ length' \in 0 .. length - 1 /\ odd' \in BOOLEAN
        /\ UNCHANGED <<volume_size, head, step, seen, magic, fits, keyed>>
    BY <1>6 DEF Checks!Truncate, Checks!Running
  <2>3. length' \in Nat /\ seen = "none"
    <3>1. length \in Nat /\ seen = "none"
      BY <2>1 DEF ChecksInv
    <3> QED BY <2>1, <3>1
  <2>2. Checks!head_sectors' = Checks!head_sectors
        /\ \A s : Checks!Volume(s)' = Checks!Volume(s)
    BY <2>1 DEF Checks!head_sectors, Checks!Volume
  <2> QED BY <2>1, <2>2, <2>3 DEF ChecksInv, CheckSteps, MagicWithin
<1>7. CASE Checks!ChecksOver
  <2>1. UNCHANGED <<magic, length, odd, fits, keyed, volume_size, head, step, seen, shrunk>>
    BY <1>7 DEF Checks!ChecksOver, Checks!checkVars
  <2>2. step \notin {"idle", "stat", "structure", "key", "read", "magic"}
    BY <1>7 DEF Checks!ChecksOver
  <2> QED BY <2>1, <2>2 DEF ChecksInv, CheckSteps, MagicWithin
<1> QED BY <1>1, <1>2, <1>3, <1>4, <1>5, <1>6, <1>7 DEF Checks!ChecksNext

(* What that makes of a verdict.                                           *)
LEMMA ChecksVerdict == ChecksInv => Checks!VerdictIsRight
<1> SUFFICES ASSUME ChecksInv PROVE Checks!VerdictIsRight
  OBVIOUS
<1>1. ASSUME shrunk = FALSE, seen \in {"structure", "magic", "no magic"}
      PROVE  length = volume_size[1] /\ odd = volume_size[2]
  <2>1. volume_size = <<length, odd>>
    BY <1>1 DEF ChecksInv
  <2> QED BY <2>1
<1>2. seen = "magic" => fits /\ magic # "other"
  BY DEF ChecksInv, MagicWithin
<1>3. ~shrunk /\ seen = "magic" =>
        /\ fits /\ ~odd
        /\ \/ magic = "squashfs" /\ length > 0
           \/ magic = "ext" /\ length > ExtSector
  BY <1>1 DEF ChecksInv, MagicWithin
<1>4. ~shrunk /\ seen \in {"no magic", "structure"} /\ step = "LuksCompat" =>
        ~ /\ fits /\ ~odd
          /\ \/ magic = "squashfs" /\ length > 0
             \/ magic = "ext" /\ length > ExtSector
  BY <1>1 DEF ChecksInv, MagicWithin
<1>5. PICK m \in BOOLEAN :
        m <=> /\ fits /\ ~odd
              /\ \/ magic = "squashfs" /\ length > 0
                 \/ magic = "ext" /\ length > ExtSector
  OBVIOUS
<1>6. /\ ~shrunk /\ seen = "magic" => m
      /\ ~shrunk /\ seen \in {"no magic", "structure"} /\ step = "LuksCompat" => ~m
  BY <1>3, <1>4, <1>5
<1> QED BY <1>2, <1>5, <1>6 DEF Checks!VerdictIsRight

-----------------------------------------------------------------------------
(* The i-th window of the stream, when it is a full one.                   *)
Tile(i) == [offset |-> (i - 1) * window_size,
            bytes  |-> SubSeq(stream, (i - 1) * window_size + 1, i * window_size)]

ScanTypes ==
  /\ stream \in Seq(Bytes) /\ window_size \in Nat \ {0} /\ threshold \in Int
  /\ windows \in Seq([offset : Nat, bytes : Seq(Bytes)])

(* The scored windows are the first ones of the stream, and the buffer is  *)
(* what was read since.                                                    *)
Filling ==
  /\ taken \in 0 .. Len(stream) /\ buf \in Seq(Bytes) /\ Len(buf) <= window_size
  /\ taken - Len(buf) = Len(windows) * window_size
  /\ buf = SubSeq(stream, Len(windows) * window_size + 1, taken)
  /\ \A i \in 1 .. Len(windows) : windows[i] = Tile(i)

ScanInv ==
  /\ ScanTypes
  /\ scan = "read" => Filling
  /\ WindowsTile
  /\ scan = "EntropyFailed" => threshold >= 0 /\ Scan!Below(threshold)
  /\ scan = "Success" => ~(threshold >= 0 /\ Scan!Below(threshold))

(* Before the first read nothing is scored.                                *)
LEMMA ScanStart == Scan!ScanInit \/ Scan!ScanIdle => ScanInv
<1> SUFFICES ASSUME Scan!ScanInit \/ Scan!ScanIdle PROVE ScanInv
  OBVIOUS
<1>1. scan \in {"read", "idle"} /\ windows = <<>> /\ buf = <<>> /\ taken = 0
  BY DEF Scan!ScanInit, Scan!ScanIdle
<1>2. stream \in Seq(Bytes)
  <2>1. CASE Scan!ScanInit
    <3>1. PICK n \in Nat : stream \in [1 .. n -> Bytes]
      BY <2>1, FileCommandsAssumption DEF Scan!ScanInit, Scan!Streams
    <3> QED BY <3>1
  <2>2. CASE Scan!ScanIdle
    BY <2>2 DEF Scan!ScanIdle
  <2> QED BY <2>1, <2>2
<1>3. window_size \in Nat \ {0} /\ threshold \in Int
  <2>1. (\A w \in WindowSizes : w \in Nat \ {0}) /\ (\A t \in Thresholds : t \in Nat)
    BY FileCommandsAssumption
  <2>2. Scan!NoThreshold \in Int
    BY DEF Scan!NoThreshold
  <2>3. window_size \in WindowSizes \/ window_size = 1
    BY DEF Scan!ScanInit, Scan!ScanIdle
  <2>4. threshold \in Thresholds \/ threshold = Scan!NoThreshold
    BY DEF Scan!ScanInit, Scan!ScanIdle
  <2>5. window_size \in Nat \ {0}
    BY <2>1, <2>3
  <2>6. threshold \in Int
    BY <2>1, <2>2, <2>4
  <2> QED BY <2>5, <2>6
<1>4. Filling
  <2>1. Len(stream) \in Nat /\ 0 * window_size = 0 /\ SubSeq(stream, 1, 0) = <<>>
    BY <1>2, <1>3, SubSeqEmpty
  <2> QED BY <1>1, <1>3, <2>1 DEF Filling
<1> QED BY <1>1, <1>2, <1>3, <1>4 DEF ScanInv, ScanTypes, WindowsTile, Scan!WindowsTile

(* A read adds to the buffer what follows it in the stream.                *)
LEMMA ScanRead == ASSUME ScanInv, NEW n \in Nat, Scan!Read(n) PROVE ScanInv'
<1>1. /\ scan = "read" /\ n \in 1 .. window_size - Len(buf) /\ taken + n <= Len(stream)
      /\ taken' = taken + n
      /\ buf' = buf \o SubSeq(stream, taken + 1, taken + n)
      /\ UNCHANGED <<stream, window_size, threshold, windows, scan>>
  BY DEF Scan!Read
<1>2. ScanTypes /\ Filling
  BY <1>1 DEF ScanInv
<1>3. PICK k \in Nat : k = Len(windows) * window_size /\ k = taken - Len(buf) /\ k <= taken
  <2>1. Len(windows) \in Nat /\ window_size \in Nat
    BY <1>2 DEF ScanTypes
  <2>2. Len(windows) * window_size \in Nat
    BY <2>1
  <2>3. Len(buf) \in Nat /\ Len(stream) \in Nat
    BY <1>2 DEF Filling, ScanTypes
  <2>4. taken \in Nat /\ taken - Len(buf) = Len(windows) * window_size
    BY <1>2, <2>3 DEF Filling
  <2> QED BY <2>2, <2>3, <2>4
<1>4. PICK m \in Nat : m = Len(stream)
  BY <1>2 DEF ScanTypes
<1>5. taken \in Nat /\ Len(buf) \in Nat /\ n \in Nat /\ window_size \in Nat
  BY <1>2 DEF Filling, ScanTypes
<1>6. buf = SubSeq(stream, k + 1, taken)
  BY <1>2, <1>3 DEF Filling
<1>7. buf' = SubSeq(stream, k + 1, taken + n)
  <2>1. /\ k + 1 \in 1 .. m + 1 /\ taken \in (k + 1) - 1 .. m
        /\ taken + n \in taken .. m
    BY <1>1, <1>3, <1>4, <1>5
  <2> QED BY <1>1, <1>2, <1>4, <1>6, <2>1, ConcatAdjacentSubSeq DEF ScanTypes
<1>8. buf' \in Seq(Bytes) /\ Len(buf') = Len(buf) + n
  <2>1. \A i \in k + 1 .. taken + n : stream[i] \in Bytes
    BY <1>1, <1>2, <1>3, <1>4, <1>5 DEF ScanTypes
  <2>2. k + 1 \in Int /\ taken + n \in Int
    BY <1>3, <1>5
  <2>3. SubSeq(stream, k + 1, taken + n) \in Seq(Bytes)
        /\ Len(SubSeq(stream, k + 1, taken + n))
             = IF k + 1 <= taken + n THEN (taken + n) - (k + 1) + 1 ELSE 0
    BY <2>1, <2>2, SubSeqProperties
  <2>4. n >= 1
    BY <1>1
  <2> QED BY <1>3, <1>5, <1>7, <2>3, <2>4
<1>9. Filling'
  <2>1. taken' \in 0 .. Len(stream) /\ taken' - Len(buf') = k /\ Len(buf') <= window_size
    <3>1. PICK b \in Nat : b = Len(buf) /\ Len(buf') = b + n
      BY <1>5, <1>8
    <3>2. taken' = taken + n /\ taken + n <= m /\ n <= window_size - b
      BY <1>1, <1>4, <3>1
    <3> QED BY <1>3, <1>4, <1>5, <3>1, <3>2
  <2>2. \A i \in 1 .. Len(windows) : Tile(i)' = Tile(i)
    BY <1>1 DEF Tile
  <2> QED BY <1>1, <1>2, <1>3, <1>7, <1>8, <2>1, <2>2 DEF Filling
<1> QED BY <1>1, <1>2, <1>9 DEF ScanInv, ScanTypes, WindowsTile, Scan!WindowsTile

(* A window scored when full is the next one of the stream.                *)
LEMMA ScanScore == ASSUME ScanInv, Scan!Score PROVE ScanInv'
<1>1. /\ scan = "read" /\ Len(buf) = window_size
      /\ windows' = Append(windows, [offset |-> taken - Len(buf), bytes |-> buf])
      /\ buf' = <<>>
      /\ UNCHANGED <<stream, window_size, threshold, taken, scan>>
  BY DEF Scan!Score, Scan!Scored
<1>2. ScanTypes /\ Filling
  BY <1>1 DEF ScanInv
<1>3. PICK c \in Nat : c = Len(windows)
  BY <1>2 DEF ScanTypes
<1>4. PICK k \in Nat : k = c * window_size
  BY <1>2, <1>3 DEF ScanTypes
<1>5. /\ taken \in Nat /\ window_size \in Nat /\ taken = k + window_size
      /\ taken - Len(buf) = k /\ taken <= Len(stream)
  BY <1>1, <1>2, <1>3, <1>4 DEF Filling, ScanTypes
<1>6. (c + 1) * window_size = k + window_size /\ (c + 1) - 1 = c
  BY <1>3, <1>4, <1>5
<1>7. [offset |-> taken - Len(buf), bytes |-> buf] = Tile(c + 1)
  BY <1>2, <1>3, <1>4, <1>5, <1>6 DEF Filling, Tile
<1>8. [offset |-> taken - Len(buf), bytes |-> buf] \in [offset : Nat, bytes : Seq(Bytes)]
  BY <1>2, <1>4, <1>5 DEF Filling
<1>9. /\ windows' \in Seq([offset : Nat, bytes : Seq(Bytes)])
      /\ Len(windows') = c + 1
      /\ \A i \in 1 .. c : windows'[i] = windows[i]
      /\ windows'[c + 1] = Tile(c + 1)
  BY <1>1, <1>2, <1>3, <1>7, <1>8, AppendProperties DEF ScanTypes
<1>10. SubSeq(stream, taken + 1, taken) = <<>>
  BY <1>5, SubSeqEmpty
<1>11. \A i : Tile(i)' = Tile(i)
  BY <1>1 DEF Tile
<1>12. Filling'
  <2>1. \A i \in 1 .. c + 1 : windows'[i] = Tile(i)
    <3>1. \A i \in 1 .. c : windows[i] = Tile(i)
      BY <1>2, <1>3 DEF Filling
    <3>2. \A i \in 1 .. c + 1 : i \in 1 .. c \/ i = c + 1
      OBVIOUS
    <3> HIDE DEF Tile
    <3> QED BY <1>9, <3>1, <3>2
  <2>2. Len(windows') * window_size' = taken
    BY <1>1, <1>5, <1>6, <1>9
  <2>3. \A i \in 1 .. Len(windows') : windows'[i] = Tile(i)'
    BY <1>9, <1>11, <2>1
  <2>4. buf' = SubSeq(stream', Len(windows') * window_size' + 1, taken')
    BY <1>1, <1>10, <2>2
  <2>5. /\ taken' \in 0 .. Len(stream') /\ buf' \in Seq(Bytes)
        /\ Len(buf') = 0 /\ Len(buf') <= window_size'
    BY <1>1, <1>2, <1>5 DEF Filling
  <2>6. taken' - Len(buf') = Len(windows') * window_size'
    BY <1>1, <1>5, <2>2, <2>5
  <2> QED BY <2>3, <2>4, <2>5, <2>6 DEF Filling
<1> QED BY <1>1, <1>2, <1>9, <1>12 DEF ScanInv, ScanTypes, WindowsTile, Scan!WindowsTile

(* At the end of the stream what is left in the buffer is the last window. *)
LEMMA ScanEnd == ASSUME ScanInv, Scan!EndOfStream PROVE ScanInv'
<1>1. /\ scan = "read" /\ Len(buf) < window_size /\ taken = Len(stream) /\ scan' = "gate"
      /\ windows' = IF buf = <<>> THEN windows
                    ELSE Append(windows, [offset |-> taken - Len(buf), bytes |-> buf])
      /\ UNCHANGED <<stream, window_size, threshold, taken>>
  BY DEF Scan!EndOfStream, Scan!Scored
<1>2. ScanTypes /\ Filling
  BY <1>1 DEF ScanInv
<1>3. PICK c \in Nat : c = Len(windows)
  BY <1>2 DEF ScanTypes
<1>4. PICK k \in Nat : k = c * window_size
  BY <1>2, <1>3 DEF ScanTypes
<1>5. PICK r \in Nat : r = Len(buf) /\ r \in 0 .. window_size - 1
  <2>1. Len(buf) \in Nat /\ window_size \in Nat
    BY <1>2 DEF Filling, ScanTypes
  <2> QED BY <1>1, <2>1
<1>6. window_size \in Nat \ {0} /\ taken = k + r /\ taken \in Nat /\ r \in Nat
  <2>1. window_size \in Nat \ {0} /\ Len(stream) \in Nat
    BY <1>2 DEF ScanTypes
  <2>2. taken - r = k
    BY <1>2, <1>3, <1>4, <1>5 DEF Filling
  <2> QED BY <1>1, <1>4, <1>5, <2>1, <2>2
<1>7. \A i \in 1 .. c : windows[i] = Tile(i)
  BY <1>2, <1>3 DEF Filling
<1>8. Scan!WindowsTile' <=>
         /\ Len(windows') = (taken + window_size - 1) \div window_size
         /\ \A j \in DOMAIN windows' :
              windows'[j] =
                [offset |-> (j - 1) * window_size,
                 bytes  |-> SubSeq(stream, (j - 1) * window_size + 1,
                                   IF j = Len(windows') THEN taken ELSE j * window_size)]
  BY <1>1 DEF Scan!WindowsTile
<1>9. CASE buf = <<>>
  <2>1. r = 0 /\ windows' = windows
    BY <1>1, <1>5, <1>9
  <2>2. (c * window_size + (window_size - 1)) \div window_size = c
    <3>1. window_size - 1 \in 0 .. window_size - 1
      BY <1>6
    <3> QED BY <1>6, <3>1, DivModUnique
  <2>3. taken + window_size - 1 = c * window_size + (window_size - 1)
    BY <1>4, <1>6, <2>1
  <2>4. \A j \in 1 .. c : windows[j] =
          [offset |-> (j - 1) * window_size,
           bytes  |-> SubSeq(stream, (j - 1) * window_size + 1,
                             IF j = c THEN taken ELSE j * window_size)]
    BY <1>4, <1>6, <1>7, <2>1 DEF Tile
  <2>5. DOMAIN windows = 1 .. c
    BY <1>2, <1>3 DEF ScanTypes
  <2>6. WindowsTile'
    BY <1>3, <1>8, <2>1, <2>2, <2>3, <2>4, <2>5 DEF WindowsTile
  <2> QED BY <1>1, <1>2, <2>1, <2>6 DEF ScanInv, ScanTypes
<1>10. CASE buf # <<>>
  <2>1. r > 0
    <3>1. buf \in Seq(Bytes)
      BY <1>2 DEF Filling
    <3> QED BY <1>5, <1>10, <3>1
  <2>2. PICK w : w = [offset |-> taken - Len(buf), bytes |-> buf]
    OBVIOUS
  <2>3. w = [offset |-> k, bytes |-> SubSeq(stream, k + 1, taken)]
        /\ w \in [offset : Nat, bytes : Seq(Bytes)]
    BY <1>2, <1>3, <1>4, <1>5, <1>6, <2>2 DEF Filling
  <2>4. /\ windows' = Append(windows, w)
        /\ windows' \in Seq([offset : Nat, bytes : Seq(Bytes)])
        /\ Len(windows') = c + 1 /\ DOMAIN windows' = 1 .. c + 1
        /\ \A i \in 1 .. c : windows'[i] = windows[i]
        /\ windows'[c + 1] = w
    <3>1. windows' = Append(windows, w)
      BY <1>1, <1>10, <2>2
    <3>2. /\ windows' \in Seq([offset : Nat, bytes : Seq(Bytes)])
          /\ Len(windows') = c + 1
          /\ \A i \in 1 .. c : windows'[i] = windows[i]
          /\ windows'[c + 1] = w
      BY <1>2, <1>3, <2>3, <3>1, AppendProperties DEF ScanTypes
    <3> QED BY <3>1, <3>2
  <2>5. ((c + 1) * window_size + (r - 1)) \div window_size = c + 1
    <3>1. r - 1 \in 0 .. window_size - 1 /\ c + 1 \in Nat
      BY <1>5, <1>6, <2>1
    <3> QED BY <1>6, <3>1, DivModUnique
  <2>6. taken + window_size - 1 = (c + 1) * window_size + (r - 1)
    <3>1. (c + 1) * window_size = k + window_size
      BY <1>4, <1>6
    <3> QED BY <1>6, <3>1
  <2>7. \A j \in 1 .. c + 1 : windows'[j] =
          [offset |-> (j - 1) * window_size,
           bytes  |-> SubSeq(stream, (j - 1) * window_size + 1,
                             IF j = c + 1 THEN taken ELSE j * window_size)]
    <3>1. ASSUME NEW j \in 1 .. c PROVE windows'[j] = Tile(j) /\ j # c + 1
      BY <1>7, <2>4
    <3>2. (c + 1) - 1 = c
      OBVIOUS
    <3>3. \A j \in 1 .. c + 1 : j \in 1 .. c \/ j = c + 1
      OBVIOUS
    <3> QED BY <1>4, <2>3, <2>4, <3>1, <3>2, <3>3 DEF Tile
  <2>8. WindowsTile'
    BY <1>8, <2>4, <2>5, <2>6, <2>7 DEF WindowsTile
  <2> QED BY <1>1, <1>2, <2>4, <2>8 DEF ScanInv, ScanTypes
<1> QED BY <1>9, <1>10

(* Every step of entropy keeps its part.                                   *)
LEMMA ScanStepInv == ASSUME ScanInv, Scan!ScanNext PROVE ScanInv'
<1>1. ASSUME NEW n \in 1 .. MaxStream, Scan!Read(n) PROVE ScanInv'
  BY <1>1, ScanRead, FileCommandsAssumption
<1>2. CASE Scan!ReadFails
  BY <1>2 DEF Scan!ReadFails, ScanInv, ScanTypes, WindowsTile, Scan!WindowsTile
<1>3. CASE Scan!Gate
  <2>1. /\ scan = "gate" /\ UNCHANGED <<stream, window_size, threshold, taken, buf, windows>>
        /\ scan' = IF threshold >= 0 /\ Scan!Below(threshold)
                   THEN "EntropyFailed" ELSE "Success"
    BY <1>3 DEF Scan!Gate
  <2>2. Scan!Below(threshold)' <=> Scan!Below(threshold)
    BY <2>1 DEF Scan!Below
  <2>3. ScanTypes' /\ WindowsTile'
    BY <2>1 DEF ScanInv, ScanTypes, WindowsTile, Scan!WindowsTile
  <2>4. threshold' = threshold
    BY <2>1
  <2>5. CASE threshold >= 0 /\ Scan!Below(threshold)
    <3>1. scan' = "EntropyFailed"
      BY <2>1, <2>5
    <3> QED BY <2>2, <2>3, <2>4, <2>5, <3>1 DEF ScanInv
  <2>6. CASE ~(threshold >= 0 /\ Scan!Below(threshold))
    <3>1. scan' = "Success"
      BY <2>1, <2>6
    <3> QED BY <2>2, <2>3, <2>4, <2>6, <3>1 DEF ScanInv
  <2> QED BY <2>5, <2>6
<1>4. CASE Scan!ScanOver
  <2>1. scan # "read" /\ UNCHANGED <<stream, window_size, threshold, taken, buf, windows, scan>>
    BY <1>4 DEF Scan!ScanOver, Scan!scanVars
  <2>2. Scan!Below(threshold)' <=> Scan!Below(threshold)
    BY <2>1 DEF Scan!Below
  <2> QED BY <2>1, <2>2 DEF ScanInv, ScanTypes, WindowsTile, Scan!WindowsTile
<1> QED BY <1>1, <1>2, <1>3, <1>4, ScanScore, ScanEnd DEF Scan!ScanNext

(* What the windows make of the gate.                                      *)
LEMMA GateVerdict == ScanInv => GateIsRight
<1> SUFFICES ASSUME ScanInv, threshold >= 0, scan \in {"Success", "EntropyFailed"}
             PROVE  GateIsRight
  BY DEF GateIsRight, Scan!GateIsRight
<1>1. scan = "EntropyFailed" <=> Scan!Below(threshold)
  BY DEF ScanInv
<1>2. /\ stream \in Seq(Bytes) /\ window_size \in Nat \ {0} /\ threshold \in Int
      /\ Len(stream) \in Nat /\ Len(windows) \in Nat /\ DOMAIN windows = 1 .. Len(windows)
  BY DEF ScanInv, ScanTypes
<1> DEFINE stretch(k) == SubSeq(stream, k * window_size + 1,
                                IF (k + 1) * window_size < Len(stream)
                                THEN (k + 1) * window_size ELSE Len(stream))
           last == (Len(stream) - 1) \div window_size
           weak == \E k \in 0 .. last : ~Scan!ScoresAtLeast(stretch(k), threshold)
<1>3. /\ Len(windows) = (Len(stream) + window_size - 1) \div window_size
      /\ \A i \in DOMAIN windows :
           windows[i].bytes =
             SubSeq(stream, (i - 1) * window_size + 1,
                    IF i = Len(windows) THEN Len(stream) ELSE i * window_size)
  BY DEF ScanInv, WindowsTile, Scan!WindowsTile
<1>4. CASE stream = <<>>
  <2>1. (0 * window_size + (window_size - 1)) \div window_size = 0
    <3>1. 0 \in Nat /\ window_size - 1 \in 0 .. window_size - 1
      BY <1>2
    <3> HIDE DEF stretch, last, weak
    <3> QED BY <1>2, <3>1, DivModUnique
  <2>2. Len(windows) = 0
    <3>1. Len(stream) = 0 /\ 0 + window_size - 1 = 0 * window_size + (window_size - 1)
      BY <1>2, <1>4
    <3> QED BY <1>3, <2>1, <3>1
  <2>3. windows = <<>>
    BY <2>2 DEF ScanInv, ScanTypes
  <2>4. scan = "EntropyFailed" <=> threshold > 0
    BY <1>1, <1>2, <2>3 DEF Scan!Below
  <2> QED BY <1>4, <2>4 DEF GateIsRight, Scan!GateIsRight
<1>5. CASE stream # <<>>
  <2>1. PICK n \in Nat : Len(stream) = n + 1
    <3>1. Len(stream) > 0
      BY <1>2, <1>5
    <3> QED BY <1>2, <3>1
  <2>2. PICK q \in Nat, r \in 0 .. window_size - 1 :
          q = n \div window_size /\ n = window_size * q + r
    BY <1>2, DivMod
  <2>3. last = q
    BY <2>1, <2>2
  <2>4. PICK p \in Nat : p = q * window_size /\ n = p + r
    BY <1>2, <2>2
  <2>5. Len(windows) = q + 1
    <3>1. ((q + 1) * window_size + r) \div window_size = q + 1
      <4>1. q + 1 \in Nat
        OBVIOUS
      <4> HIDE DEF last
      <4> QED BY <1>2, <2>2, <4>1, DivModUnique
    <3>2. (q + 1) * window_size = p + window_size
      BY <1>2, <2>4
    <3>3. Len(stream) + window_size - 1 = (q + 1) * window_size + r
      BY <1>2, <2>1, <2>4, <3>2
    <3> QED BY <1>3, <3>1, <3>3
  <2>6. \A k \in 0 .. q : windows[k + 1].bytes = stretch(k)
    <3> SUFFICES ASSUME NEW k \in 0 .. q PROVE windows[k + 1].bytes = stretch(k)
      OBVIOUS
    <3>1. k + 1 \in 1 .. q + 1 /\ (k + 1) - 1 = k
      OBVIOUS
    <3>2. windows[k + 1].bytes =
            SubSeq(stream, k * window_size + 1,
                   IF k + 1 = q + 1 THEN Len(stream) ELSE (k + 1) * window_size)
      BY <1>2, <1>3, <2>5, <3>1
    <3>3. CASE k = q
      <4>1. (q + 1) * window_size = p + window_size
        BY <1>2, <2>4
      <4>2. ~((q + 1) * window_size < Len(stream))
        BY <1>2, <2>1, <2>4, <4>1
      <4> QED BY <3>2, <3>3, <4>2
    <3>4. CASE k # q
      <4>1. PICK d \in Nat : q = (k + 1) + d
        <5>1. q - (k + 1) \in Nat /\ q = (k + 1) + (q - (k + 1))
          BY <3>4
        <5> QED BY <5>1
      <4>2. q * window_size = (k + 1) * window_size + d * window_size
            /\ d * window_size \in Nat /\ (k + 1) * window_size \in Nat
        BY <1>2, <4>1
      <4>3. (k + 1) * window_size < Len(stream)
        BY <1>2, <2>1, <2>4, <4>2
      <4>4. k + 1 # q + 1
        BY <3>4
      <4> QED BY <3>2, <4>3, <4>4
    <3> QED BY <3>3, <3>4
  <2> HIDE DEF stretch
  <2>7. windows # <<>>
    BY <2>5
  <2>8. Scan!Below(threshold) <=>
          \E i \in 1 .. q + 1 : ~Scan!ScoresAtLeast(windows[i].bytes, threshold)
    BY <1>2, <2>5, <2>7 DEF Scan!Below
  <2>9. (\E i \in 1 .. q + 1 : ~Scan!ScoresAtLeast(windows[i].bytes, threshold))
        <=> \E k \in 0 .. q : ~Scan!ScoresAtLeast(stretch(k), threshold)
    <3>1. \A k \in 0 .. q : k + 1 \in 1 .. q + 1
      OBVIOUS
    <3>2. \A i \in 1 .. q + 1 : i - 1 \in 0 .. q /\ (i - 1) + 1 = i
      OBVIOUS
    <3> QED BY <2>6, <3>1, <3>2
  <2>10. scan = "EntropyFailed" <=> weak
    BY <1>1, <2>3, <2>8, <2>9
  <2> QED BY <1>5, <2>10 DEF GateIsRight, Scan!GateIsRight, stretch
<1> QED BY <1>4, <1>5

-----------------------------------------------------------------------------
(* Each command keeps its own part and leaves the others alone.            *)
Inv == AlignInv /\ ChecksInv /\ ScanInv

(* What is untouched stays as it is.                                       *)
LEMMA Untouched ==
  /\ AlignInv /\ UNCHANGED alignVars => AlignInv' /\ last_data' = last_data
  /\ ChecksInv /\ UNCHANGED checkVars => ChecksInv'
  /\ ScanInv /\ UNCHANGED scanVars => ScanInv'
<1>1. ASSUME AlignInv, UNCHANGED alignVars PROVE AlignInv' /\ last_data' = last_data
  BY <1>1 DEF alignVars, AlignInv, Align!InWindow, Align!Lengths
<1>2. ASSUME ChecksInv, UNCHANGED checkVars PROVE ChecksInv'
  <2>1. UNCHANGED <<magic, length, odd, fits, keyed, volume_size, head, step, seen, shrunk>>
    BY <1>2 DEF checkVars
  <2>2. /\ Checks!head_sectors' = Checks!head_sectors
        /\ \A s : Checks!Volume(s)' = Checks!Volume(s)
    BY <2>1 DEF Checks!head_sectors, Checks!Volume
  <2> QED BY <1>2, <2>1, <2>2 DEF ChecksInv, MagicWithin
<1>3. ASSUME ScanInv, UNCHANGED scanVars PROVE ScanInv'
  <2>1. UNCHANGED <<stream, window_size, threshold, taken, buf, windows, scan>>
    BY <1>3 DEF scanVars
  <2>2. Scan!Below(threshold)' <=> Scan!Below(threshold)
    BY <2>1 DEF Scan!Below
  <2>3. Filling' <=> Filling
    BY <2>1 DEF Filling, Tile
  <2>4. ScanTypes' /\ WindowsTile' /\ scan' = scan /\ threshold' = threshold
    BY <1>3, <2>1 DEF ScanInv, ScanTypes, WindowsTile, Scan!WindowsTile
  <2> QED BY <1>3, <2>2, <2>3, <2>4 DEF ScanInv
<1> QED BY <1>1, <1>2, <1>3

LEMMA InitInv == FilesInit => Inv
BY AlignStart, ChecksStart, ScanStart DEF FilesInit, Inv

LEMMA StepInv == Inv /\ [FilesNext]_filesVars => Inv' /\ (last_data' < last_data => overtaken)
<1> SUFFICES ASSUME Inv, [FilesNext]_filesVars PROVE Inv' /\ (last_data' < last_data => overtaken)
  OBVIOUS
<1>1. last_data' = last_data => ~(last_data' < last_data)
  BY LengthFacts DEF Inv, AlignInv
<1>2. CASE AlignStep
  BY <1>2, AlignStepInv, Untouched DEF AlignStep, Inv
<1>3. CASE ValidateStep
  BY <1>1, <1>3, ChecksStepInv, Untouched DEF ValidateStep, Inv
<1>4. CASE EntropyStep
  BY <1>1, <1>4, ScanStepInv, Untouched DEF EntropyStep, Inv
<1>5. CASE UNCHANGED filesVars
  BY <1>1, <1>5, Untouched DEF filesVars, Inv
<1> QED BY <1>2, <1>3, <1>4, <1>5 DEF FilesNext

LEMMA SpecInv == FilesSpec => []Inv
<1>1. Inv /\ [FilesNext]_filesVars => Inv'
  BY StepInv
<1> QED BY InitInv, <1>1, PTL DEF FilesSpec

(* A file that align fix made right is right for align check, and for any  *)
(* run with the same alignment, until something else changes its length:   *)
(* whatever lengths the other runs measured before (cmd/align.rs:79-127).  *)
THEOREM FixIsSeen == FilesSpec => []FixThenCheckPasses
<1>1. Inv => FixThenCheckPasses
  <2> SUFFICES ASSUME Inv, NEW a \in fixed PROVE Align!IsAligned(file_length, a)
    BY DEF FixThenCheckPasses, Align!FixThenCheckPasses
  <2>1. a \in Nat \ {0} /\ file_length % a = 0
    BY DEF Inv, AlignInv
  <2> QED BY <2>1 DEF Align!IsAligned
<1> QED BY SpecInv, <1>1, PTL

(* A fix takes data away only if another program appended between its stat *)
(* and its set_len: neither a rounding at the top of u64 nor a second fix  *)
(* with another alignment does (cmd/align.rs:79-127).                      *)
THEOREM CutIsOvertaken == FilesSpec => CutsOnlyWhatOvertook
<1>1. Inv /\ [FilesNext]_filesVars => [last_data' < last_data => overtaken]_filesVars
  BY StepInv
<1> QED BY SpecInv, <1>1, PTL DEF FilesSpec, CutsOnlyWhatOvertook

(* What validate says of a volume nobody truncated is so, whatever its     *)
(* size, its cipher and its contents (cmd/validate.rs).                    *)
THEOREM VerdictHolds == FilesSpec => []VerdictIsRight
<1>1. Inv => VerdictIsRight
  BY ChecksVerdict DEF Inv, VerdictIsRight
<1> QED BY SpecInv, <1>1, PTL

(* However many bytes each read delivers, the windows tile the stream.     *)
THEOREM ScanTiles == FilesSpec => []WindowsTile
<1>1. Inv => WindowsTile
  BY DEF Inv, ScanInv
<1> QED BY SpecInv, <1>1, PTL

(* entropy --threshold fails exactly on the streams that have a stretch    *)
(* below it, whatever the score is of a stretch (cmd/entropy.rs:69-77).    *)
THEOREM GateHolds == FilesSpec => []GateIsRight
<1>1. Inv => GateIsRight
  BY GateVerdict DEF Inv
<1> QED BY SpecInv, <1>1, PTL
=============================================================================
