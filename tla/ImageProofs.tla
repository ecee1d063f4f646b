---------------------------- MODULE ImageProofs ----------------------------
(***************************************************************************)
(* For every sector size, u64, session of commands and starting files:     *)
(* what image encrypt and image decrypt leave in the files when they       *)
(* return, whatever earlier commands, kills and other programs did to them.*)
(*                                                                         *)
(* The invariant follows one command: until it opens its output nothing of *)
(* the files has changed but an input that was truncated; from its stat on *)
(* it knows the length the input had.  While it transfers, every sector is *)
(* in one of three places: in a range not read yet, where the input still  *)
(* holds what it held; in a buffer, enciphered; or in the output.  Of an   *)
(* input that was truncated only what the truncation has left can be read, *)
(* and that is as it was.                                                  *)
(***************************************************************************)
EXTENDS ImageCommand, SectorProofs, SequenceTheorems, TLAPS

FileType == [exists : BOOLEAN, len : Nat, at : [Sectors -> Content]]

Opening == {"spec", "key", "stat", "size", "open_in", "open_out"}
Steps   == Opening \cup {"idle", "transfer", "compat", "exited", "killed"}

TypeOK ==
  /\ session \in Sessions /\ started \in Nat /\ shrunk \in BOOLEAN
  /\ files \in [Paths -> FileType] /\ before \in [Paths -> FileType]
  /\ inLen \in Nat /\ outSize \in Nat
  /\ pc \in Steps /\ code \in Codes \cup {"none"}
  /\ \A s \in DOMAIN buf : buf[s] \in Content
  /\ started > 0 => cmd \in CommandType
  /\ pc # "idle" => started > 0

Frame ==
  /\ started > 0 => \A p \in Paths \ {cmd.output} :
       shrunk = FALSE \/ p # cmd.input => files[p] = before[p]
  /\ pc \in Opening /\ shrunk = FALSE => files = before
  /\ pc \in {"spec", "key", "stat", "size"} => shrunk = FALSE
  /\ pc # "exited" => code = "none"
  /\ code \in {"UnsupportedCipher", "KeyValidation", "InvalidArgs"} /\ shrunk = FALSE =>
       files = before

(* The lengths the command goes by are those of the files it started with. *)
Sizes ==
  /\ pc \in {"size", "open_in", "open_out", "transfer", "compat"} \/ Completed =>
       inLen = Source.len
  /\ pc \in {"open_in", "open_out", "transfer", "compat"} \/ Completed =>
       outSize = PromisedLen /\ outSize >= inLen
  /\ pc = "size" => cmd.op = "encrypt"
  /\ pc \in {"transfer", "compat"} \/ Completed => outSize <= OffMax
  /\ pc \in {"open_in", "open_out", "transfer"} /\ shrunk = TRUE
       /\ cmd.input # cmd.output =>
       /\ files[cmd.input].len < Source.len
       /\ files[cmd.input] = Resized(Source, files[cmd.input].len)

(* In place, what a truncation took away set_len gives back as zeros.      *)
Whole == shrunk = TRUE => cmd.input # cmd.output

(* What CompleteOnSuccess says of a sector, and of the output.             *)
Goal(s) == Crypt(Dir, s, Kept(Source.at[s], Source.len - s * SectorSize))

Done ==
  /\ files[cmd.output].len = TotalSectors(PromisedLen) * SectorSize
  /\ \A s \in 0 .. TotalSectors(PromisedLen) - 1 : files[cmd.output].at[s] = Goal(s)

(* The sectors of the ranges not read yet.                                 *)
Ahead == UNION {SectorsOf(Total, k) : k \in unread}

Places ==
  /\ unread \subseteq RangeIds(Total)
  /\ DOMAIN buf \subseteq 0 .. Total - 1
  /\ DOMAIN buf \cap Ahead = {}

Contents ==
  /\ outSize <= files[cmd.output].len /\ files[cmd.output].len <= Total * SectorSize
  /\ \A s \in 0 .. Total - 1 :
       /\ s \in Ahead /\ cmd.input = cmd.output =>
            files[cmd.input].at[s] = Resized(Source, outSize).at[s]
       /\ s \in DOMAIN buf => buf[s] = Goal(s)
       /\ s \notin Ahead \cup DOMAIN buf =>
            files[cmd.output].at[s] = Goal(s) /\ files[cmd.output].len >= (s + 1) * SectorSize

UnderWay ==
  /\ pc # "transfer" => DOMAIN buf = {}
  /\ pc = "transfer" => Places /\ (Whole => Contents)

Finished == (pc = "compat" \/ Completed) /\ Whole => Done

Inv == TypeOK /\ Frame /\ Sizes /\ UnderWay /\ Finished

-----------------------------------------------------------------------------
(* The sectors of a length, the last one perhaps in part.                  *)
LEMMA TotalFacts ==
  ASSUME NEW n \in Nat
  PROVE  /\ TotalSectors(n) \in Nat /\ TotalSectors(n) * SectorSize \in Nat
         /\ TotalSectors(n) * SectorSize >= n
         /\ (TotalSectors(n) - 1) * SectorSize < n
         /\ n = 0 => TotalSectors(n) = 0
<1>1. SectorSize \in Nat \ {0}
  BY SectorSizeAssumption
<1>2. /\ TotalSectors(n) \in Nat /\ TotalSectors(n) * SectorSize >= n
      /\ (TotalSectors(n) - 1) * SectorSize < n
      /\ n = 0 => TotalSectors(n) = 0
  BY <1>1, DivCeilBounds DEF TotalSectors
<1> QED BY <1>1, <1>2

(* A longer file has no fewer of them.                                     *)
LEMMA TotalGrows ==
  ASSUME NEW n \in Nat, NEW m \in Nat, n <= m
  PROVE  TotalSectors(n) <= TotalSectors(m)
<1>1. PICK a \in Nat, b \in Nat, z \in Nat \ {0} :
        /\ a = TotalSectors(n) /\ b = TotalSectors(m) /\ z = SectorSize
        /\ (a - 1) * z < n /\ b * z >= m
  BY TotalFacts, SectorSizeAssumption
<1>2. ASSUME a > b PROVE FALSE
  <2>1. PICK d \in Nat : a - 1 = b + d
    <3>1. a - 1 - b \in Nat /\ a - 1 = b + (a - 1 - b)
      BY <1>2
    <3> QED BY <3>1
  <2>2. (a - 1) * z = b * z + d * z /\ d * z \in Nat /\ b * z \in Nat
    BY <2>1
  <2> QED BY <1>1, <2>2
<1> QED BY <1>1, <1>2

(* The numbers the lengths and the sectors are taken from.                 *)
LEMMA Bounds ==
  /\ U64Max \in Nat /\ OffMax \in Nat
  /\ SectorSize \in Nat \ {0} /\ Sectors \subseteq Nat
  /\ \A s \in Sectors : s * SectorSize \in Nat
<1>1. U64Max \in Nat /\ OffMax \in Nat
  BY ImageCommandAssumption DEF OffMax
<1>2. SectorSize \in Nat \ {0}
  BY SectorSizeAssumption
<1>3. TotalSectors(OffMax) \in Nat
  BY <1>1, TotalFacts
<1>4. Sectors \subseteq Nat
  BY <1>3 DEF Sectors
<1> QED BY <1>1, <1>2, <1>4

(* aligned_output_size rounds up and adds, so it gives at least the length.*)
LEMMA SizeFacts ==
  ASSUME NEW n \in Nat, NEW a \in Nat \ {0}, NEW x \in Nat
  PROVE  (DivCeil(n, a) + x) * a \in Nat /\ (DivCeil(n, a) + x) * a >= n
<1>1. PICK q \in Nat : q = DivCeil(n, a) /\ q * a >= n
  BY DivCeilBounds
<1>2. (q + x) * a = q * a + x * a /\ x * a \in Nat /\ q * a \in Nat
  OBVIOUS
<1> QED BY <1>1, <1>2

(* Bytes that no cipher has touched yet.                                   *)
LEMMA FreshType ==
  ASSUME NEW b \in {"data", "zero", "old", "torn"}, NEW s \in Nat
  PROVE  Fresh(b, s) \in Content /\ Fresh(b, s).ops = <<>> /\ Zero \in Content /\ Zero.ops = <<>>
BY EmptySeq DEF Fresh, Content, Zero

(* What set_len keeps of a sector is again a sector.                       *)
LEMMA KeptType ==
  ASSUME NEW c \in Content, NEW n \in Int
  PROVE  Kept(c, n) \in Content
<1>1. SectorSize \in Nat
  BY Bounds
<1> QED BY <1>1, PaddedType DEF Kept

(* Padding a sector to the same length a second time changes nothing.      *)
LEMMA KeptTwice ==
  ASSUME NEW c \in Content, NEW n \in Int
  PROVE  Kept(Kept(c, n), n) = Kept(c, n)
<1> DEFINE cut == [op |-> "cut", arg |-> <<n, 0>>]
<1>1. SectorSize \in Nat \ {0} /\ Len(c.ops) \in Nat
  BY Bounds, LenProperties DEF Content
<1>2. CASE c.ops # <<>> /\ c.ops[Len(c.ops)] = cut
  BY <1>2 DEF Kept
<1>3. CASE ~(c.ops # <<>> /\ c.ops[Len(c.ops)] = cut)
  <2>1. Kept(c, n) = Padded(c, n, SectorSize)
    BY <1>3 DEF Kept
  <2>2. CASE n >= SectorSize
    BY <1>3, <2>1, <2>2 DEF Kept, Padded
  <2>3. CASE n < SectorSize /\ n <= 0
    <3>1. Kept(c, n) = Zero
      BY <1>1, <2>1, <2>3 DEF Padded
    <3>2. Padded(Zero, n, SectorSize) = Zero
      BY <1>1, <2>3 DEF Padded
    <3>3. Zero.ops = <<>>
      BY FreshType
    <3> QED BY <3>1, <3>2, <3>3 DEF Kept
  <2>4. CASE n < SectorSize /\ ~(n <= 0)
    <3>1. Kept(c, n) = [c EXCEPT !.ops = Append(c.ops, cut)]
      BY <1>1, <2>1, <2>4 DEF Padded
    <3>2. Append(c.ops, cut)[Len(Append(c.ops, cut))] = cut /\ Append(c.ops, cut) # <<>>
      <4>1. cut \in Cuts
        BY <1>1, <2>4 DEF Cuts
      <4>2. c.ops \in Seq(Ops \cup Cuts) /\ cut \in Ops \cup Cuts
        BY <4>1 DEF Content
      <4> HIDE DEF cut
      <4>3. /\ Len(Append(c.ops, cut)) = Len(c.ops) + 1
            /\ Append(c.ops, cut)[Len(c.ops) + 1] = cut
            /\ Append(c.ops, cut) # <<>>
        BY <4>2, AppendProperties
      <4> QED BY <4>3
    <3>3. [c EXCEPT !.ops = Append(c.ops, cut)].ops = Append(c.ops, cut)
      BY DEF Content
    <3> HIDE DEF cut
    <3> QED BY <3>1, <3>2, <3>3 DEF Kept, cut
  <2> QED BY <1>1, <2>2, <2>3, <2>4
<1> QED BY <1>2, <1>3

(* Of no bytes nothing is kept: a cut keeps at least one.                  *)
LEMMA NothingKept ==
  ASSUME NEW c \in Content, NEW n \in Int, n <= 0
  PROVE  Kept(c, n) = Zero
<1>1. SectorSize \in Nat \ {0}
  BY Bounds
<1>2. c.ops # <<>> => c.ops[Len(c.ops)] \in Ops \cup Cuts
  <2>1. c.ops \in Seq(Ops \cup Cuts)
    BY DEF Content
  <2>2. c.ops # <<>> => Len(c.ops) \in 1 .. Len(c.ops)
    BY <2>1, EmptySeq, LenProperties
  <2> QED BY <2>1, <2>2, ElementOfSeq
<1>3. [op |-> "cut", arg |-> <<n, 0>>] \notin Ops \cup Cuts
  BY DEF Ops, Cuts
<1>4. Kept(c, n) = Padded(c, n, SectorSize)
  BY <1>2, <1>3 DEF Kept
<1> QED BY <1>1, <1>4 DEF Padded

(* set_len keeps a file a file.                                            *)
LEMMA ResizedType ==
  ASSUME NEW f \in FileType, NEW n \in Nat
  PROVE  /\ Resized(f, n) \in FileType /\ Resized(f, n).len = n
         /\ \A s \in Sectors :
              Resized(f, n).at[s] = Kept(f.at[s], Least(f.len, n) - s * SectorSize)
<1>1. f.len \in Nat /\ Least(f.len, n) \in Nat
  BY DEF FileType, Least
<1>2. ASSUME NEW s \in Sectors
      PROVE  Kept(f.at[s], Least(f.len, n) - s * SectorSize) \in Content
  <2>1. f.at[s] \in Content
    BY DEF FileType
  <2>2. Least(f.len, n) - s * SectorSize \in Int
    BY <1>1, Bounds
  <2> QED BY <2>1, <2>2, KeptType
<1> QED BY <1>2 DEF Resized, FileType

-----------------------------------------------------------------------------
(* Before the first command nothing is claimed of the files.               *)
LEMMA InitInv == Init => Inv
<1> SUFFICES ASSUME Init PROVE Inv
  OBVIOUS
<1>1. /\ session \in Sessions /\ pc = "idle" /\ inLen = 0 /\ outSize = 0 /\ code = "none"
      /\ started = 0 /\ before = files /\ shrunk = FALSE /\ buf = <<>>
  BY DEF Init
<1>2. session.lens \subseteq Nat /\ session.stale \in Nat
  <2>1. session.lens \subseteq 0 .. U64Max \div 2 /\ session.stale \in 0 .. U64Max \div 2
    BY <1>1, ImageCommandAssumption
  <2>2. U64Max \div 2 \in Nat
    BY Bounds DEF OffMax
  <2> QED BY <2>1, <2>2
<1>3. \A s \in Sectors : Zero \in Content /\ Fresh("data", s) \in Content
                         /\ Fresh("old", s) \in Content
  BY Bounds, FreshType
<1>4. Absent \in FileType /\ Stale \in FileType
  BY <1>2, <1>3 DEF Absent, Stale, FileType
<1>5. \A n \in InputLens : Image(n) \in FileType
  BY <1>2, <1>3 DEF Image, FileType, InputLens
<1>6. files \in [Paths -> FileType]
  <2>1. PICK n \in InputLens, old \in {Absent, Stale} :
          files = [p \in Paths |-> CASE p = "img" -> Image(n)
                                     [] p = "enc" -> old
                                     [] OTHER     -> Absent]
    BY DEF Init
  <2> QED BY <1>4, <1>5, <2>1
<1>7. TypeOK
  <2>1. started \in Nat /\ ~(started > 0) /\ inLen \in Nat /\ outSize \in Nat
    BY <1>1
  <2>2. shrunk \in BOOLEAN /\ pc \in Steps /\ code \in Codes \cup {"none"} /\ pc = "idle"
    BY <1>1 DEF Steps
  <2> QED BY <1>1, <1>6, <2>1, <2>2 DEF TypeOK
<1>8. Frame /\ Sizes /\ UnderWay /\ Finished
  BY <1>1 DEF Frame, Sizes, UnderWay, Finished, Opening, Completed
<1> QED BY <1>7, <1>8 DEF Inv

(* A new command starts with the files as the last one has left them.      *)
LEMMA BeginInv == ASSUME Inv, Begin PROVE Inv'
<1>1. /\ cmd' \in session.commands
      /\ pc' = "spec" /\ started' = started + 1 /\ before' = files
      /\ inLen' = 0 /\ outSize' = 0 /\ code' = "none" /\ shrunk' = FALSE
      /\ pc # "transfer" /\ UNCHANGED <<session, files, unread, buf>>
  BY DEF Begin, Commands, transferVars
<1>2. cmd' \in CommandType
  BY <1>1, ImageCommandAssumption DEF Inv, TypeOK
<1>3. TypeOK'
  <2>1. started' \in Nat /\ started' > 0 /\ inLen' \in Nat /\ outSize' \in Nat
    BY <1>1 DEF Inv, TypeOK
  <2>2. shrunk' \in BOOLEAN /\ pc' \in Steps /\ code' \in Codes \cup {"none"}
    BY <1>1 DEF Steps, Opening
  <2>3. session' \in Sessions /\ files' \in [Paths -> FileType] /\ before' \in [Paths -> FileType]
    BY <1>1 DEF Inv, TypeOK
  <2>4. \A s \in DOMAIN buf' : buf'[s] \in Content
    BY <1>1 DEF Inv, TypeOK
  <2> QED BY <1>2, <2>1, <2>2, <2>3, <2>4 DEF TypeOK
<1>4. Frame' /\ Sizes' /\ UnderWay' /\ Finished'
  BY <1>1 DEF Inv, Frame, Sizes, UnderWay, Finished, Completed, Opening
<1> QED BY <1>3, <1>4 DEF Inv

(* Within a command its promise stands, and Done with the files.           *)
LEMMA SameCommand ==
  ASSUME UNCHANGED <<session, cmd, before>>
  PROVE  /\ Source' = Source /\ PromisedLen' = PromisedLen /\ Dir' = Dir
         /\ \A s : Goal(s)' = Goal(s)
         /\ UNCHANGED files => Done' = Done
BY DEF Source, PromisedLen, Dir, Goal, Done

(* The checks before the output is opened: the files stay as they are.     *)
LEMMA CheckInv ==
  ASSUME Inv, ResolveSpec \/ LoadKey \/ OpenInput \/ Compat
  PROVE  Inv'
<1>1. /\ \/ pc = "spec" /\ pc' = "key" /\ UNCHANGED code
         \/ pc = "spec" /\ pc' = "exited" /\ code' = "UnsupportedCipher"
         \/ pc = "key" /\ pc' = "stat" /\ UNCHANGED code
         \/ pc = "key" /\ pc' = "exited" /\ code' \in {"Io", "KeyValidation"}
         \/ pc = "open_in" /\ pc' = "open_out" /\ UNCHANGED code
         \/ pc = "open_in" /\ pc' = "exited" /\ code' = "Io"
         \/ pc = "compat" /\ pc' = "exited" /\ code' \in {"Success", "LuksCompat"}
      /\ UNCHANGED <<session, cmd, started, before, shrunk, files, inLen, outSize, unread, buf>>
  BY DEF ResolveSpec, LoadKey, OpenInput, Compat, At, Goto, Exit, transferVars
<1>2. Source' = Source /\ PromisedLen' = PromisedLen /\ Done' = Done
  BY <1>1, SameCommand
<1>3. TypeOK'
  BY <1>1 DEF Inv, TypeOK, Steps, Opening, Codes, FileType, Sectors
<1>4. Frame'
  BY <1>1 DEF Inv, Frame, Opening
<1>5. Sizes'
  BY <1>1, <1>2 DEF Inv, Frame, Sizes, Completed
<1>6. UnderWay' /\ Finished'
  BY <1>1, <1>2 DEF Inv, Frame, UnderWay, Finished, Whole, Completed
<1> QED BY <1>3, <1>4, <1>5, <1>6 DEF Inv

(* The length of the input is taken, which decrypt gives to the output.    *)
LEMMA StatInv == ASSUME Inv, Stat PROVE Inv'
<1>1. /\ pc = "stat" /\ started > 0 /\ shrunk = FALSE /\ files = before
      /\ cmd \in CommandType
      /\ UNCHANGED <<session, cmd, started, before, shrunk, files, unread, buf>>
  BY DEF Stat, At, Inv, TypeOK, Frame, Opening, transferVars
<1>2. \/ pc' = "exited" /\ code' = "Io" /\ UNCHANGED <<inLen, outSize>>
      \/ /\ inLen' = Source.len /\ UNCHANGED code
         /\ \/ cmd.op = "encrypt" /\ pc' = "size" /\ UNCHANGED outSize
            \/ cmd.op = "decrypt" /\ pc' = "open_in" /\ outSize' = Source.len
  BY <1>1 DEF Stat, Goto, Exit, Source, CommandType
<1>3. Source' = Source /\ PromisedLen' = PromisedLen
  BY <1>1, SameCommand
<1>4. Source.len \in Nat
  <2>1. cmd.input \in Paths
    BY <1>1 DEF CommandType, Paths
  <2> QED BY <2>1 DEF Inv, TypeOK, Source, FileType
<1>5. TypeOK'
  BY <1>1, <1>2, <1>4 DEF Inv, TypeOK, Steps, Opening, Codes, FileType, Sectors
<1>6. Frame'
  BY <1>1, <1>2 DEF Inv, Frame, Opening
<1>7. Sizes'
  <2>1. pc' = "open_in" => outSize' = PromisedLen
    BY <1>2 DEF PromisedLen
  <2> QED BY <1>1, <1>2, <1>3, <1>4, <2>1 DEF Inv, Frame, Sizes, Completed
<1>8. UnderWay' /\ Finished'
  BY <1>1, <1>2 DEF Inv, UnderWay, Finished, Completed
<1> QED BY <1>5, <1>6, <1>7, <1>8 DEF Inv

(* The size of an encryption's output, if there is one in a u64.           *)
LEMMA SizeInv == ASSUME Inv, Size PROVE Inv'
<1>1. /\ pc = "size" /\ started > 0 /\ shrunk = FALSE /\ files = before
      /\ cmd \in CommandType /\ inLen = Source.len /\ inLen \in Nat /\ code = "none"
      /\ cmd.op = "encrypt"
      /\ UNCHANGED <<session, cmd, started, before, shrunk, files, inLen, unread, buf>>
  BY DEF Size, At, Inv, TypeOK, Frame, Sizes, Opening, transferVars
<1>2. \/ pc' = "exited" /\ code' = "InvalidArgs" /\ UNCHANGED outSize
      \/ /\ pc' = "open_in" /\ UNCHANGED code /\ cmd.align # 0
         /\ outSize' = Blocks * cmd.align
  BY DEF Size, Goto, Exit
<1>3. Source' = Source /\ PromisedLen' = PromisedLen
  BY <1>1, SameCommand
<1>4. cmd.align # 0 => Blocks * cmd.align \in Nat /\ Blocks * cmd.align >= inLen
  <2>1. cmd.align \in Nat /\ cmd.extra \in Nat
    BY <1>1 DEF CommandType
  <2> QED BY <1>1, <2>1, SizeFacts DEF Blocks
<1>5. TypeOK'
  BY <1>1, <1>2, <1>4 DEF Inv, TypeOK, Steps, Opening, Codes, FileType, Sectors
<1>6. Frame'
  BY <1>1, <1>2 DEF Inv, Frame, Opening
<1>7. Sizes'
  <2>1. Blocks * cmd.align = PromisedLen
    BY <1>1 DEF Blocks, PromisedLen
  <2> QED BY <1>1, <1>2, <1>3, <1>4, <2>1 DEF Frame, Sizes, Completed
<1>8. UnderWay' /\ Finished'
  BY <1>1, <1>2 DEF Inv, UnderWay, Finished, Completed
<1> QED BY <1>5, <1>6, <1>7, <1>8 DEF Inv

-----------------------------------------------------------------------------
(* The output is created, and given its size, which an input that is the   *)
(* output already has or is extended to.                                   *)
LEMMA OpenOutputInv == ASSUME Inv, OpenOutput PROVE Inv'
<1> DEFINE new == Resized(files[cmd.output], outSize)
<1>1. /\ pc = "open_out" /\ started > 0 /\ cmd \in CommandType /\ code = "none"
      /\ shrunk = FALSE => files = before
      /\ outSize \in Nat /\ inLen = Source.len /\ outSize = PromisedLen /\ outSize >= inLen
      /\ DOMAIN buf = {}
      /\ UNCHANGED <<session, cmd, started, before, shrunk, inLen, outSize, buf>>
  BY DEF OpenOutput, At, Inv, TypeOK, Frame, Sizes, UnderWay, Opening
<1>2. \/ /\ pc' = "transfer" /\ UNCHANGED code /\ outSize <= OffMax
         /\ files' = [files EXCEPT ![cmd.output] = new] /\ unread' = RangeIds(Total)
      \/ /\ pc' = "exited" /\ code' = "Io"
         /\ files' = [files EXCEPT ![cmd.output].exists = TRUE] \/ UNCHANGED files
  BY DEF OpenOutput, Goto, Exit
<1>3. /\ Source' = Source /\ PromisedLen' = PromisedLen
      /\ cmd.input \in Paths /\ cmd.output \in Paths
  BY <1>1, SameCommand DEF CommandType, Paths
<1>4. files \in [Paths -> FileType] /\ before \in [Paths -> FileType]
  BY DEF Inv, TypeOK
<1>5. new \in FileType /\ new.len = outSize
  BY <1>1, <1>3, <1>4, ResizedType
<1>6. /\ files' \in [Paths -> FileType]
      /\ \A p \in Paths \ {cmd.output} : files'[p] = files[p]
      /\ pc' = "transfer" => files'[cmd.output] = new
  <2>1. [files[cmd.output] EXCEPT !.exists = TRUE] \in FileType
    BY <1>3, <1>4 DEF FileType
  <2>2. CASE files' = [files EXCEPT ![cmd.output] = new]
    <3> HIDE DEF new
    <3> QED BY <1>3, <1>4, <1>5, <2>2
  <2>3. CASE pc' = "exited" /\ files' = [files EXCEPT ![cmd.output].exists = TRUE]
    <3>1. files' = [files EXCEPT ![cmd.output] = [files[cmd.output] EXCEPT !.exists = TRUE]]
      BY <2>3
    <3> QED BY <1>3, <1>4, <2>1, <2>3, <3>1
  <2>4. CASE pc' = "exited" /\ UNCHANGED files
    BY <1>4, <2>4
  <2> QED BY <1>2, <2>2, <2>3, <2>4
<1> HIDE DEF new
<1>7. TypeOK'
  <2>1. pc' \in Steps /\ code' \in Codes \cup {"none"}
    BY <1>1, <1>2 DEF Steps, Codes
  <2> QED BY <1>1, <1>6, <2>1 DEF Inv, TypeOK, FileType, Sectors
<1>8. Frame'
  BY <1>1, <1>2, <1>6 DEF Inv, Frame, Opening
<1>9. Sizes'
  <2>1. ASSUME pc' = "transfer", shrunk' = TRUE, cmd.input # cmd.output
        PROVE  /\ files'[cmd.input].len < Source.len
               /\ files'[cmd.input] = Resized(Source, files'[cmd.input].len)
    BY <1>1, <1>3, <1>6, <2>1 DEF Inv, Sizes
  <2> QED BY <1>1, <1>2, <1>3, <2>1 DEF Sizes, Completed
<1>10. UnderWay'
  <2>1. SUFFICES ASSUME pc' = "transfer" PROVE Places' /\ (Whole' => Contents')
    BY <1>1 DEF UnderWay
  <2>2. /\ unread' = RangeIds(Total) /\ Total' = Total /\ Total \in Nat
        /\ Total * SectorSize >= outSize
    BY <1>1, <1>2, <2>1, TotalFacts DEF Total
  <2>3. Ahead' = 0 .. Total - 1
    <3>1. \A k \in RangeIds(Total) : SectorsOf(Total, k) \subseteq 0 .. Total - 1
      BY <2>2, RangeInside
    <3>2. \A s \in 0 .. Total - 1 : \E k \in RangeIds(Total) : s \in SectorsOf(Total, k)
      BY <2>2, RangesCover
    <3>3. Ahead' = UNION {SectorsOf(Total, k) : k \in RangeIds(Total)}
      BY <2>2 DEF Ahead
    <3> QED BY <3>1, <3>2, <3>3
  <2>4. Places'
    BY <1>1, <2>2 DEF Places
  <2>5. ASSUME Whole', cmd.input = cmd.output
        PROVE  files'[cmd.input] = Resized(Source, outSize)'
    BY <1>1, <1>3, <1>6, <2>1, <2>5 DEF Whole, new, Source, Inv, TypeOK
  <2>6. files'[cmd.output].len = outSize
    BY <1>5, <1>6, <2>1
  <2>7. Whole' => Contents'
    BY <1>1, <2>2, <2>3, <2>5, <2>6 DEF Contents
  <2> QED BY <2>4, <2>7
<1>11. Finished'
  BY <1>2 DEF Finished, Completed
<1> QED BY <1>7, <1>8, <1>9, <1>10, <1>11 DEF Inv

-----------------------------------------------------------------------------
(* The output can hold every sector of the ranges.                         *)
LEMMA TotalInside ==
  ASSUME Inv, pc = "transfer"
  PROVE  /\ Total \in Nat /\ Total * SectorSize \in Nat /\ Total * SectorSize >= outSize
         /\ 0 .. Total - 1 \subseteq Sectors
         /\ Ahead \subseteq 0 .. Total - 1
<1>1. outSize \in Nat /\ outSize <= OffMax /\ unread \subseteq RangeIds(Total)
  BY DEF Inv, TypeOK, Sizes, UnderWay, Places
<1>2. Total \in Nat /\ Total * SectorSize \in Nat /\ Total * SectorSize >= outSize
  BY <1>1, TotalFacts DEF Total
<1>3. 0 .. Total - 1 \subseteq Sectors
  <2>1. Total <= TotalSectors(OffMax)
    BY <1>1, Bounds, TotalGrows DEF Total
  <2>2. TotalSectors(OffMax) \in Nat
    BY Bounds, TotalFacts
  <2> QED BY <1>2, <2>1, <2>2 DEF Sectors
<1>4. Ahead \subseteq 0 .. Total - 1
  BY <1>1, <1>2, RangeInside DEF Ahead
<1> QED BY <1>2, <1>3, <1>4

(* What a range that can be read is turned into, while the output cannot   *)
(* be the input's truncated file: what the command has promised.           *)
LEMMA ReadsSource ==
  ASSUME Inv, pc = "transfer", NEW k \in unread, Readable(k), NEW s \in SectorsOf(Total, k)
  PROVE  Produced(s) \in Content /\ (Whole => Produced(s) = Goal(s))
<1> DEFINE f == files[cmd.input]
           d == inLen - s * SectorSize
<1>1. /\ started > 0 /\ cmd \in CommandType /\ inLen \in Nat /\ outSize \in Nat
      /\ inLen = Source.len /\ outSize >= inLen
      /\ cmd.input \in Paths /\ files \in [Paths -> FileType] /\ before \in [Paths -> FileType]
      /\ f \in FileType /\ Source \in FileType
  BY DEF Inv, TypeOK, Sizes, CommandType, Paths, Source
<1>2. /\ s \in 0 .. Total - 1 /\ s \in Ahead /\ s \in Sectors /\ s \in Nat
      /\ s * SectorSize \in Nat /\ SectorSize \in Nat \ {0}
      /\ d \in Int
  <2>1. s \in Ahead
    BY DEF Ahead
  <2>2. s \in 0 .. Total - 1 /\ s \in Sectors
    BY <2>1, TotalInside
  <2> QED BY <1>1, <2>1, <2>2, Bounds
<1>3. f.at[s] \in Content /\ f.len \in Nat /\ Source.at[s] \in Content
  BY <1>1, <1>2 DEF FileType
<1>4. Produced(s) \in Content
  BY <1>2, <1>3, KeptType, CryptType DEF Produced, Dir
<1>5. ASSUME Whole PROVE Kept(f.at[s], d) = Kept(Source.at[s], d)
  <2>1. CASE cmd.input = cmd.output
    <3>1. f.at[s] = Kept(Source.at[s], Least(Source.len, outSize) - s * SectorSize)
      <4>1. f.at[s] = Resized(Source, outSize).at[s]
        BY <1>2, <1>5, <2>1 DEF Inv, UnderWay, Contents
      <4> QED BY <1>1, <1>2, <4>1, ResizedType
    <3>2. Least(Source.len, outSize) = inLen
      BY <1>1 DEF Least
    <3> QED BY <1>2, <1>3, <3>1, <3>2, KeptTwice
  <2>2. CASE cmd.input # cmd.output /\ shrunk = FALSE
    <3>1. f = Source
      BY <1>1, <2>2 DEF Inv, Frame, Source
    <3> QED BY <3>1
  <2>3. CASE cmd.input # cmd.output /\ shrunk = TRUE
    <3>1. f.len < Source.len /\ f = Resized(Source, f.len)
      BY <2>3 DEF Inv, Sizes
    <3>2. f.at[s] = Kept(Source.at[s], f.len - s * SectorSize)
      <4>1. f.at[s] = Kept(Source.at[s], Least(Source.len, f.len) - s * SectorSize)
        <5>1. PICK n \in Nat : n = f.len /\ f = Resized(Source, n)
          BY <1>3, <3>1
        <5> HIDE DEF f
        <5>2. Resized(Source, n).at[s] = Kept(Source.at[s], Least(Source.len, n) - s * SectorSize)
          BY <1>1, <1>2, ResizedType
        <5> QED BY <5>1, <5>2
      <4>2. Least(Source.len, f.len) = f.len
        BY <1>1, <1>3, <3>1 DEF Least
      <4> QED BY <4>1, <4>2
    <3>3. CASE s * SectorSize < inLen
      <4>1. Least((s + 1) * SectorSize, inLen) <= f.len
        BY <3>3 DEF Readable
      <4>2. (s + 1) * SectorSize = s * SectorSize + SectorSize
        BY <1>2
      <4>3. f.len - s * SectorSize >= SectorSize
        BY <1>1, <1>2, <1>3, <3>1, <4>1, <4>2 DEF Least
      <4>4. Kept(Source.at[s], f.len - s * SectorSize) = Source.at[s]
        BY <4>3 DEF Kept, Padded
      <4> QED BY <3>2, <4>4
    <3>4. CASE ~(s * SectorSize < inLen)
      <4>1. PICK n \in Int : n = f.len - s * SectorSize /\ n <= 0 /\ d <= 0
        BY <1>1, <1>2, <1>3, <3>1, <3>4
      <4>2. Kept(Source.at[s], n) = Zero /\ Kept(Source.at[s], d) = Zero /\ Kept(Zero, d) = Zero
        BY <1>2, <1>3, <4>1, NothingKept, FreshType
      <4> QED BY <3>2, <4>1, <4>2
    <3> QED BY <3>3, <3>4
  <2> QED BY <2>1, <2>2, <2>3 DEF Inv, TypeOK
<1> QED BY <1>1, <1>4, <1>5 DEF Produced, Goal

(* A range moves from the input to a buffer.                               *)
LEMMA ReadInv == ASSUME Inv, ReadRange PROVE Inv'
<1>1. /\ pc = "transfer"
      /\ UNCHANGED <<session, files, cmd, pc, inLen, outSize, code, started, before, shrunk>>
  BY DEF ReadRange, At
<1>2. PICK k \in unread :
        /\ Readable(k) /\ unread' = unread \ {k}
        /\ buf' = [s \in DOMAIN buf \cup SectorsOf(Total, k) |->
                     IF s \in DOMAIN buf THEN buf[s] ELSE Produced(s)]
  BY DEF ReadRange
<1>3. /\ Places /\ (Whole => Contents)
      /\ \A s \in DOMAIN buf : buf[s] \in Content
      /\ Total' = Total /\ Source' = Source /\ (\A s : Goal(s)' = Goal(s)) /\ Whole' = Whole
  BY <1>1, SameCommand DEF Inv, TypeOK, UnderWay, Total, Whole
<1>4. /\ Total \in Nat /\ Ahead \subseteq 0 .. Total - 1
      /\ SectorsOf(Total, k) \subseteq Ahead /\ k \in RangeIds(Total)
  BY <1>1, <1>3, TotalInside DEF Ahead, Places
<1>5. Ahead' = Ahead \ SectorsOf(Total, k)
  <2>1. Ahead' = UNION {SectorsOf(Total, j) : j \in unread \ {k}}
    BY <1>2, <1>3 DEF Ahead
  <2>2. \A j \in unread \ {k} : SectorsOf(Total, j) \cap SectorsOf(Total, k) = {}
    BY <1>3, <1>4, RangesDisjoint DEF Places
  <2> QED BY <2>1, <2>2 DEF Ahead
<1>6. /\ DOMAIN buf' = DOMAIN buf \cup SectorsOf(Total, k)
      /\ \A s \in DOMAIN buf' : buf'[s] = IF s \in DOMAIN buf THEN buf[s] ELSE Produced(s)
  BY <1>2
<1>7. TypeOK'
  <2>1. \A s \in DOMAIN buf' : buf'[s] \in Content
    BY <1>1, <1>2, <1>3, <1>6, ReadsSource
  <2> QED BY <1>1, <2>1 DEF Inv, TypeOK, FileType, Sectors
<1>8. Frame' /\ Sizes' /\ Finished'
  BY <1>1, <1>3, SameCommand DEF Inv, Frame, Sizes, Finished, Opening, Completed
<1>9. UnderWay'
  <2>1. Places'
    BY <1>2, <1>3, <1>4, <1>5, <1>6 DEF Places
  <2>2. ASSUME Whole PROVE Contents'
    <3>1. /\ outSize' <= files'[cmd'.output].len
          /\ files'[cmd'.output].len <= Total' * SectorSize
      BY <1>1, <1>3, <2>2 DEF Contents
    <3>2. ASSUME NEW s \in 0 .. Total - 1
          PROVE  /\ s \in Ahead' /\ cmd.input = cmd.output =>
                      files[cmd.input].at[s] = Resized(Source, outSize).at[s]
                 /\ s \in DOMAIN buf' => buf'[s] = Goal(s)
                 /\ s \notin Ahead' \cup DOMAIN buf' =>
                      /\ files[cmd.output].at[s] = Goal(s)
                      /\ files[cmd.output].len >= (s + 1) * SectorSize
      <4>1. s \in DOMAIN buf' => buf'[s] = Goal(s)
        BY <1>1, <1>2, <1>3, <1>6, <2>2, ReadsSource DEF Contents
      <4> QED BY <1>3, <1>5, <1>6, <2>2, <4>1 DEF Contents
    <3> QED BY <1>1, <1>3, <3>1, <3>2 DEF Contents
  <2> QED BY <1>1, <1>3, <2>1, <2>2 DEF UnderWay
<1> QED BY <1>7, <1>8, <1>9 DEF Inv

(* A sector moves from a buffer to the output, which grows by what of the  *)
(* last sector its size did not have.                                      *)
LEMMA WriteInv == ASSUME Inv, WriteSector PROVE Inv'
<1>1. /\ pc = "transfer" /\ started > 0 /\ cmd \in CommandType
      /\ files \in [Paths -> FileType] /\ cmd.input \in Paths /\ cmd.output \in Paths
      /\ UNCHANGED <<session, cmd, pc, inLen, outSize, unread, code, started, before, shrunk>>
  BY DEF WriteSector, At, Inv, TypeOK, CommandType, Paths
<1>2. PICK s \in DOMAIN buf :
        /\ files' = [files EXCEPT ![cmd.output].len = Greatest(@, (s + 1) * SectorSize),
                                  ![cmd.output].at[s] = buf[s]]
        /\ buf' = [t \in DOMAIN buf \ {s} |-> buf[t]]
  BY DEF WriteSector, InTurn
<1>3. /\ Places /\ (Whole => Contents) /\ buf[s] \in Content
      /\ \A t \in DOMAIN buf : buf[t] \in Content
      /\ Total' = Total /\ Ahead' = Ahead /\ (\A t : Goal(t)' = Goal(t)) /\ Whole' = Whole
      /\ Source' = Source /\ PromisedLen' = PromisedLen
  BY <1>1, SameCommand DEF Inv, TypeOK, UnderWay, Total, Whole, Ahead
<1>4. /\ s \in 0 .. Total - 1 /\ s \in Sectors /\ s \notin Ahead
      /\ Total \in Nat /\ Total * SectorSize \in Nat
      /\ (s + 1) * SectorSize \in Nat /\ (s + 1) * SectorSize <= Total * SectorSize
  <2>1. s \in 0 .. Total - 1 /\ s \in Sectors /\ s \notin Ahead /\ Total \in Nat
        /\ Total * SectorSize \in Nat /\ SectorSize \in Nat
    BY <1>1, <1>3, TotalInside, Bounds DEF Places
  <2>2. PICK e \in Nat : Total = s + 1 + e
    <3>1. Total - s - 1 \in Nat /\ Total = s + 1 + (Total - s - 1)
      BY <2>1
    <3> QED BY <3>1
  <2>3. Total * SectorSize = (s + 1) * SectorSize + e * SectorSize
        /\ e * SectorSize \in Nat /\ (s + 1) * SectorSize \in Nat
    BY <2>1, <2>2
  <2> QED BY <2>1, <2>3
<1> DEFINE old == files[cmd.output]
           new == [old EXCEPT !.len = Greatest(old.len, (s + 1) * SectorSize),
                              !.at = [old.at EXCEPT ![s] = buf[s]]]
<1>5. /\ new \in FileType
      /\ new.len = Greatest(old.len, (s + 1) * SectorSize) /\ old.len \in Nat
      /\ new.at[s] = buf[s] /\ \A t \in Sectors \ {s} : new.at[t] = old.at[t]
  <2>1. old \in FileType /\ Greatest(old.len, (s + 1) * SectorSize) \in Nat
    BY <1>1, <1>4 DEF FileType, Greatest
  <2>2. [old.at EXCEPT ![s] = buf[s]] \in [Sectors -> Content]
    BY <1>3, <1>4, <2>1 DEF FileType
  <2> QED BY <1>4, <2>1, <2>2 DEF FileType
<1>6. /\ files' \in [Paths -> FileType] /\ files'[cmd.output] = new
      /\ \A p \in Paths \ {cmd.output} : files'[p] = files[p]
  <2>1. files' = [files EXCEPT ![cmd.output] = new]
    BY <1>1, <1>2
  <2> HIDE DEF new
  <2> QED BY <1>1, <1>5, <2>1
<1>7. DOMAIN buf' = DOMAIN buf \ {s} /\ \A t \in DOMAIN buf' : buf'[t] = buf[t]
  BY <1>2
<1> HIDE DEF new
<1>8. TypeOK'
  BY <1>1, <1>3, <1>6, <1>7 DEF Inv, TypeOK, FileType, Sectors
<1>9. Frame'
  BY <1>1, <1>6 DEF Inv, Frame, Opening
<1>10. Sizes' /\ Finished'
  BY <1>1, <1>3, <1>6 DEF Inv, Frame, Sizes, Finished, Completed
<1>11. UnderWay'
  <2>1. Places'
    BY <1>1, <1>3, <1>7 DEF Places
  <2>2. ASSUME Whole PROVE Contents'
    <3>1. outSize <= new.len /\ new.len <= Total * SectorSize
      BY <1>3, <1>4, <1>5, <2>2 DEF Inv, TypeOK, Contents, Greatest
    <3>2. ASSUME NEW t \in 0 .. Total - 1
          PROVE  /\ t \in Ahead /\ cmd.input = cmd.output =>
                      files'[cmd.input].at[t] = Resized(Source, outSize).at[t]
                 /\ t \in DOMAIN buf' => buf'[t] = Goal(t)
                 /\ t \notin Ahead \cup DOMAIN buf' =>
                      new.at[t] = Goal(t) /\ new.len >= (t + 1) * SectorSize
      <4>1. CASE t = s
        <5>1. new.at[t] = Goal(t)
          BY <1>3, <1>4, <1>5, <2>2, <4>1 DEF Contents
        <5>2. new.len >= (t + 1) * SectorSize
          BY <1>4, <1>5, <4>1 DEF Greatest
        <5> QED BY <1>4, <1>7, <4>1, <5>1, <5>2
      <4>2. CASE t # s
        <5>1. new.at[t] = old.at[t]
          BY <1>1, <1>5, <3>2, <4>2, TotalInside
        <5>2. (t + 1) * SectorSize \in Nat /\ (old.len >= (t + 1) * SectorSize
                 => new.len >= (t + 1) * SectorSize)
          <6>1. t \in Nat /\ SectorSize \in Nat
            BY <1>4, Bounds
          <6>2. (t + 1) * SectorSize \in Nat
            BY <6>1
          <6> QED BY <1>4, <1>5, <6>2 DEF Greatest
        <5>3. t \in DOMAIN buf' => buf'[t] = Goal(t)
          BY <1>3, <1>7, <2>2 DEF Contents
        <5>4. t \notin Ahead \cup DOMAIN buf' =>
                new.at[t] = Goal(t) /\ new.len >= (t + 1) * SectorSize
          BY <1>3, <1>7, <2>2, <4>2, <5>1, <5>2 DEF Contents
        <5>5. t \in Ahead /\ cmd.input = cmd.output =>
                files'[cmd.input].at[t] = Resized(Source, outSize).at[t]
          BY <1>3, <1>6, <2>2, <5>1 DEF Contents
        <5> QED BY <5>3, <5>4, <5>5
      <4> QED BY <4>1, <4>2
    <3> QED BY <1>1, <1>3, <1>6, <3>1, <3>2 DEF Contents
  <2> QED BY <1>1, <1>3, <2>1, <2>2 DEF UnderWay
<1> QED BY <1>8, <1>9, <1>10, <1>11 DEF Inv

(* With nothing left to read and nothing left in a buffer, all is in the   *)
(* output.                                                                 *)
LEMMA TransferredInv == ASSUME Inv, Transferred PROVE Inv'
<1>1. /\ pc = "transfer" /\ started > 0 /\ cmd \in CommandType /\ code = "none"
      /\ unread = {} /\ DOMAIN buf = {} /\ outSize = PromisedLen
      /\ \/ pc' = "compat" /\ UNCHANGED code
         \/ pc' = "exited" /\ code' = "Success"
      /\ UNCHANGED <<session, cmd, started, before, shrunk, files, inLen, outSize, unread, buf>>
  BY DEF Transferred, At, Goto, Exit, transferVars, Inv, TypeOK, Frame, Sizes
<1>2. Source' = Source /\ PromisedLen' = PromisedLen /\ Done' = Done /\ Whole' = Whole
  BY <1>1, SameCommand DEF Whole
<1>3. TypeOK'
  BY <1>1 DEF Inv, TypeOK, Steps, Opening, Codes, FileType, Sectors
<1>4. Frame'
  BY <1>1 DEF Inv, Frame, Opening
<1>5. Sizes'
  BY <1>1, <1>2 DEF Inv, Sizes, Completed
<1>6. UnderWay'
  BY <1>1 DEF UnderWay
<1>7. ASSUME Whole PROVE Done
  <2>1. Contents /\ Ahead = {}
    BY <1>1, <1>7 DEF Inv, UnderWay, Ahead
  <2>2. Total \in Nat /\ Total * SectorSize \in Nat /\ Total = TotalSectors(PromisedLen)
    BY <1>1, TotalInside DEF Total
  <2>3. files[cmd.output].len \in Nat
    BY <1>1 DEF Inv, TypeOK, CommandType, Paths, FileType
  <2>4. \A s \in 0 .. Total - 1 : /\ files[cmd.output].at[s] = Goal(s)
                                  /\ files[cmd.output].len >= (s + 1) * SectorSize
    BY <1>1, <2>1 DEF Contents
  <2>5. files[cmd.output].len = Total * SectorSize
    <3>1. CASE Total = 0
      <4>1. Total * SectorSize = 0
        BY <3>1, Bounds
      <4> QED BY <2>1, <2>3, <4>1 DEF Contents
    <3>2. CASE Total # 0
      <4>1. Total - 1 \in 0 .. Total - 1 /\ Total - 1 + 1 = Total
        BY <2>2, <3>2
      <4>2. files[cmd.output].len >= (Total - 1 + 1) * SectorSize
        BY <2>4, <4>1
      <4> QED BY <2>1, <2>2, <2>3, <4>1, <4>2 DEF Contents
    <3> QED BY <3>1, <3>2
  <2> QED BY <2>2, <2>4, <2>5 DEF Done
<1>8. Finished'
  BY <1>2, <1>7 DEF Finished
<1> QED BY <1>3, <1>4, <1>5, <1>6, <1>8 DEF Inv

(* A transfer that is cut short spoils the output, and only the output.    *)
LEMMA StopFacts ==
  ASSUME Inv, pc = "transfer", Stop
  PROVE  /\ files' \in [Paths -> FileType]
         /\ \A p \in Paths \ {cmd.output} : files'[p] = files[p]
         /\ DOMAIN buf' = {}
<1>1. /\ files \in [Paths -> FileType] /\ cmd.output \in Paths
      /\ files[cmd.output] \in FileType
  BY DEF Inv, TypeOK, CommandType, Paths
<1>2. PICK torn \in SUBSET InTurn : \E len \in Ends(torn) :
        files' = [files EXCEPT ![cmd.output] = Spoilt(files[cmd.output], torn, len)]
  BY DEF Stop
<1>3. PICK len \in Ends(torn) :
        files' = [files EXCEPT ![cmd.output] = Spoilt(files[cmd.output], torn, len)]
  BY <1>2
<1>4. len \in Nat
  <2>1. InTurn \subseteq 0 .. Total - 1 /\ 0 .. Total - 1 \subseteq Sectors
    BY TotalInside DEF InTurn, Inv, UnderWay, Places
  <2>2. \A s \in torn : s * SectorSize \in Nat
    BY <2>1, Bounds
  <2>3. files[cmd.output].len \in Nat
    BY <1>1 DEF FileType
  <2> QED BY <2>2, <2>3, Bounds DEF Ends
<1>5. Spoilt(files[cmd.output], torn, len) \in FileType
  <2>1. \A s \in Sectors : Fresh("torn", s) \in Content
    BY Bounds, FreshType
  <2>2. [s \in Sectors |-> IF s \in torn THEN Fresh("torn", s) ELSE files[cmd.output].at[s]]
          \in [Sectors -> Content]
    BY <1>1, <2>1 DEF FileType
  <2> QED BY <1>1, <1>4, <2>2 DEF FileType, Spoilt
<1>6. DOMAIN buf' = {}
  <2>1. buf' = <<>>
    BY DEF Stop
  <2> QED BY <2>1
<1> QED BY <1>1, <1>3, <1>5, <1>6

(* A transfer that fails, or a kill at any step: nobody is promised what   *)
(* the output holds then.                                                  *)
LEMMA StopInv == ASSUME Inv, TransferFails \/ Kill PROVE Inv'
<1>1. /\ pc \notin {"idle", "exited", "killed"}
      /\ UNCHANGED <<session, cmd, started, before, shrunk, inLen, outSize>>
      /\ (pc = "transfer" /\ Stop) \/ (pc # "transfer" /\ UNCHANGED <<files, buf>>)
      /\ \/ pc' = "exited" /\ code' = "Io"
         \/ pc' = "killed" /\ UNCHANGED code
  BY DEF TransferFails, Kill, At, Exit, transferVars
<1>2. started > 0 /\ code = "none"
  BY <1>1 DEF Inv, TypeOK, Frame
<1>3. /\ files' \in [Paths -> FileType]
      /\ \A p \in Paths \ {cmd.output} : files'[p] = files[p]
      /\ DOMAIN buf' = {}
  <2>1. CASE pc = "transfer" /\ Stop
    BY <2>1, StopFacts
  <2>2. CASE pc # "transfer" /\ UNCHANGED <<files, buf>>
    BY <2>2 DEF Inv, TypeOK, UnderWay
  <2> QED BY <1>1, <2>1, <2>2
<1>4. TypeOK'
  BY <1>1, <1>2, <1>3 DEF Inv, TypeOK, Steps, Opening, Codes, FileType, Sectors
<1>5. Frame'
  BY <1>1, <1>2, <1>3 DEF Inv, Frame, Opening
<1>6. Sizes' /\ UnderWay' /\ Finished'
  BY <1>1, <1>2, <1>3 DEF Sizes, UnderWay, Finished, Completed
<1> QED BY <1>4, <1>5, <1>6 DEF Inv

(* Another program truncates the input of the running command.             *)
LEMMA ShrinkInv == ASSUME Inv, Shrink PROVE Inv'
<1>1. /\ pc \in {"open_in", "open_out", "transfer"} /\ shrunk = FALSE /\ shrunk' = TRUE
      /\ started > 0 /\ cmd \in CommandType /\ code = "none"
      /\ UNCHANGED <<session, cmd, pc, inLen, outSize, code, started, before, unread, buf>>
  BY DEF Shrink, Inv, TypeOK, Frame, transferVars
<1>2. PICK n \in 0 .. files[cmd.input].len - 1 :
        files' = [files EXCEPT ![cmd.input] = Resized(files[cmd.input], n)]
  BY DEF Shrink
<1>3. /\ cmd.input \in Paths /\ files \in [Paths -> FileType] /\ files[cmd.input].len \in Nat
      /\ Source' = Source /\ PromisedLen' = PromisedLen
  BY <1>1, SameCommand DEF CommandType, Paths, Inv, TypeOK, FileType
<1>4. n \in Nat /\ n < files[cmd.input].len
  BY <1>2, <1>3
<1>5. PICK new \in FileType : new = Resized(files[cmd.input], n) /\ new.len = n
  BY <1>3, <1>4, ResizedType
<1>6. /\ files' \in [Paths -> FileType] /\ files'[cmd.input] = new
      /\ \A p \in Paths \ {cmd.input} : files'[p] = files[p]
  BY <1>2, <1>3, <1>5
<1>7. TypeOK'
  BY <1>1, <1>6 DEF Inv, TypeOK, FileType, Sectors
<1>8. Frame'
  BY <1>1, <1>6 DEF Inv, Frame, Opening
<1>9. Sizes'
  <2>1. ASSUME cmd.input # cmd.output
        PROVE  /\ files'[cmd.input].len < Source.len
               /\ files'[cmd.input] = Resized(Source, files'[cmd.input].len)
    <3>1. files[cmd.input] = Source
      BY <1>1, <1>3, <2>1 DEF Inv, Frame, Source
    <3> QED BY <1>4, <1>5, <1>6, <3>1
  <2> QED BY <1>1, <1>3, <2>1 DEF Inv, Sizes, Completed
<1>10. UnderWay'
  <2>1. pc = "transfer" => Places'
    BY <1>1 DEF Inv, UnderWay, Places, Ahead, Total
  <2>2. ASSUME pc = "transfer", Whole' PROVE Contents'
    <3>1. cmd.input # cmd.output /\ files'[cmd.output] = files[cmd.output]
      BY <1>1, <1>6, <2>2 DEF Whole, CommandType, Paths
    <3>2. Contents
      BY <1>1, <2>2 DEF Inv, UnderWay, Whole
    <3>3. Total' = Total /\ Ahead' = Ahead /\ \A s : Goal(s)' = Goal(s)
      BY <1>1, SameCommand DEF Total, Ahead
    <3> QED BY <1>1, <3>1, <3>2, <3>3 DEF Contents
  <2> QED BY <1>1, <2>1, <2>2 DEF Inv, UnderWay
<1>11. Finished'
  BY <1>1 DEF Finished, Completed
<1> QED BY <1>7, <1>8, <1>9, <1>10, <1>11 DEF Inv

(* A step in which nothing changes.                                        *)
LEMMA StutterInv == ASSUME Inv, UNCHANGED vars PROVE Inv'
<1>1. UNCHANGED <<session, files, cmd, pc, inLen, outSize, code, started, before, shrunk,
                  unread, buf>>
  BY DEF vars, transferVars
<1>2. TypeOK'
  BY <1>1 DEF Inv, TypeOK, FileType, Sectors
<1>3. Frame' /\ Sizes' /\ Finished'
  BY <1>1, SameCommand DEF Inv, Frame, Sizes, Finished, Whole, Completed
<1>4. UnderWay'
  <2>1. Total' = Total /\ Ahead' = Ahead /\ Source' = Source /\ \A s : Goal(s)' = Goal(s)
    BY <1>1, SameCommand DEF Total, Ahead
  <2>2. Places' = Places /\ Contents' = Contents /\ Whole' = Whole
    BY <1>1, <2>1 DEF Places, Contents, Whole
  <2> QED BY <1>1, <2>2 DEF Inv, UnderWay
<1> QED BY <1>2, <1>3, <1>4 DEF Inv

(* The invariant of the command and of all commands before it.             *)
LEMMA Invariance == Spec => []Inv
<1>1. ASSUME Inv, [Next]_vars PROVE Inv'
  <2>1. CASE Begin
    BY <1>1, <2>1, BeginInv
  <2>2. CASE ResolveSpec \/ LoadKey \/ OpenInput \/ Compat
    BY <1>1, <2>2, CheckInv
  <2>3. CASE Stat
    BY <1>1, <2>3, StatInv
  <2>4. CASE Size
    BY <1>1, <2>4, SizeInv
  <2>5. CASE OpenOutput
    BY <1>1, <2>5, OpenOutputInv
  <2>6. CASE ReadRange
    BY <1>1, <2>6, ReadInv
  <2>7. CASE WriteSector
    BY <1>1, <2>7, WriteInv
  <2>8. CASE Transferred
    BY <1>1, <2>8, TransferredInv
  <2>9. CASE TransferFails \/ Kill
    BY <1>1, <2>9, StopInv
  <2>10. CASE Shrink
    BY <1>1, <2>10, ShrinkInv
  <2>11. CASE Over \/ UNCHANGED vars
    BY <1>1, <2>11, StutterInv DEF Over
  <2> QED BY <1>1, <2>1, <2>2, <2>3, <2>4, <2>5, <2>6, <2>7, <2>8, <2>9, <2>10, <2>11 DEF Next
<1> QED BY <1>1, InitInv, PTL DEF Spec

-----------------------------------------------------------------------------
(* A command touches no file but its output, for every session.            *)
THEOREM OthersUntouched == Spec => []OnlyOutputChanges
<1>1. Inv => OnlyOutputChanges
  BY DEF Inv, TypeOK, Frame, OnlyOutputChanges
<1> QED BY <1>1, Invariance, PTL

(* The size set on the output is never below the input's.                  *)
THEOREM InputIsKept == Spec => []NothingCutOff
<1>1. Inv => NothingCutOff
  BY DEF Inv, Sizes, NothingCutOff
<1> QED BY <1>1, Invariance, PTL

(* A command that says it has succeeded has done all of its work, on       *)
(* whatever earlier commands and kills have left.                          *)
THEOREM SuccessIsWhole == Spec => []CompleteOnSuccess
<1>1. Inv => CompleteOnSuccess
  BY DEF Inv, TypeOK, Finished, Whole, Done, Goal, ReadAsStated, CompleteOnSuccess
<1> QED BY <1>1, Invariance, PTL

(* A length that ends with a whole sector is exactly that of its sectors.  *)
LEMMA WholeMultiple ==
  ASSUME NEW l \in Nat, NEW z \in Nat \ {0}, NEW q \in Nat,
         l % z = 0, q * z >= l, (q - 1) * z < l
  PROVE  q * z = l
<1>1. PICK d \in Nat : l = z * d
  <2>1. l = z * (l \div z) + (l % z) /\ l \div z \in Nat
    BY DivMod
  <2>2. PICK e \in Nat : e = l \div z
    BY <2>1
  <2>3. l = z * e + 0
    BY <2>1, <2>2
  <2>4. z * e \in Nat
    OBVIOUS
  <2> QED BY <2>3, <2>4
<1>2. CASE d > q
  <2>1. PICK e \in Nat : d = q + 1 + e
    <3>1. d - q - 1 \in Nat /\ d = q + 1 + (d - q - 1)
      BY <1>2
    <3> QED BY <3>1
  <2>2. z * d = q * z + z + z * e /\ z * e \in Nat /\ q * z \in Nat
    BY <2>1
  <2> QED BY <1>1, <2>2
<1>3. CASE d < q
  <2>1. PICK e \in Nat : q = d + 1 + e
    <3>1. q - d - 1 \in Nat /\ q = d + 1 + (q - d - 1)
      BY <1>3
    <3> QED BY <3>1
  <2>2. (q - 1) * z = z * d + z * e /\ z * e \in Nat
    BY <2>1
  <2> QED BY <1>1, <2>2
<1>4. CASE d = q
  BY <1>1, <1>4
<1> QED BY <1>2, <1>3, <1>4

(* A sector of an image padded for encryption: nothing was decrypted yet.  *)
LEMMA PlainSector ==
  ASSUME Inv, NEW n \in InputLens, NEW s \in Sectors
  PROVE  /\ Kept(Image(n).at[s], n - s * SectorSize) \in Content
         /\ LET k == Kept(Image(n).at[s], n - s * SectorSize)
            IN  Len(k.ops) > 0 => k.ops[Len(k.ops)].op # "dec"
<1>1. n \in Nat /\ s \in Nat /\ n - s * SectorSize \in Int /\ SectorSize \in Nat \ {0}
  <2>1. InputLens \subseteq 0 .. OffMax
    BY ImageCommandAssumption DEF Inv, TypeOK, InputLens, OffMax
  <2> QED BY <2>1, Bounds
<1>2. PICK c \in Content : c = Image(n).at[s] /\ c.ops = <<>>
  <2>1. Fresh("data", s) \in Content /\ Zero \in Content
        /\ Fresh("data", s).ops = <<>> /\ Zero.ops = <<>>
    BY <1>1, FreshType
  <2> QED BY <2>1 DEF Image
<1>3. PICK m \in Int : m = n - s * SectorSize
  BY <1>1
<1>4. Kept(c, m) = Padded(c, m, SectorSize)
  BY <1>2 DEF Kept
<1>5. Kept(c, m) \in Content
  BY KeptType
<1>6. CASE m >= SectorSize \/ m <= 0
  <2>1. Kept(c, m) \in {c, Zero}
    BY <1>1, <1>4, <1>6 DEF Padded
  <2>2. c.ops = <<>> /\ Zero.ops = <<>>
    BY <1>1, <1>2, FreshType
  <2>3. Kept(c, m).ops = <<>>
    BY <2>1, <2>2
  <2>4. Len(Kept(c, m).ops) = 0
    BY <2>3, EmptySeq
  <2> QED BY <1>2, <1>3, <1>5, <2>4
<1>7. CASE ~(m >= SectorSize \/ m <= 0)
  <2>1. PICK cut : cut = [op |-> "cut", arg |-> <<m, 0>>]
    OBVIOUS
  <2>2. Kept(c, m) = [c EXCEPT !.ops = Append(c.ops, cut)]
    BY <1>1, <1>4, <1>7, <2>1 DEF Padded
  <2>3. Kept(c, m).ops = Append(<<>>, cut)
    BY <1>2, <2>2 DEF Content
  <2>4. Append(<<>>, cut) = <<cut>> /\ Len(<<cut>>) = 1 /\ <<cut>>[1] = cut
    OBVIOUS
  <2>5. cut.op # "dec"
    BY <2>1
  <2> QED BY <1>2, <1>3, <1>5, <2>3, <2>4, <2>5
<1> QED BY <1>6, <1>7

(* What encrypt made of an image, decrypt gives back.                      *)
THEOREM DecryptGivesBack == Spec => []RoundTrip
<1>1. ASSUME Inv, ReadAsStated, cmd.op = "decrypt",
             NEW n \in InputLens, IsCiphertextOf(Source, n)
      PROVE  /\ files[cmd.output].len = Source.len
             /\ \A s \in 0 .. TotalSectors(Source.len) - 1 :
                  files[cmd.output].at[s] =
                    Kept(Image(n).at[s], n - s * SectorSize)
  <2>1. Done /\ PromisedLen = Source.len /\ Dir = "dec"
    BY <1>1 DEF Inv, TypeOK, Finished, Whole, ReadAsStated, PromisedLen, Dir
  <2>2. Source \in FileType /\ Source.len <= OffMax
    <3>1. pc # "idle" /\ Completed /\ outSize <= OffMax /\ outSize = PromisedLen
      BY <1>1 DEF Inv, Sizes, ReadAsStated, Completed
    <3>2. cmd.input \in Paths
      BY <1>1, <3>1 DEF Inv, TypeOK, CommandType, Paths
    <3> QED BY <1>1, <2>1, <3>1, <3>2 DEF Inv, TypeOK, Source
  <2>3. PICK l \in Nat, z \in Nat \ {0}, q \in Nat :
          /\ l = Source.len /\ z = SectorSize /\ q = TotalSectors(Source.len)
          /\ l % z = 0 /\ q * z >= l /\ (q - 1) * z < l
    BY <1>1, <2>2, Bounds, TotalFacts DEF IsCiphertextOf, FileType
  <2>4. q * z = l
    BY <2>3, WholeMultiple
  <2>5. files[cmd.output].len = Source.len
    BY <2>1, <2>3, <2>4 DEF Done
  <2>6. ASSUME NEW s \in 0 .. q - 1
        PROVE  files[cmd.output].at[s] = Kept(Image(n).at[s], n - s * SectorSize)
    <3>1. s \in Sectors /\ s \in Nat
      <4>1. q <= TotalSectors(OffMax) /\ TotalSectors(OffMax) \in Nat
        BY <2>2, <2>3, Bounds, TotalGrows, TotalFacts
      <4> QED BY <4>1 DEF Sectors
    <3>2. PICK k \in Content : k = Kept(Image(n).at[s], n - s * SectorSize)
                               /\ (Len(k.ops) > 0 => k.ops[Len(k.ops)].op # "dec")
      BY <1>1, <3>1, PlainSector
    <3>3. Source.at[s] = Crypt("enc", s, k)
      BY <1>1, <2>3, <3>2 DEF IsCiphertextOf
    <3>4. Source.len - s * SectorSize >= SectorSize
      <4>1. PICK e \in Nat : q = s + 1 + e
        <5>1. q - s - 1 \in Nat /\ q = s + 1 + (q - s - 1)
          BY <3>1
        <5> QED BY <5>1
      <4>2. q * z = s * z + z + e * z /\ e * z \in Nat /\ s * z \in Nat
        BY <3>1, <4>1
      <4> QED BY <2>3, <2>4, <4>2
    <3>5. Kept(Source.at[s], Source.len - s * SectorSize) = Source.at[s]
      BY <3>4 DEF Kept, Padded
    <3>6. files[cmd.output].at[s] = Crypt("dec", s, Source.at[s])
      BY <2>1, <2>3, <3>5 DEF Done, Goal
    <3>7. Crypt("dec", s, Crypt("enc", s, k)) = k
      BY <3>1, <3>2, DecryptUndoesEncrypt
    <3> QED BY <3>2, <3>3, <3>6, <3>7
  <2> QED BY <2>3, <2>5, <2>6
<1>2. Inv => RoundTrip
  BY <1>1 DEF RoundTrip
<1> QED BY <1>2, Invariance, PTL

=============================================================================
