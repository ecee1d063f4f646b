----------------------------- MODULE KeyProofs -----------------------------
(***************************************************************************)
(* For every number of keygen runs and every key: what the key file holds  *)
(* while runs write it, what a command makes of a file it reads meanwhile, *)
(* and what a key is once a command works with it.                         *)
(*                                                                         *)
(* FileInv says what a run under way owns of the file, ReadInv whose key   *)
(* the bytes are that a command has read, and KeyInv which checks a key    *)
(* has been through at each step.                                          *)
(***************************************************************************)
EXTENDS KeyCommands, FiniteSetTheorems, SequenceTheorems, TLAPS

Stages == {"start", "refused", "open", "write", "ok", "failed"}
Steps  == {"idle", "spec", "generate", "open", "read", "parse", "validate", "engine",
           "ready", "unsupported", "io", "invalid", "wrong_length", "panic"}

(* The runs whose key the file may hold, and the file, with n units of r.  *)
Known == {Keygen!Earlier} \cup {r \in Runs : stage[r] \notin {"start", "refused"}}
Units(r, n) == [i \in 1 .. n |-> r]
Words(r, n) == [i \in 1 .. n |-> WordOf(r, i)]

FileTypeOK ==
  /\ need \in [Runs -> 1 .. MaxUnits]
  /\ contents \in Seq(Runs \cup {Keygen!Earlier, Keygen!Hole})
  /\ stage \in [Runs -> Stages]
  /\ pos \in [Runs -> Nat] /\ \A r \in Runs : stage[r] \in {"start", "open"} => pos[r] = 0
  /\ last \in Runs \cup {0}
  /\ overlapped \in BOOLEAN

(* As long as no two runs were under way at once, the run that writes has  *)
(* opened the file last and the file is what it has written so far.        *)
FileInv ==
  overlapped = FALSE =>
    /\ \A q, r \in Runs : Keygen!UnderWay(q) /\ Keygen!UnderWay(r) => q = r
    /\ \A r \in Runs : stage[r] = "write" =>
         last = r /\ contents = Units(r, pos[r]) /\ pos[r] <= need[r]
    /\ last # 0 /\ stage[last] = "ok" => contents = Units(last, need[last])
    /\ \E r \in Known : contents = Units(r, Len(contents))

CommandTypeOK ==
  /\ command \in Keys!Commands \cup {"none"} /\ mode \in Keys!Modes
  /\ Keys!SizeAllowed(mode, bits)
  /\ look \in {"binary", "hex", "base64"} /\ format \in Keys!Formats
  /\ own \in Seq(Int) /\ data \in Seq(Int) /\ key \in Seq(Int)
  /\ pc \in Steps /\ reading \in BOOLEAN /\ cut \in BOOLEAN

(* What a command has read of a file that keygen writes, and the key it    *)
(* has made of it, are the beginning of one run's key.                     *)
ReadInv ==
  /\ pc \in {"spec", "open"} => data = <<>>
  /\ reading = TRUE => look = "binary" /\ format = "auto" /\ command \in Keys!Loading
  /\ reading = TRUE /\ cut = FALSE /\ overlapped = FALSE =>
       /\ pc = "read" => \E r \in Known :
            /\ contents = Units(r, Len(contents))
            /\ Len(data) <= 4 * Len(contents) /\ data = Words(r, Len(data))
       /\ pc = "parse" => \E r \in Known : data = Words(r, Len(data))
       /\ pc \in {"validate", "engine", "ready"} => \E r \in Known : key = Words(r, Len(key))

(* What has been checked of a key by the step the command has got to.      *)
KeyInv ==
  /\ pc = "spec" => command \in Keys!Commands
  /\ pc \in {"open", "read", "parse"} => command \in Keys!Loading
  /\ pc = "generate" => command \in {"bench", "keygen"}
  /\ pc = "validate" => command \in {"image", "keycheck"}
  /\ pc = "ready" => Keys!Fits
  /\ pc \in {"engine", "ready"} /\ command \in {"image", "keycheck"} => ~Keys!Repeats(key)
  /\ pc # "panic"

Inv == FileTypeOK /\ FileInv /\ CommandTypeOK /\ ReadInv /\ KeyInv

-----------------------------------------------------------------------------
(* Facts about the constants and about files of one run's units.           *)
LEMMA RunFacts ==
  /\ Runs \subseteq Nat \ {0} /\ 0 \notin Runs /\ -1 \notin Runs /\ MaxUnits \in Nat
  /\ Known \subseteq Nat
<1>1. \A r \in Runs : r \in Nat /\ r >= 1
  BY KeyCommandsAssumption
<1>2. MaxUnits \in Nat
  BY KeyCommandsAssumption
<1> QED BY <1>1, <1>2 DEF Known, Keygen!Earlier

(* The units a keygen run has written after n of its writes.               *)
LEMMA UnitsFacts ==
  ASSUME NEW r, NEW n \in Nat
  PROVE  /\ Len(Units(r, n)) = n /\ Units(r, n) \in Seq({r})
         /\ Units(r, 0) = <<>>
<1>1. Units(r, n) \in Seq({r})
  BY DEF Units
<1>2. Len(Units(r, n)) = n
  BY <1>1, LenProperties DEF Units
<1>3. Units(r, 0) = <<>>
  BY EmptySeq DEF Units
<1> QED BY <1>1, <1>2, <1>3

(* Before the first run there is no file, or a whole one of earlier.       *)
LEMMA FileInit ==
  ASSUME NEW started, started \subseteq Runs, Keygen!InitWith(started)
  PROVE  FileTypeOK /\ FileInv
<1>1. /\ need \in [Runs -> 1 .. MaxUnits] /\ last = 0 /\ overlapped = FALSE
      /\ stage = [r \in Runs |-> IF r \in started THEN "start" ELSE "refused"]
      /\ pos = [r \in Runs |-> 0]
  BY DEF Keygen!InitWith
<1>2. PICK n \in Nat : contents = Units(0, n)
  <2>1. CASE exists = TRUE
    BY <2>1, RunFacts DEF Keygen!InitWith, Keygen!Earlier, Units
  <2>2. CASE exists = FALSE
    BY <2>2, UnitsFacts DEF Keygen!InitWith
  <2> QED BY <2>1, <2>2 DEF Keygen!InitWith
<1>3. contents \in Seq({0}) /\ Len(contents) = n
  BY <1>2, UnitsFacts
<1>4. contents \in Seq(Runs \cup {0, -1})
  BY <1>3
<1>5. FileTypeOK
  BY <1>1, <1>4 DEF FileTypeOK, Keygen!Earlier, Keygen!Hole, Stages
<1>6. \A r \in Runs : stage[r] \in {"start", "refused"}
  BY <1>1
<1>7. 0 \in Known /\ contents = Units(0, Len(contents))
  BY <1>2, <1>3 DEF Known, Keygen!Earlier
<1>8. FileInv
  BY <1>1, <1>6, <1>7 DEF FileInv, Keygen!UnderWay
<1> QED BY <1>5, <1>8

(* A run that has begun to write stays one whose key the file may hold.    *)
LEMMA KnownGrows == FileTypeOK /\ Keygen!Step => Known \subseteq Known'
BY DEF FileTypeOK, Keygen!Step, Keygen!Check, Keygen!Open, Keygen!Write, Keygen!Finish,
       Keygen!Fail, Keygen!Goto, Keygen!UnderWay, Known, Keygen!Earlier

(* The existence check of a run: it is under way alone, or it overlaps.    *)
LEMMA CheckFile ==
  ASSUME FileTypeOK, FileInv, NEW r \in Runs, Keygen!Check(r)
  PROVE  FileTypeOK' /\ FileInv'
<1>1. /\ stage[r] = "start"
      /\ \/ stage' = [stage EXCEPT ![r] = "open"]
         \/ stage' = [stage EXCEPT ![r] = "refused"]
      /\ UNCHANGED <<need, contents, pos, last>>
  BY DEF Keygen!Check, Keygen!Goto
<1>2. /\ overlapped' \in BOOLEAN
      /\ overlapped' = FALSE =>
           overlapped = FALSE /\ ~\E q \in Runs : Keygen!UnderWay(q)
  BY DEF Keygen!Check, FileTypeOK
<1>3. FileTypeOK'
  BY <1>1, <1>2 DEF FileTypeOK, Stages, Keygen!Earlier, Keygen!Hole
<1>4. Known \subseteq Known'
  BY <1>1 DEF Known, FileTypeOK, Keygen!Earlier
<1>5. FileInv'
  BY <1>1, <1>2, <1>4 DEF FileInv, FileTypeOK, Keygen!UnderWay, Units
<1> QED BY <1>3, <1>5

(* The open truncates the file: no unit of another run is left in it.      *)
LEMMA OpenFile ==
  ASSUME FileTypeOK, FileInv, NEW r \in Runs, Keygen!Open(r)
  PROVE  FileTypeOK' /\ FileInv'
<1>1. /\ stage[r] = "open" /\ stage' = [stage EXCEPT ![r] = "write"]
      /\ contents' = <<>> /\ last' = r
      /\ UNCHANGED <<need, pos, overlapped>>
  BY DEF Keygen!Open, Keygen!Goto
<1>2. FileTypeOK'
  BY <1>1 DEF FileTypeOK, Stages, Keygen!Earlier, Keygen!Hole
<1>3. pos[r] = 0 /\ need[r] \in Nat /\ stage'[r] = "write"
  BY <1>1, RunFacts DEF FileTypeOK
<1>4. contents' = Units(r, 0) /\ Len(contents') = 0
  BY <1>1, UnitsFacts
<1>5. r \in Known'
  BY <1>3 DEF Known, Keygen!Earlier
<1>6. ASSUME overlapped' = FALSE PROVE FileInv'
  <2>1. \A q \in Runs : Keygen!UnderWay(q) => q = r
    BY <1>1, <1>6 DEF FileInv, Keygen!UnderWay
  <2>2. \A q \in Runs : stage'[q] \in {"open", "write"} => q = r
    BY <1>1, <2>1 DEF FileTypeOK, Keygen!UnderWay
  <2>3. \A q \in Runs : stage'[q] = "write" =>
          last' = q /\ contents' = Units(q, pos'[q]) /\ pos'[q] <= need'[q]
    BY <1>1, <1>3, <1>4, <2>2
  <2> QED BY <1>1, <1>3, <1>4, <1>5, <2>2, <2>3 DEF FileInv, Keygen!UnderWay
<1>7. FileInv'
  BY <1>6 DEF FileInv
<1> QED BY <1>2, <1>7

(* A piece is written at the run's own position, which is the file's end.  *)
LEMMA WriteFile ==
  ASSUME FileTypeOK, FileInv, NEW r \in Runs, Keygen!Write(r)
  PROVE  FileTypeOK' /\ FileInv'
<1>1. PICK at \in Nat, n \in Nat :
        /\ at = pos[r] + 1 /\ n = IF Len(contents) < at THEN at ELSE Len(contents)
        /\ contents' = [i \in 1 .. n |-> IF i = at THEN r
                          ELSE IF i <= Len(contents) THEN contents[i] ELSE -1]
  <2>1. pos[r] + 1 \in Nat /\ Len(contents) \in Nat
    BY LenProperties DEF FileTypeOK
  <2> QED BY <2>1 DEF Keygen!Write, Keygen!Hole
<1>2. /\ stage[r] = "write" /\ pos[r] < need[r] /\ pos[r] \in Nat /\ need[r] \in Nat
      /\ pos' = [pos EXCEPT ![r] = @ + 1]
      /\ UNCHANGED <<need, stage, last, overlapped>>
  BY RunFacts DEF Keygen!Write, FileTypeOK
<1>3. contents' \in Seq(Runs \cup {0, -1})
  <2>1. \A i \in 1 .. Len(contents) : contents[i] \in Runs \cup {0, -1}
    BY DEF FileTypeOK, Keygen!Earlier, Keygen!Hole
  <2> QED BY <1>1, <2>1
<1>4. FileTypeOK'
  BY <1>2, <1>3 DEF FileTypeOK, Keygen!Earlier, Keygen!Hole
<1>5. ASSUME overlapped' = FALSE PROVE FileInv'
  <2>1. /\ last = r /\ contents = Units(r, pos[r])
        /\ \A q, s \in Runs : Keygen!UnderWay(q) /\ Keygen!UnderWay(s) => q = s
    BY <1>2, <1>5 DEF FileInv
  <2>2. contents' = Units(r, pos[r] + 1) /\ pos'[r] = pos[r] + 1
    <3>1. Len(contents) = pos[r]
      BY <1>2, <2>1, UnitsFacts
    <3>2. \A i \in 1 .. pos[r] : contents[i] = r
      BY <2>1 DEF Units
    <3>3. n = pos[r] + 1 /\ at = pos[r] + 1
      BY <1>1, <1>2, <3>1
    <3>4. contents' = [i \in 1 .. pos[r] + 1 |-> r]
      BY <1>1, <1>2, <3>1, <3>2, <3>3
    <3> QED BY <1>2, <3>4 DEF Units, FileTypeOK
  <2>3. contents' = Units(r, Len(contents')) /\ r \in Known'
    <3>1. pos[r] + 1 \in Nat
      BY <1>2
    <3>2. Len(contents') = pos[r] + 1
      BY <2>2, <3>1, UnitsFacts
    <3> QED BY <1>2, <2>2, <3>2 DEF Known
  <2>4. \A q \in Runs : stage'[q] = "write" => q = r
    BY <1>2, <2>1 DEF Keygen!UnderWay
  <2> QED BY <1>2, <2>1, <2>2, <2>3, <2>4 DEF FileInv, Keygen!UnderWay
<1>6. FileInv'
  BY <1>5 DEF FileInv
<1> QED BY <1>4, <1>6

(* A run that has written all it needs leaves its whole key.               *)
LEMMA FinishFile ==
  ASSUME FileTypeOK, FileInv, NEW r \in Runs, Keygen!Finish(r)
  PROVE  FileTypeOK' /\ FileInv'
<1>1. /\ stage[r] = "write" /\ pos[r] = need[r]
      /\ stage' = [stage EXCEPT ![r] = "ok"]
      /\ UNCHANGED <<need, contents, pos, last, overlapped>>
  BY DEF Keygen!Finish, Keygen!Goto
<1>2. FileTypeOK'
  BY <1>1 DEF FileTypeOK, Stages, Keygen!Earlier, Keygen!Hole
<1>3. Known \subseteq Known'
  BY <1>1 DEF Known, FileTypeOK, Keygen!Earlier
<1>4. FileInv'
  BY <1>1, <1>3 DEF FileInv, FileTypeOK, Keygen!UnderWay, Units
<1> QED BY <1>2, <1>4

(* A run that fails or is killed leaves the file as it has got it.         *)
LEMMA FailFile ==
  ASSUME FileTypeOK, FileInv, NEW r \in Runs, Keygen!Fail(r)
  PROVE  FileTypeOK' /\ FileInv'
<1>1. /\ Keygen!UnderWay(r) /\ stage' = [stage EXCEPT ![r] = "failed"]
      /\ UNCHANGED <<need, contents, pos, last, overlapped>>
  BY DEF Keygen!Fail, Keygen!Goto
<1>2. FileTypeOK'
  BY <1>1 DEF FileTypeOK, Stages, Keygen!Earlier, Keygen!Hole
<1>3. Known \subseteq Known'
  BY <1>1 DEF Known, FileTypeOK, Keygen!Earlier, Keygen!UnderWay
<1>4. FileInv'
  BY <1>1, <1>3 DEF FileInv, FileTypeOK, Keygen!UnderWay, Units
<1> QED BY <1>2, <1>4

(* Every step of every keygen run keeps what each owns of the file.        *)
LEMMA FileStep == FileTypeOK /\ FileInv /\ Keygen!Step => FileTypeOK' /\ FileInv'
BY CheckFile, OpenFile, WriteFile, FinishFile, FailFile DEF Keygen!Step

-----------------------------------------------------------------------------
(* The words a reader may find in the file.                                *)
LEMMA WordsFacts ==
  ASSUME NEW r \in Int, NEW n \in Nat
  PROVE  /\ Words(r, n) \in Seq(Int) /\ Len(Words(r, n)) = n
         /\ \A i \in 1 .. n : Words(r, n)[i] = WordOf(r, i)
         /\ Words(r, 0) = <<>>
<1>1. \A i \in 1 .. n : WordOf(r, i) \in Int
  BY DEF WordOf
<1>2. Words(r, n) \in Seq(Int)
  BY <1>1 DEF Words
<1>3. Len(Words(r, n)) = n
  BY <1>2, LenProperties DEF Words
<1>4. Words(r, 0) = <<>>
  BY EmptySeq DEF Words
<1> QED BY <1>2, <1>3, <1>4 DEF Words

(* The words of a file whose units are those of one run.                   *)
LEMMA WrittenFacts ==
  ASSUME FileTypeOK
  PROVE  /\ Written \in Seq(Int) /\ Len(Written) = 4 * Len(contents)
         /\ \A r : contents = Units(r, Len(contents)) =>
              Written = Words(r, 4 * Len(contents))
<1> DEFINE n == Len(contents)
<1>1. n \in Nat /\ \A i \in 1 .. n : contents[i] \in Int
  BY LenProperties, RunFacts DEF FileTypeOK, Keygen!Earlier, Keygen!Hole
<1>2. \A i \in 1 .. 4 * n : ((i - 1) \div 4) + 1 \in 1 .. n
  <2> HIDE DEF n
  <2> QED BY <1>1
<1>3. \A i \in 1 .. 4 * n : WordOf(contents[((i - 1) \div 4) + 1], i) \in Int
  BY <1>1, <1>2 DEF WordOf
<1>4. Written \in Seq(Int)
  BY <1>1, <1>3 DEF Written
<1>5. Len(Written) = 4 * n
  BY <1>1, <1>4, LenProperties DEF Written
<1>6. ASSUME NEW r, contents = Units(r, n)
      PROVE  Written = Words(r, 4 * n)
  <2>1. \A j \in 1 .. n : contents[j] = r
    BY <1>6 DEF Units
  <2>2. \A i \in 1 .. 4 * n : contents[((i - 1) \div 4) + 1] = r
    BY <1>2, <2>1
  <2> HIDE DEF n
  <2> QED BY <2>2 DEF Written, Words, n
<1> QED BY <1>4, <1>5, <1>6

(* What a run of keygen does to the file keeps what has been read of it    *)
(* the beginning of a key, or the reader is told that it was cut.          *)
LEMMA GeneratesInv ==
  ASSUME Inv, Generates
  PROVE  Inv'
<1>1. /\ FileTypeOK /\ FileInv /\ CommandTypeOK /\ ReadInv /\ KeyInv /\ Keygen!Step
      /\ UNCHANGED <<look, command, mode, size, format, data, key, bits, pc, reading, own>>
  BY DEF Inv, Generates, readVars
<1>2. FileTypeOK' /\ FileInv' /\ Known \subseteq Known'
  BY <1>1, FileStep, KnownGrows
<1>3. CommandTypeOK'
  BY <1>1 DEF CommandTypeOK, Generates
<1>4. KeyInv'
  BY <1>1 DEF KeyInv, Keys!Fits
<1>5. overlapped' = FALSE => overlapped = FALSE
  <2>1. \/ overlapped' = overlapped
        \/ overlapped' = (overlapped \/ \E q \in Runs : Keygen!UnderWay(q))
    BY <1>1 DEF Keygen!Step, Keygen!Check, Keygen!Open, Keygen!Write, Keygen!Finish, Keygen!Fail
  <2>2. overlapped \in BOOLEAN
    BY <1>1 DEF FileTypeOK
  <2> QED BY <2>1, <2>2
<1>6. cut' = FALSE => cut = FALSE /\ (pc = "read" => Len(contents') >= Len(contents))
  <2>1. Len(contents) \in Nat /\ Len(contents') \in Nat
    BY <1>1, <1>2, LenProperties DEF FileTypeOK
  <2>2. cut \in BOOLEAN /\ cut' = (cut \/ (pc = "read" /\ Len(contents') < Len(contents)))
    BY <1>1 DEF Generates, CommandTypeOK
  <2>3. cut' = FALSE => cut = FALSE /\ ~(pc = "read" /\ Len(contents') < Len(contents))
    BY <2>2
  <2> QED BY <2>1, <2>3
<1>7. ASSUME reading' = TRUE, cut' = FALSE, overlapped' = FALSE, pc' = "read"
      PROVE  \E r \in Known' :
               /\ contents' = Units(r, Len(contents'))
               /\ Len(data') <= 4 * Len(contents') /\ data' = Words(r, Len(data'))
  <2>1. PICK r \in Known : /\ contents = Units(r, Len(contents))
                           /\ Len(data) <= 4 * Len(contents) /\ data = Words(r, Len(data))
    BY <1>1, <1>5, <1>6, <1>7 DEF ReadInv
  <2>2. r \in Known' /\ data' = data
    BY <1>1, <1>2
  <2>3. Len(data) \in Nat /\ Len(contents) \in Nat
    BY <1>1, LenProperties DEF CommandTypeOK, FileTypeOK
  <2>4. CASE contents' = contents
    BY <2>1, <2>2, <2>4
  <2>5. CASE \E q \in Runs : Keygen!Open(q)
    <3>1. contents' = <<>> /\ Len(contents') = 0
      BY <2>5, EmptySeq DEF Keygen!Open
    <3>2. Len(data) = 0
      BY <1>1, <1>6, <1>7, <2>1, <2>3, <3>1
    <3>3. contents' = Units(r, Len(contents'))
      BY <3>1, UnitsFacts
    <3> QED BY <2>1, <2>2, <3>1, <3>2, <3>3
  <2>6. ASSUME NEW q \in Runs, Keygen!Write(q)
        PROVE  \E s \in Known' :
                 /\ contents' = Units(s, Len(contents'))
                 /\ Len(data') <= 4 * Len(contents') /\ data' = Words(s, Len(data'))
    <3>1. /\ stage[q] = "write" /\ stage'[q] = "write" /\ pos'[q] = pos[q] + 1
          /\ pos[q] \in Nat /\ q \in Nat
      BY <1>1, <2>6, RunFacts DEF Keygen!Write, FileTypeOK
    <3>2. contents = Units(q, pos[q]) /\ contents' = Units(q, pos[q] + 1)
      BY <1>1, <1>2, <1>5, <1>7, <3>1 DEF FileInv
    <3>3. Len(contents) = pos[q] /\ Len(contents') = pos[q] + 1
      <4>1. pos[q] + 1 \in Nat
        BY <3>1
      <4> QED BY <3>1, <3>2, <4>1, UnitsFacts
    <3>4. q \in Known'
      BY <3>1 DEF Known
    <3>5. data = Words(q, Len(data))
      <4>1. CASE pos[q] = 0
        <5>1. Len(data) = 0 /\ data = <<>>
          BY <1>1, <2>1, <2>3, <3>3, <4>1, EmptySeq DEF CommandTypeOK
        <5> QED BY <3>1, <5>1, WordsFacts
      <4>2. CASE pos[q] # 0
        <5>1. contents[1] = q /\ contents[1] = r
          BY <2>1, <3>1, <3>2, <3>3, <4>2 DEF Units
        <5> QED BY <2>1, <5>1
      <4> QED BY <4>1, <4>2
    <3> QED BY <2>1, <2>2, <2>3, <3>2, <3>3, <3>4, <3>5
  <2> QED
    BY <1>1, <2>4, <2>5, <2>6 DEF Keygen!Step, Keygen!Check, Keygen!Finish, Keygen!Fail
<1>8. ReadInv'
  <2>1. ASSUME reading' = TRUE, cut' = FALSE, overlapped' = FALSE
        PROVE  /\ pc' = "parse" => \E r \in Known' : data' = Words(r, Len(data'))
               /\ pc' \in {"validate", "engine", "ready"} =>
                    \E r \in Known' : key' = Words(r, Len(key'))
    BY <1>1, <1>2, <1>5, <1>6, <2>1 DEF ReadInv
  <2> QED BY <1>1, <1>7, <2>1 DEF ReadInv
<1> QED BY <1>2, <1>3, <1>4, <1>8 DEF Inv

-----------------------------------------------------------------------------
(* A command that loads a key changes nothing of the file.                 *)
LEMMA LoadsKeepsFile ==
  Inv /\ UNCHANGED <<fileVars, reading, own, cut>> =>
    FileTypeOK' /\ FileInv' /\ Known' = Known
BY DEF Inv, fileVars, FileTypeOK, FileInv, Known, Units, Keygen!UnderWay, Stages,
       Keygen!Earlier, Keygen!Hole

(* The cipher is resolved before anything of the file is read.             *)
LEMMA ResolveInv ==
  ASSUME Inv, Keys!ResolveSpec, UNCHANGED <<fileVars, reading, own, cut>>
  PROVE  Inv'
<1>1. /\ pc = "spec" /\ pc' \in {"open", "generate", "unsupported"}
      /\ pc' = "open" => command \in Keys!Loading
      /\ pc' = "generate" => command \notin Keys!Loading
      /\ bits' = bits \/ Keys!SizeAllowed(mode, bits')
      /\ UNCHANGED <<look, command, mode, size, format, data, key>>
  BY DEF Keys!ResolveSpec, Keys!AfterSpec
<1>2. CommandTypeOK'
  BY <1>1 DEF Inv, CommandTypeOK, Steps
<1>3. ReadInv'
  BY <1>1 DEF Inv, ReadInv
<1>4. KeyInv'
  BY <1>1 DEF Inv, KeyInv, Keys!Commands
<1> QED BY <1>2, <1>3, <1>4, LoadsKeepsFile DEF Inv

(* A key has four or eight words of 64 bits.                               *)
LEMMA RequiredWords ==
  ASSUME NEW m, NEW b, m \in Keys!Modes, Keys!SizeAllowed(m, b)
  PROVE  /\ Keys!Required(m, b) \in {4, 8}
         /\ 64 * Keys!Required(m, b) = IF m = "XtsPlain64" THEN 2 * b ELSE 256
<1>1. b = 128 \/ b = 192 \/ b = 256
  BY DEF Keys!SizeAllowed
<1>2. 128 \div 64 = 2 /\ 192 \div 64 = 3 /\ 256 \div 64 = 4
  OBVIOUS
<1> QED BY <1>1, <1>2 DEF Keys!SizeAllowed, Keys!Required, Keys!Modes

(* A generated key has no half word, and just the words its spec requires. *)
LEMMA GenerateInv ==
  ASSUME Inv, Keys!Generate, UNCHANGED <<fileVars, reading, own, cut>>
  PROVE  Inv'
<1>1. PICK n \in {4, 8} : n = Keys!Required(mode, bits)
  BY RequiredWords DEF Inv, CommandTypeOK
<1>2. /\ pc = "generate" /\ key' \in [1 .. n -> Alphabet]
      /\ pc' = Keys!AfterKey
      /\ UNCHANGED <<look, command, mode, size, format, data, bits>>
  BY <1>1 DEF Keys!Generate
<1>3. key' \in Seq(Int) /\ Len(key') = n /\ key'[n] \in Nat
  <2>1. key' \in [1 .. n -> Nat] /\ n \in Nat /\ n >= 1
    <3>1. Alphabet \subseteq Nat
      BY KeyCommandsAssumption
    <3>2. key' \in [1 .. n -> Nat]
      BY <1>2, <3>1
    <3> QED BY <1>1, <3>2
  <2>2. key' \in Seq(Nat)
    BY <2>1
  <2>3. Len(key') = n
    BY <2>1, <2>2, LenProperties
  <2> QED BY <2>1, <2>2, <2>3
<1>4. \/ command = "bench" /\ pc' = "engine"
      \/ command = "keygen" /\ pc' = "ready"
  BY <1>2 DEF Inv, KeyInv, Keys!AfterKey
<1>5. Keys!Fits'
  BY <1>1, <1>2, <1>3 DEF Keys!Fits, Keys!NumBytes, Keys!HalfWord, Keys!Required
<1>6. CommandTypeOK'
  BY <1>2, <1>3, <1>4 DEF Inv, CommandTypeOK, Steps
<1>7. ReadInv'
  BY <1>2, <1>4 DEF Inv, ReadInv, Keys!Loading
<1>8. KeyInv'
  BY <1>2, <1>4, <1>5 DEF Inv, KeyInv
<1> QED BY <1>6, <1>7, <1>8, LoadsKeepsFile DEF Inv

(* Opening the key file reads nothing of it yet.                           *)
LEMMA OpenKeyInv ==
  ASSUME Inv, Keys!OpenKey, UNCHANGED <<fileVars, reading, own, cut>>
  PROVE  Inv'
<1>1. /\ pc = "open" /\ pc' \in {"io", "read"} /\ data = <<>>
      /\ UNCHANGED <<look, command, mode, size, format, data, key, bits>>
  BY DEF Keys!OpenKey, Inv, ReadInv
<1>2. CommandTypeOK'
  BY <1>1 DEF Inv, CommandTypeOK, Steps
<1>3. KeyInv'
  BY <1>1 DEF Inv, KeyInv
<1>4. FileTypeOK' /\ FileInv' /\ Known' = Known /\ contents' = contents
  BY LoadsKeepsFile DEF fileVars
<1>5. ASSUME overlapped = FALSE
      PROVE  \E r \in Known :
               /\ contents = Units(r, Len(contents))
               /\ Len(data) <= 4 * Len(contents) /\ data = Words(r, Len(data))
  <2>1. PICK r \in Known : contents = Units(r, Len(contents))
    BY <1>5 DEF Inv, FileInv
  <2>2. Len(data) = 0 /\ Len(contents) \in Nat
    BY <1>1, EmptySeq, LenProperties DEF Inv, FileTypeOK
  <2>3. r \in Int /\ data = Words(r, 0)
    BY <1>1, RunFacts, WordsFacts
  <2> QED BY <2>1, <2>2, <2>3
<1>6. ReadInv'
  BY <1>1, <1>4, <1>5 DEF Inv, ReadInv, fileVars
<1> QED BY <1>2, <1>3, <1>4, <1>6 DEF Inv

(* A read goes on where the last one ended, in whatever the file is then.  *)
LEMMA ReadStepInv ==
  ASSUME Inv, Keys!Read, UNCHANGED <<fileVars, reading, own, cut>>
  PROVE  Inv'
<1>1. PICK f \in Seq(Int) : f = IF reading THEN Written ELSE own
  BY WrittenFacts DEF Inv, CommandTypeOK
<1>2. /\ pc = "read"
      /\ \/ pc' = "io" /\ UNCHANGED data
         \/ /\ Len(f) > Len(data) /\ UNCHANGED pc
            /\ data' = data \o SubSeq(f, Len(data) + 1, Len(f))
         \/ Len(f) <= Len(data) /\ pc' = "parse" /\ UNCHANGED data
      /\ UNCHANGED <<look, command, mode, size, format, key, bits>>
  BY <1>1 DEF Keys!Read
<1>3. data \in Seq(Int) /\ Len(data) \in Nat /\ Len(f) \in Nat
  BY <1>1, LenProperties DEF Inv, CommandTypeOK
<1>4. ASSUME Len(f) > Len(data), data' = data \o SubSeq(f, Len(data) + 1, Len(f))
      PROVE  /\ data' \in Seq(Int) /\ Len(data') = Len(f)
             /\ \A i \in 1 .. Len(data) : data'[i] = data[i]
             /\ \A i \in Len(data) + 1 .. Len(f) : data'[i] = f[i]
  BY <1>1, <1>3, <1>4
<1>5. CommandTypeOK'
  BY <1>2, <1>4 DEF Inv, CommandTypeOK, Steps
<1>6. KeyInv'
  BY <1>2 DEF Inv, KeyInv, Keys!Fits
<1>7. FileTypeOK' /\ FileInv' /\ Known' = Known /\ contents' = contents
  BY LoadsKeepsFile DEF fileVars
<1>8. ASSUME reading = TRUE, cut = FALSE, overlapped = FALSE
      PROVE  \E r \in Known :
               /\ contents = Units(r, Len(contents))
               /\ Len(data') <= 4 * Len(contents) /\ data' = Words(r, Len(data'))
  <2>1. PICK r \in Known : /\ contents = Units(r, Len(contents))
                           /\ Len(data) <= 4 * Len(contents) /\ data = Words(r, Len(data))
    BY <1>2, <1>8 DEF Inv, ReadInv
  <2>2. r \in Int /\ Len(contents) \in Nat /\ 4 * Len(contents) \in Nat
    BY RunFacts, LenProperties DEF Inv, FileTypeOK
  <2>3. f = Words(r, 4 * Len(contents)) /\ Len(f) = 4 * Len(contents)
    BY <1>1, <1>8, <2>1, WrittenFacts DEF Inv
  <2>4. CASE data' = data
    BY <2>1, <2>4
  <2>5. CASE Len(f) > Len(data) /\ data' = data \o SubSeq(f, Len(data) + 1, Len(f))
    <3>1. PICK m \in Nat, n \in Nat :
            m = Len(data) /\ n = Len(f) /\ n = 4 * Len(contents)
      BY <1>3, <2>3
    <3>2. data = Words(r, m) /\ f = Words(r, n)
      BY <2>1, <2>3, <3>1
    <3>3. /\ \A i \in 1 .. m : data[i] = WordOf(r, i)
          /\ \A i \in 1 .. n : f[i] = WordOf(r, i)
      BY <2>2, <3>2, WordsFacts
    <3>4. \A i \in 1 .. n : data'[i] = WordOf(r, i)
      BY <1>4, <2>5, <3>1, <3>3
    <3>5. /\ Words(r, n) \in Seq(Int) /\ Len(Words(r, n)) = n
          /\ \A i \in 1 .. n : Words(r, n)[i] = WordOf(r, i)
      BY <2>2, WordsFacts
    <3>6. data' \in Seq(Int) /\ Len(data') = n
      BY <1>4, <2>5, <3>1
    <3>7. data' = Words(r, n)
      BY <3>4, <3>5, <3>6, SeqEqual
    <3>8. data' = Words(r, Len(data')) /\ Len(data') <= 4 * Len(contents)
      BY <3>1, <3>6, <3>7
    <3> QED BY <2>1, <3>8
  <2> QED BY <1>2, <2>4, <2>5
<1>9. ReadInv'
  <2>1. ASSUME reading' = TRUE, cut' = FALSE, overlapped' = FALSE
        PROVE  \E r \in Known' :
                 /\ contents' = Units(r, Len(contents'))
                 /\ Len(data') <= 4 * Len(contents') /\ data' = Words(r, Len(data'))
    BY <1>7, <1>8, <2>1 DEF fileVars
  <2> QED BY <1>2, <2>1 DEF Inv, ReadInv
<1> QED BY <1>5, <1>6, <1>7, <1>9 DEF Inv

(* Whatever a key is taken for, what comes out of it is a sequence.        *)
LEMMA ParsedIsSequence ==
  ASSUME CommandTypeOK
  PROVE  Keys!Parsed \subseteq Seq(Int)
<1>1. /\ data \in Seq(Int) /\ Len(data) \in Nat
      /\ \A i \in 1 .. Len(data) : data[i] \in Int
  BY LenProperties DEF CommandTypeOK
<1>2. Keys!HexText(data) \in Seq(Int)
  <2>1. \A i \in 1 .. 2 * Len(data) : i % 2 = 0 => i \div 2 \in 1 .. Len(data)
    BY <1>1
  <2>2. 2 * Len(data) \in Nat
    BY <1>1
  <2> QED BY <1>1, <2>1, <2>2 DEF Keys!HexText
<1>3. ASSUME NEW n \in Nat PROVE Keys!OtherText(n) \subseteq Seq(Int)
  <2>1. PICK m \in Nat : m = (n + 7) \div 8
    OBVIOUS
  <2>2. ASSUME NEW s \in {0, 1}
        PROVE  [i \in 1 .. m |-> IF i = m /\ n % 8 # 0 THEN -1 ELSE 10 + (i * s)] \in Seq(Int)
    <3>1. \A i \in 1 .. m : 10 + (i * s) \in Int
      OBVIOUS
    <3> QED BY <3>1
  <2> QED BY <2>1, <2>2 DEF Keys!OtherText, Keys!HalfWord
<1>4. 12 * Len(data) \in Nat /\ 4 * ((8 * Len(data) + 2) \div 3) \in Nat
  BY <1>1
<1>5. <<>> \in Seq(Int)
  BY EmptySeq
<1>6. Keys!Format \in {"raw", "hex", "base64"} /\ look \in {"binary", "hex", "base64"}
  BY DEF CommandTypeOK, Keys!Format, Keys!Formats
<1> QED BY <1>1, <1>2, <1>3, <1>4, <1>5, <1>6 DEF Keys!Parsed

(* A key is parsed out of what was read, whole or in part.                 *)
LEMMA ParseInv ==
  ASSUME Inv, Keys!Parse, UNCHANGED <<fileVars, reading, own, cut>>
  PROVE  Inv'
<1>1. /\ pc = "parse" /\ command \in Keys!Loading
      /\ \/ pc' = "io" /\ UNCHANGED key
         \/ key' \in Keys!Parsed /\ pc' = Keys!AfterKey
      /\ UNCHANGED <<look, command, mode, size, format, data, bits>>
  BY DEF Inv, KeyInv, Keys!Parse
<1>2. /\ Keys!AfterKey \in {"validate", "engine"}
      /\ Keys!AfterKey = "validate" <=> command \in {"image", "keycheck"}
  BY <1>1 DEF Keys!AfterKey, Keys!Loading
<1>3. key' \in Seq(Int)
  <2>1. key \in Seq(Int)
    BY DEF Inv, CommandTypeOK
  <2> QED BY <1>1, <2>1, ParsedIsSequence DEF Inv
<1>4. CommandTypeOK'
  BY <1>1, <1>2, <1>3 DEF Inv, CommandTypeOK, Steps
<1>5. KeyInv'
  BY <1>1, <1>2 DEF Inv, KeyInv
<1>6. FileTypeOK' /\ FileInv' /\ Known' = Known
  BY LoadsKeepsFile
<1>7. ASSUME reading = TRUE, key' \in Keys!Parsed
      PROVE  key' = data
  BY <1>7 DEF Inv, ReadInv, Keys!Parsed, Keys!Format
<1>8. ReadInv'
  <2>1. ASSUME reading' = TRUE, cut' = FALSE, overlapped' = FALSE,
               pc' \in {"validate", "engine"}
        PROVE  \E r \in Known' : key' = Words(r, Len(key'))
    <3>1. key' = data
      BY <1>1, <1>7, <2>1
    <3>2. PICK r \in Known : data = Words(r, Len(data))
      BY <1>1, <2>1 DEF Inv, ReadInv, fileVars
    <3> QED BY <1>6, <3>1, <3>2
  <2> QED BY <1>1, <1>2, <2>1 DEF Inv, ReadInv
<1> QED BY <1>4, <1>5, <1>6, <1>8 DEF Inv

(* validate_key lets a key pass only with the length and the halves it     *)
(* must have.                                                              *)
LEMMA ValidateInv ==
  ASSUME Inv, Keys!Validate, UNCHANGED <<fileVars, reading, own, cut>>
  PROVE  Inv'
<1>1. /\ pc = "validate" /\ pc' \in {"invalid", "engine", "ready"}
      /\ pc' # "invalid" => Keys!Fits /\ ~Keys!Repeats(key)
      /\ UNCHANGED <<look, command, mode, size, format, data, key, bits>>
  BY DEF Keys!Validate
<1>2. CommandTypeOK'
  BY <1>1 DEF Inv, CommandTypeOK, Steps
<1>3. KeyInv'
  BY <1>1 DEF Inv, KeyInv, Keys!Fits
<1>4. FileTypeOK' /\ FileInv' /\ Known' = Known
  BY LoadsKeepsFile
<1>5. ReadInv'
  BY <1>1, <1>4 DEF Inv, ReadInv, fileVars
<1> QED BY <1>2, <1>3, <1>4, <1>5 DEF Inv

(* The spec has been checked, so ESSIV has 256 bits by now.                *)
LEMMA BuildEngineInv ==
  ASSUME Inv, Keys!BuildEngine, UNCHANGED <<fileVars, reading, own, cut>>
  PROVE  Inv'
<1>1. /\ pc = "engine" /\ pc' \in {"wrong_length", "ready"}
      /\ pc' = "ready" => Keys!Fits
      /\ UNCHANGED <<look, command, mode, size, format, data, key, bits>>
  BY DEF Keys!BuildEngine, Inv, CommandTypeOK, Keys!SizeAllowed
<1>2. CommandTypeOK'
  BY <1>1 DEF Inv, CommandTypeOK, Steps
<1>3. KeyInv'
  BY <1>1 DEF Inv, KeyInv, Keys!Fits
<1>4. FileTypeOK' /\ FileInv' /\ Known' = Known
  BY LoadsKeepsFile
<1>5. ReadInv'
  BY <1>1, <1>4 DEF Inv, ReadInv, fileVars
<1> QED BY <1>2, <1>3, <1>4, <1>5 DEF Inv

-----------------------------------------------------------------------------
(* Before any run writes and any command reads.                            *)
LEMMA InitInv == Init => Inv
<1> SUFFICES ASSUME Init PROVE Inv
  OBVIOUS
<1>1. FileTypeOK /\ FileInv
  BY FileInit, KeyCommandsAssumption DEF Init, Keygen!Init
<1>2. /\ data = <<>> /\ key = <<>> /\ bits = 256 /\ pc \in {"idle", "spec"} /\ cut = FALSE
      /\ mode \in Keys!Modes /\ command \in Keys!Commands \cup {"none"}
      /\ pc = "spec" => command \in Keys!Commands
      /\ reading = TRUE => look = "binary" /\ format = "auto" /\ command \in Keys!Loading
      /\ reading \in BOOLEAN
      /\ look \in {"binary", "hex", "base64"} /\ format \in Keys!Formats
  BY DEF Init, Keys!InitWith, Keys!KeysIdle, Keys!Modes, Keys!Commands, Keys!Formats
<1>3. own \in Seq(Int)
  <2>1. ASSUME NEW n \in Nat, own \in WordsUpTo(n) PROVE own \in Seq(Int)
    <3>1. PICK m \in 0 .. n : own \in [1 .. m -> Alphabet]
      BY <2>1 DEF WordsUpTo
    <3>2. Alphabet \subseteq Int
      BY KeyCommandsAssumption
    <3>3. own \in [1 .. m -> Int]
      BY <3>1, <3>2
    <3> QED BY <3>1, <3>3
  <2>2. own = <<>> \/ own \in WordsUpTo(MaxWords) \/ own \in WordsUpTo(MaxText)
    BY DEF Init
  <2>3. MaxWords \in Nat /\ MaxText \in Nat
    BY KeyCommandsAssumption
  <2> QED BY <2>1, <2>2, <2>3, EmptySeq
<1>4. CommandTypeOK
  <2>1. data \in Seq(Int) /\ key \in Seq(Int)
    BY <1>2, EmptySeq
  <2>2. Keys!SizeAllowed(mode, bits)
    BY <1>2 DEF Keys!SizeAllowed
  <2>3. pc \in Steps /\ cut \in BOOLEAN
    BY <1>2 DEF Steps
  <2> QED BY <1>2, <1>3, <2>1, <2>2, <2>3 DEF CommandTypeOK
<1>5. ReadInv /\ KeyInv
  BY <1>2 DEF ReadInv, KeyInv
<1> QED BY <1>1, <1>4, <1>5 DEF Inv

(* Every step of the writers, the reader and the other commands keeps it.  *)
LEMMA StepInv == Inv /\ [Next]_vars => Inv'
<1> SUFFICES ASSUME Inv, [Next]_vars PROVE Inv'
  OBVIOUS
<1>1. CASE Loads
  BY <1>1, ResolveInv, GenerateInv, OpenKeyInv, ReadStepInv, ParseInv, ValidateInv,
     BuildEngineInv DEF Loads, Keys!KeysNext
<1>2. CASE UNCHANGED vars
  <2>1. /\ UNCHANGED <<fileVars, reading, own, cut>>
        /\ UNCHANGED <<look, command, mode, size, format, data, key, bits, pc>>
    BY <1>2 DEF vars, readVars
  <2>2. FileTypeOK' /\ FileInv' /\ Known' = Known
    BY <2>1, LoadsKeepsFile
  <2>3. CommandTypeOK'
    BY <2>1 DEF Inv, CommandTypeOK
  <2>4. ReadInv'
    BY <2>1, <2>2 DEF Inv, ReadInv, fileVars
  <2>5. KeyInv'
    BY <2>1 DEF Inv, KeyInv, Keys!Fits
  <2> QED BY <2>2, <2>3, <2>4, <2>5 DEF Inv
<1> QED BY <1>1, <1>2, GeneratesInv DEF Next, Over

(* The invariant of the key file, its writers and the command reading it.  *)
LEMMA Invariance == Spec => []Inv
BY InitInv, StepInv, PTL DEF Spec

-----------------------------------------------------------------------------
(* As long as runs do not overlap, whatever fails or is killed on the way, *)
(* the file holds units of one key only.                                   *)
THEOREM KeysDoNotMix == Spec => []NeverMixed
<1>1. Inv => NeverMixed
  <2> SUFFICES ASSUME Inv, ~overlapped, NEW i \in DOMAIN contents, NEW j \in DOMAIN contents
               PROVE  contents[i] = contents[j]
    BY DEF NeverMixed, Keygen!NeverMixed
  <2>1. overlapped = FALSE
    BY DEF Inv, FileTypeOK
  <2>2. PICK r \in Known : contents = Units(r, Len(contents))
    BY <2>1 DEF Inv, FileInv
  <2> QED BY <2>2 DEF Units
<1> QED BY <1>1, Invariance, PTL

(* A run that reports its key as written has left all of it, and no more.  *)
THEOREM WrittenKeyIsWhole == Spec => []WrittenIsWhole
<1>1. Inv => WrittenIsWhole
  <2> SUFFICES ASSUME Inv, ~overlapped, last # 0, stage[last] = "ok"
               PROVE  contents = [i \in 1 .. need[last] |-> last]
    BY DEF WrittenIsWhole, Keygen!WrittenIsWhole
  <2>1. overlapped = FALSE
    BY DEF Inv, FileTypeOK
  <2> QED BY <2>1 DEF Inv, FileInv, Units
<1> QED BY <1>1, Invariance, PTL

(* The unreachable! of the engine is: with_aes_bits has been before it.    *)
THEOREM PanicIsUnreachable == Spec => []UnreachableIsUnreachable
<1>1. Inv => UnreachableIsUnreachable
  BY DEF Inv, KeyInv, UnreachableIsUnreachable, Keys!UnreachableIsUnreachable
<1> QED BY <1>1, Invariance, PTL

(* Every command checks the length of the key it goes on to use, each at a *)
(* place of its own, or makes a key of that length.                        *)
THEOREM MaterialFits == Spec => []MaterialIsExact
<1>1. Inv => MaterialIsExact
  <2> SUFFICES ASSUME Inv, pc = "ready"
               PROVE  Keys!NumBytes(key) * 8 = IF mode = "XtsPlain64" THEN 2 * bits ELSE 256
    BY DEF MaterialIsExact, Keys!MaterialIsExact
  <2>1. PICK n \in {4, 8} : n = Keys!Required(mode, bits)
    BY RequiredWords DEF Inv, CommandTypeOK
  <2>2. 64 * n = IF mode = "XtsPlain64" THEN 2 * bits ELSE 256
    BY <2>1, RequiredWords DEF Inv, CommandTypeOK
  <2>3. Keys!NumBytes(key) = 8 * n
    BY <2>1 DEF Inv, KeyInv, Keys!Fits
  <2> QED BY <2>1, <2>2, <2>3
<1> QED BY <1>1, Invariance, PTL

(* Fits counts bytes; a key of one run has no half word, so it also counts *)
(* words, and what is ready to use is the beginning of that run's key.     *)
THEOREM UsedKeyWhole == Spec => []UsedKeyIsWhole
<1>1. Inv => UsedKeyIsWhole
  <2> SUFFICES ASSUME Inv, reading, pc = "ready", ~overlapped, ~cut
               PROVE  \E r \in Known : key = Words(r, Keys!Required(mode, bits))
    BY DEF UsedKeyIsWhole, Known, Words
  <2>1. overlapped = FALSE /\ cut = FALSE /\ reading = TRUE
    BY DEF Inv, FileTypeOK, CommandTypeOK
  <2>2. PICK r \in Known : key = Words(r, Len(key))
    BY <2>1 DEF Inv, ReadInv
  <2>3. PICK m \in Nat : m = Len(key)
    BY LenProperties DEF Inv, CommandTypeOK
  <2>4. r \in Nat /\ r \in Int /\ r # -1
    BY RunFacts
  <2>5. \A i \in 1 .. m : key[i] = WordOf(r, i)
    <3>1. key = Words(r, m)
      BY <2>2, <2>3
    <3> QED BY <2>4, <3>1, WordsFacts
  <2>6. \A i \in 1 .. m : key[i] # -1
    BY <2>4, <2>5 DEF WordOf, Keygen!Hole
  <2>7. key # <<>> => m >= 1
    BY <2>3, EmptySeq DEF Inv, CommandTypeOK
  <2>8. Keys!NumBytes(key) = 8 * m
    BY <2>3, <2>6, <2>7 DEF Keys!NumBytes, Keys!HalfWord
  <2>9. PICK n \in {4, 8} : n = Keys!Required(mode, bits)
    BY RequiredWords DEF Inv, CommandTypeOK
  <2>10. m = n
    BY <2>8, <2>9 DEF Inv, KeyInv, Keys!Fits
  <2> QED BY <2>2, <2>3, <2>9, <2>10
<1> QED BY <1>1, Invariance, PTL

-----------------------------------------------------------------------------
(* Every set of numbers that is not empty has a least one: the sets 0 .. t *)
(* are finite, and strict inclusion of finite sets is well founded.        *)
LEMMA LeastNumber ==
  ASSUME NEW T, T \subseteq Nat, T # {}
  PROVE  \E x \in T : \A y \in T : x <= y
<1> DEFINE Below(t) == 0 .. t
           S == {Below(t) : t \in T}
<1>1. S # {} /\ S \subseteq FiniteSubsetsOf(Nat)
  <2>1. ASSUME NEW t \in T PROVE Below(t) \in SUBSET Nat /\ IsFiniteSet(Below(t))
    <3>1. t \in Int /\ 0 \in Int
      OBVIOUS
    <3> QED BY <3>1, FS_Interval
  <2> QED BY <2>1 DEF FiniteSubsetsOf
<1>2. PICK s \in S : \A u \in S : <<u, s>> \notin StrictSubsetOrdering(Nat)
  <2> HIDE DEF S
  <2> QED BY <1>1, FS_StrictSubsetOrderingWellFounded, WFMin
<1>3. PICK x \in T : s = Below(x)
  OBVIOUS
<1>4. ASSUME NEW y \in T, ~(x <= y) PROVE FALSE
  <2>1. Below(y) \in S /\ Below(y) \in SUBSET Nat /\ s \in SUBSET Nat
    BY <1>3
  <2>2. Below(y) \subseteq s /\ Below(y) # s
    <3>1. x \in s /\ x \notin Below(y)
      BY <1>3, <1>4
    <3>2. Below(y) \subseteq s
      BY <1>3, <1>4
    <3> QED BY <3>1, <3>2
  <2>3. <<Below(y), s>> \in StrictSubsetOrdering(Nat)
    <3> HIDE DEF Below
    <3> QED BY <2>1, <2>2 DEF StrictSubsetOrdering
  <2> QED BY <2>1, <2>3, <1>2
<1> QED BY <1>4

(* If the chunks of a length p are not all equal, two words p apart differ:*)
(* those of the first chunk that is not like the chunk before it.          *)
LEMMA ChunksDiffer ==
  ASSUME NEW k \in Seq(Int), NEW p \in 1 .. Len(k) - 1, ~Keys!ChunksEqual(k, p)
  PROVE  \E i \in 1 .. Len(k) - p : k[i] # k[i + p]
<1>s. SUFFICES ASSUME \A i \in 1 .. Len(k) - p : k[i] = k[i + p]
               PROVE  FALSE
  OBVIOUS
<1>1. PICK n \in Nat, q \in Nat : n = Len(k) /\ q = n \div p /\ q * p <= n
  <2>1. PICK n \in Nat : n = Len(k)
    BY LenProperties
  <2>2. p \in Nat \ {0}
    BY <2>1
  <2> DEFINE q == n \div p
  <2>3. n = p * q + (n % p) /\ q \in Int /\ n % p \in 0 .. p - 1
    BY <2>2
  <2> HIDE DEF q
  <2>4. q >= 0
    <3> SUFFICES ASSUME q <= -1 PROVE FALSE
      BY <2>3
    <3>1. p * q <= -p
      BY <2>2, <2>3
    <3> QED BY <2>2, <2>3, <3>1
  <2>5. q * p <= n
    BY <2>2, <2>3
  <2>6. q \in Nat /\ q = n \div p
    BY <2>3, <2>4 DEF q
  <2> QED BY <2>1, <2>5, <2>6
<1> DEFINE Chunk(c) == SubSeq(k, c * p + 1, (c + 1) * p)
           Odd == {c \in 0 .. q - 1 : Chunk(c) # SubSeq(k, 1, p)}
<1>p. p \in Nat /\ p >= 1 /\ p < n
  BY <1>1
<1>2. Odd \subseteq Nat /\ Odd # {}
  <2>1. \E c \in 0 .. q - 1 : Chunk(c) # SubSeq(k, 1, p)
    BY <1>1 DEF Keys!ChunksEqual
  <2>2. \A c \in 0 .. q - 1 : c \in Nat
    BY <1>1
  <2> HIDE DEF Chunk
  <2> QED BY <2>1, <2>2
<1>3. PICK c \in Odd : \A d \in Odd : c <= d
  <2> HIDE DEF Odd
  <2> QED BY <1>2, LeastNumber
<1>4. ASSUME NEW d \in 0 .. q - 1
      PROVE  /\ d * p \in Nat /\ (d + 1) * p = d * p + p /\ d * p + p <= n
             /\ Chunk(d) \in Seq(Int) /\ Len(Chunk(d)) = p
             /\ \A i \in 1 .. p : Chunk(d)[i] = k[d * p + i]
  <2>1. PICK m \in Nat : m = d * p /\ (d + 1) * p = m + p /\ m + p <= n
    <3>1. d * p \in Nat /\ (d + 1) * p = d * p + p
      OBVIOUS
    <3>2. (d + 1) * p <= q * p
      <4>1. PICK e \in Nat : q = d + 1 + e
        <5>1. q - (d + 1) \in Nat /\ q = d + 1 + (q - (d + 1))
          BY <1>1
        <5> QED BY <5>1
      <4>2. q * p = (d + 1) * p + e * p /\ e * p >= 0
        BY <4>1
      <4> QED BY <3>1, <4>2
    <3> QED BY <1>1, <3>1, <3>2
  <2>2. Chunk(d) = SubSeq(k, m + 1, m + p)
    BY <2>1
  <2>3. \A i \in m + 1 .. m + p : k[i] \in Int
    <3>1. \A i \in m + 1 .. m + p : i \in 1 .. n
      <4>1. m + p <= n
        BY <2>1
      <4> QED BY <1>p, <4>1
    <3>2. \A i \in 1 .. n : k[i] \in Int
      BY <1>1, LenProperties
    <3> QED BY <3>1, <3>2
  <2>4. /\ SubSeq(k, m + 1, m + p) \in Seq(Int) /\ Len(SubSeq(k, m + 1, m + p)) = p
        /\ \A i \in 1 .. p : SubSeq(k, m + 1, m + p)[i] = k[m + i]
    <3>1. m + 1 \in Int /\ m + p \in Int /\ m + 1 <= m + p
          /\ (m + p) - (m + 1) + 1 = p /\ \A i \in 1 .. p : (m + 1) + i - 1 = m + i
      OBVIOUS
    <3> QED BY <2>3, <3>1, SubSeqProperties
  <2> HIDE DEF Chunk
  <2> QED BY <2>1, <2>2, <2>4
<1>5. Chunk(0) = SubSeq(k, 1, p)
  OBVIOUS
<1>6. c \in 1 .. q - 1 /\ c - 1 \in 0 .. q - 1 /\ c - 1 \notin Odd
  <2>1. c \in 0 .. q - 1 /\ Chunk(c) # Chunk(0)
    BY <1>5
  <2>2. c \in 1 .. q - 1 /\ c - 1 \in 0 .. q - 1
    <3> HIDE DEF Chunk, Odd
    <3> QED BY <1>1, <2>1
  <2>3. c - 1 \in Odd => c <= c - 1
    BY <1>3
  <2> HIDE DEF Chunk, Odd
  <2> QED BY <2>2, <2>3
<1>7. Chunk(c - 1) = Chunk(0) /\ Chunk(c) # Chunk(0)
  BY <1>3, <1>5, <1>6
<1>8. \A i \in 1 .. p : Chunk(c)[i] = Chunk(c - 1)[i]
  <2>1. PICK m \in Nat : m = (c - 1) * p /\ c * p = m + p /\ m + p + p <= n
    BY <1>4, <1>6
  <2>2. \A i \in 1 .. p : Chunk(c)[i] = k[m + p + i] /\ Chunk(c - 1)[i] = k[m + i]
    BY <1>4, <1>6, <2>1
  <2>3. \A i \in 1 .. p : m + i \in 1 .. Len(k) - p /\ m + i + p = m + p + i
    <3>1. m + p + p <= n /\ n = Len(k)
      BY <1>1, <2>1
    <3> QED BY <1>p, <3>1
  <2>4. \A i \in 1 .. p : k[m + i] = k[m + p + i]
    <3> HIDE DEF Chunk, Odd
    <3> QED BY <1>s, <2>3
  <2> HIDE DEF Chunk
  <2> QED BY <2>2, <2>4
<1>9. Chunk(c) = Chunk(c - 1)
  <2> HIDE DEF Chunk
  <2> QED BY <1>4, <1>6, <1>8, SeqEqual
<1> QED BY <1>7, <1>9

(* Whatever its length, a key that detect_repeating_pattern lets pass is   *)
(* no shorter word repeated.                                               *)
THEOREM RepeatedWordIsRefused == Spec => []NoRepeatedWord
<1>1. Inv => NoRepeatedWord
  <2> SUFFICES ASSUME Inv, pc = "ready", command \in {"image", "keycheck"},
                      NEW p \in 1 .. Len(key) - 1, Len(key) % p = 0
               PROVE  \E i \in 1 .. Len(key) - p : key[i] # key[i + p]
    BY DEF NoRepeatedWord, Keys!NoRepeatedWord
  <2>1. key \in Seq(Int) /\ ~Keys!Repeats(key)
    BY DEF Inv, CommandTypeOK, KeyInv
  <2>2. ~Keys!ChunksEqual(key, p)
    BY <2>1 DEF Keys!Repeats, Keys!Periods
  <2> QED BY <2>1, <2>2, ChunksDiffer
<1> QED BY <1>1, Invariance, PTL

=============================================================================
