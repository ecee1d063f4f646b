--------------------------- MODULE TransferProofs ---------------------------
(***************************************************************************)
(* For every job, number of threads, sector size and chunk size: the state *)
(* keeps its type, a call that returns Ok has produced the whole covered   *)
(* area, every sector is old, final or torn at every instant, no two       *)
(* sectors of an output are encrypted to the same bytes, the counter and   *)
(* the order of the writes are what they are said to be, and the transfer  *)
(* keeps the promise of AtomicTransfer, as does the split of Dispatch.     *)
(*                                                                         *)
(* The invariant says who may touch a sector: nobody has touched those of  *)
(* an unclaimed range, its one thread those of a claimed range, up to its  *)
(* position, and nobody touches those of a finished range again.  MoreInv  *)
(* adds in which order, and what of it has been counted.                   *)
(***************************************************************************)
EXTENDS Dispatch, SectorProofs

Untouched(k) == \A s \in SectorsOf(Total, k) : disk[Dest][s] = Initial(s)
Complete(k)  == \A s \in SectorsOf(Total, k) : disk[Dest][s] = Final(s)

ThreadInv(w) ==
  /\ pc[w] # "idle" => cur[w] \in claimed \ done
  /\ pc[w] = "read" => Untouched(cur[w])
  /\ pc[w] = "write" =>
       /\ \A s \in RangeOf(w) : buf[w][s] = Final(s)
       /\ \A s \in RangeOf(w) :
            disk[Dest][s] = IF s < pos[w] THEN Final(s) ELSE Initial(s)
  /\ pc[w] = "count" => Complete(cur[w])

Exclusive ==
  \A v, w \in Workers : v # w /\ cur[v] # NoRange => cur[v] # cur[w]

RangeInv ==
  /\ \A k \in Ranges \ claimed : Untouched(k)
  /\ \A k \in done : Complete(k)
  /\ ~failed => \A k \in claimed \ done : \E w \in Workers : cur[w] = k

InputInv  == ~job.inPlace => disk["in"] = InitialDisk["in"]
ResultInv == /\ result # "running" => \A w \in Workers : pc[w] = "idle"
             /\ result = "ok" => ~failed /\ claimed = Ranges

Inv == /\ TypeOK /\ Exclusive /\ \A w \in Workers : ThreadInv(w)
       /\ RangeInv /\ InputInv /\ ResultInv /\ OldOrFinal

-----------------------------------------------------------------------------
(* The arguments of a call, and the sectors they stand for.                *)
LEMMA JobFacts ==
  ASSUME job \in Jobs
  PROVE  /\ job \in JobType /\ job.real <= job.cover
         /\ Total \in Nat /\ Total <= MaxSectors /\ MaxSectors \in Nat
         /\ SectorSize \in Nat \ {0} /\ MaxWorkers \in Nat
         /\ Dest \in {"in", "out"} /\ job.dir \in {"enc", "dec"}
         /\ Threads \subseteq Workers
<1>1. /\ job \in JobType /\ job.real <= job.cover /\ MaxSectors \in Nat
      /\ TotalSectors(job.cover) <= MaxSectors /\ MaxWorkers \in Nat
      /\ SectorSize \in Nat \ {0}
  BY JobsAssumption, SectorSizeAssumption
<1>2. job.cover \in Nat /\ job.workers \in Workers
  BY <1>1 DEF JobType
<1>3. Total \in Nat
  BY <1>1, <1>2, DivCeilBounds DEF Total, TotalSectors
<1> QED BY <1>1, <1>2, <1>3 DEF JobType, Total, Dest, Threads, Workers

(* A range that can be claimed, and its sectors.                           *)
LEMMA RangeFacts ==
  ASSUME job \in Jobs, NEW k \in Ranges
  PROVE  /\ k \in Nat /\ k # NoRange
         /\ First(k) \in SectorsOf(Total, k)
         /\ SectorsOf(Total, k) \subseteq 0 .. Total - 1
         /\ SectorsOf(Total, k) \subseteq Sectors
         /\ Count(Total, k) \in Nat
         /\ First(k) \in Nat
<1>1. Total \in Nat /\ Total <= MaxSectors /\ MaxSectors \in Nat
  BY JobFacts
<1>2. ChunkSectors \in Nat
  BY ChunkSectorsAssumption
<1> QED BY <1>1, <1>2, RangeInside DEF Ranges, Sectors, NoRange

(* What follows the input's last byte in its last sector is content.       *)
LEMMA FreshType ==
  ASSUME NEW b \in {"data", "zero", "old", "torn"}, NEW s \in Nat
  PROVE  Fresh(b, s) \in Content
BY DEF Fresh, Content

(* Every sector of the input holds content.                                *)
LEMMA InputType ==
  ASSUME job \in Jobs, NEW s \in Nat
  PROVE  InputAt(s) \in Content /\ Available(s) \in Int
<1>1. Fresh("data", s) \in Content /\ Zero \in Content
  BY FreshType DEF Zero
<1>2. job.real \in Nat /\ SectorSize \in Nat
  BY JobFacts DEF JobType
<1> QED BY <1>1, <1>2, CryptType DEF InputAt, Available

(* Every sector of the output holds content when the transfer starts.      *)
LEMMA InitialDiskType ==
  ASSUME job \in Jobs
  PROVE  InitialDisk \in [{"in", "out"} -> [Sectors -> Content]]
<1>1. ASSUME NEW s \in Sectors PROVE InputAt(s) \in Content /\ Fresh("old", s) \in Content
  BY InputType, FreshType, JobFacts DEF Sectors
<1> QED BY <1>1 DEF InitialDisk

(* What the transfer is to write into a sector is content.                 *)
LEMMA FinalType ==
  ASSUME job \in Jobs, NEW s \in Nat
  PROVE  Final(s) \in Content
BY InputType, PaddedType, CryptType, JobFacts DEF Final

(* Everything derived from the arguments stays as it is during a call.     *)
LEMMA Rigid ==
  ASSUME job' = job
  PROVE  /\ Total' = Total /\ Ranges' = Ranges /\ Dest' = Dest
         /\ Threads' = Threads /\ InitialDisk' = InitialDisk
         /\ \A s : Initial(s)' = Initial(s) /\ Final(s)' = Final(s)
                  /\ InputAt(s)' = InputAt(s) /\ Available(s)' = Available(s)
BY DEF Total, Ranges, Dest, Threads, InitialDisk, Initial, Final, InputAt, Available

(* So do the sectors of a file nobody writes.                              *)
LEMMA SameFiles ==
  ASSUME job' = job, disk' = disk, NEW k
  PROVE  Untouched(k)' = Untouched(k) /\ Complete(k)' = Complete(k)
BY Rigid DEF Untouched, Complete

-----------------------------------------------------------------------------
(* The inductive invariant holds before any thread has claimed a range.    *)
LEMMA InitInv == Init => Inv
<1> SUFFICES ASSUME Init PROVE Inv
  OBVIOUS
<1>0. job \in Jobs
  BY DEF Init
<1>1. /\ disk = InitialDisk /\ claimed = {} /\ done = {} /\ failed = FALSE
      /\ result = "running" /\ progress = 0 /\ outLen = job.cover
      /\ DOMAIN pc = Workers /\ DOMAIN cur = Workers
      /\ DOMAIN buf = Workers /\ DOMAIN pos = Workers
      /\ \A w \in Workers : pc[w] = "idle" /\ cur[w] = NoRange
  BY DEF Init
<1>2. TypeOK
  <2>1. disk \in [{"in", "out"} -> [Sectors -> Content]]
    BY <1>0, <1>1, InitialDiskType
  <2>2. outLen \in Nat
    BY <1>0, <1>1, JobFacts DEF JobType
  <2> QED BY <1>0, <1>1, <2>1, <2>2 DEF TypeOK, ThreadTypeOK
<1>3. ASSUME NEW s \in Sectors PROVE disk[Dest][s] = Initial(s)
  BY <1>1 DEF Initial
<1>4. \A k \in Ranges : Untouched(k)
  BY <1>0, <1>3, RangeFacts DEF Untouched
<1>5. OldOrFinal
  BY <1>3 DEF OldOrFinal
<1> QED BY <1>1, <1>2, <1>4, <1>5
        DEF Inv, Exclusive, ThreadInv, RangeInv, InputInv, ResultInv

(* No file changes while a thread takes a range, reads or counts.          *)
LEMMA OldOrFinalKept ==
  ASSUME OldOrFinal, job' = job, disk' = disk, failed => failed'
  PROVE  OldOrFinal'
BY Rigid DEF OldOrFinal

(* A transfer that is not in place never writes its input.                 *)
LEMMA InputKept ==
  ASSUME InputInv, job' = job, disk' = disk PROVE InputInv'
BY Rigid DEF InputInv

(* A thread that claims a range no other has keeps the invariant.          *)
LEMMA ClaimInv ==
  ASSUME Inv, NEW w \in Workers, Claim(w) PROVE Inv'
<1>1. /\ result = "running" /\ ~failed /\ pc[w] = "idle"
      /\ pc' = [pc EXCEPT ![w] = "read"]
      /\ job' = job /\ disk' = disk /\ outLen' = outLen /\ done' = done
      /\ failed' = failed /\ result' = result /\ progress' = progress
      /\ buf' = buf /\ pos' = pos
  BY DEF Claim, files
<1>2. PICK k \in Ranges \ claimed :
         claimed' = claimed \cup {k} /\ cur' = [cur EXCEPT ![w] = k]
  BY DEF Claim
<1>3. TypeOK /\ job \in Jobs
  BY DEF Inv, TypeOK
<1>4. k \in Nat /\ k # NoRange
  BY <1>2, <1>3, RangeFacts
<1>5. /\ Total' = Total /\ Ranges' = Ranges
      /\ \A j : Untouched(j)' = Untouched(j) /\ Complete(j)' = Complete(j)
  BY <1>1, Rigid, SameFiles
<1>6. /\ pc'[w] = "read" /\ cur'[w] = k
      /\ \A v \in Workers : v # w => pc'[v] = pc[v] /\ cur'[v] = cur[v]
      /\ DOMAIN pc' = Workers /\ DOMAIN cur' = Workers
  BY <1>1, <1>2, <1>3 DEF TypeOK
<1>7. \A v \in Workers : cur[v] # NoRange => cur[v] \in claimed \ done
  BY <1>3 DEF Inv, ThreadInv, TypeOK, ThreadTypeOK
<1>8. TypeOK'
  <2>1. ASSUME NEW v \in Workers PROVE ThreadTypeOK(v)'
    BY <1>1, <1>2, <1>3, <1>4, <1>5, <1>6 DEF TypeOK, ThreadTypeOK, RangeOf
  <2> QED BY <1>1, <1>2, <1>3, <1>5, <1>6, <2>1 DEF TypeOK
<1>9. Exclusive'
  BY <1>2, <1>6, <1>7 DEF Inv, Exclusive
<1>10. ASSUME NEW v \in Workers PROVE ThreadInv(v)'
  <2>1. CASE v = w
    <3>1. k \in claimed' \ done'
      BY <1>1, <1>2, <1>3 DEF TypeOK
    <3>2. Untouched(k)'
      BY <1>2, <1>5 DEF Inv, RangeInv
    <3> QED BY <2>1, <3>1, <3>2, <1>6 DEF ThreadInv
  <2>2. CASE v # w
    BY <1>1, <1>2, <1>5, <1>6, <2>2, Rigid DEF Inv, ThreadInv, RangeOf
  <2> QED BY <2>1, <2>2
<1>11. RangeInv'
  <2>1. ASSUME NEW j \in claimed' \ done' PROVE \E v \in Workers : cur'[v] = j
    <3>1. CASE j = k
      BY <3>1, <1>6
    <3>2. CASE j # k
      <4>1. PICK v \in Workers : cur[v] = j
        BY <1>1, <1>2, <2>1, <3>2 DEF Inv, RangeInv
      <4>2. v # w
        BY <1>1, <1>2, <1>3, <1>4, <2>1, <3>2, <4>1, RangeFacts
           DEF TypeOK, ThreadTypeOK
      <4> QED BY <4>1, <4>2, <1>6
    <3> QED BY <3>1, <3>2
  <2> QED BY <1>1, <1>2, <1>5, <2>1 DEF Inv, RangeInv
<1>12. ResultInv'
  BY <1>1 DEF ResultInv
<1> QED BY <1>1, <1>8, <1>9, <1>10, <1>11, <1>12, OldOrFinalKept, InputKept DEF Inv

(* What a thread reads is the input, even when the output is the same file:*)
(* nobody has touched the sectors of its range.                            *)
LEMMA ReadIsInput ==
  ASSUME Inv, NEW w \in Workers, pc[w] = "read", NEW s \in RangeOf(w)
  PROVE  s \in Nat /\ Crypt(job.dir, s, ReadSector(s)) = Final(s)
<1>1. job \in Jobs /\ cur[w] \in Ranges
  BY DEF Inv, TypeOK, ThreadTypeOK
<1>2. s \in Sectors /\ s \in Nat
  BY <1>1, RangeFacts DEF RangeOf, Sectors
<1>3. disk["in"][s] = InitialDisk["in"][s]
  <2>1. CASE job.inPlace
    BY <2>1, <1>2 DEF Inv, ThreadInv, Untouched, RangeOf, Initial, Dest
  <2>2. CASE ~job.inPlace
    BY <2>2 DEF Inv, InputInv
  <2> QED BY <2>1, <2>2
<1>4. InitialDisk["in"][s] = InputAt(s)
  BY <1>2 DEF InitialDisk
<1> QED BY <1>2, <1>3, <1>4 DEF Final, ReadSector

(* Reading a range and running the cipher over it keeps the invariant: the *)
(* buffer then holds the final content of every sector of the range.       *)
LEMMA ReadCryptInv ==
  ASSUME Inv, NEW w \in Workers, ReadCrypt(w) PROVE Inv'
<1>1. /\ pc[w] = "read"
      /\ buf' = [buf EXCEPT ![w] = CryptRange(job.dir, [s \in RangeOf(w) |-> ReadSector(s)])]
      /\ pos' = [pos EXCEPT ![w] = First(cur[w])]
      /\ pc'  = [pc EXCEPT ![w] = "write"]
      /\ job' = job /\ disk' = disk /\ outLen' = outLen /\ done' = done
      /\ failed' = failed /\ result' = result /\ progress' = progress
      /\ claimed' = claimed /\ cur' = cur
  BY DEF ReadCrypt, files
<1>2. TypeOK /\ job \in Jobs
  BY DEF Inv, TypeOK
<1>3. /\ Total' = Total /\ Ranges' = Ranges
      /\ \A j : Untouched(j)' = Untouched(j) /\ Complete(j)' = Complete(j)
  BY <1>1, Rigid, SameFiles
<1>4. /\ pc'[w] = "write" /\ pos'[w] = First(cur[w])
      /\ buf'[w] = CryptRange(job.dir, [s \in RangeOf(w) |-> ReadSector(s)])
      /\ \A v \in Workers : v # w => /\ pc'[v] = pc[v] /\ buf'[v] = buf[v]
                                     /\ pos'[v] = pos[v]
      /\ DOMAIN pc' = Workers /\ DOMAIN buf' = Workers /\ DOMAIN pos' = Workers
  BY <1>1, <1>2 DEF TypeOK
<1>5. cur[w] \in Ranges /\ cur[w] # NoRange
  BY <1>1, <1>2, RangeFacts DEF TypeOK, ThreadTypeOK
<1>6. buf'[w] = [s \in RangeOf(w) |-> Final(s)]
  BY <1>1, <1>4, ReadIsInput DEF CryptRange
<1>7. \A v \in Workers : RangeOf(v)' = RangeOf(v)
  BY <1>1, <1>3 DEF RangeOf
<1>8. TypeOK'
  <2>1. ThreadTypeOK(w)'
    <3>1. pos'[w] \in RangeOf(w)
      BY <1>2, <1>4, <1>5, RangeFacts DEF RangeOf
    <3>2. buf'[w] \in [RangeOf(w) -> Content]
      BY <1>2, <1>5, <1>6, RangeFacts, FinalType DEF RangeOf
    <3> QED BY <3>1, <3>2, <1>1, <1>3, <1>4, <1>5, <1>7 DEF ThreadTypeOK
  <2>2. ASSUME NEW v \in Workers, v # w PROVE ThreadTypeOK(v)'
    BY <1>1, <1>2, <1>3, <1>4, <1>7, <2>2 DEF TypeOK, ThreadTypeOK
  <2> QED BY <1>1, <1>2, <1>3, <1>4, <2>1, <2>2 DEF TypeOK
<1>9. ThreadInv(w)'
  <2>1. \A s \in RangeOf(w) : ~ (s < First(cur[w]))
    BY <1>2, <1>5, RangeFacts DEF RangeOf, SectorsOf
  <2>2. \A s \in RangeOf(w) : disk[Dest][s] = Initial(s)
    BY <1>1 DEF Inv, ThreadInv, Untouched, RangeOf
  <2>3. cur[w] \in claimed \ done
    BY <1>1 DEF Inv, ThreadInv
  <2> QED BY <1>1, <1>4, <1>6, <1>7, <2>1, <2>2, <2>3, Rigid DEF ThreadInv
<1>10. ASSUME NEW v \in Workers, v # w PROVE ThreadInv(v)'
  BY <1>1, <1>3, <1>4, <1>7, <1>10, Rigid DEF Inv, ThreadInv
<1>11. Exclusive' /\ RangeInv'
  BY <1>1, <1>3 DEF Inv, Exclusive, RangeInv
<1>12. ResultInv'
  BY <1>1 DEF Inv, ResultInv
<1> QED BY <1>1, <1>8, <1>9, <1>10, <1>11, <1>12, OldOrFinalKept, InputKept DEF Inv

(* A write of one sector leaves every other range, and a separate input,   *)
(* as they were.                                                           *)
LEMMA OneSector ==
  ASSUME Inv, NEW w \in Workers, pc[w] = "write", NEW c \in Content,
         job' = job, disk' = [disk EXCEPT ![Dest][pos[w]] = c]
  PROVE  /\ disk' \in [{"in", "out"} -> [Sectors -> Content]]
         /\ pos[w] \in Sectors /\ pos[w] \in 0 .. Total - 1
         /\ disk'[Dest][pos[w]] = c
         /\ \A s \in Sectors : s # pos[w] => disk'[Dest][s] = disk[Dest][s]
         /\ \A k \in Ranges : k # cur[w] =>
              /\ \A s \in SectorsOf(Total, k) : disk'[Dest][s] = disk[Dest][s]
              /\ Untouched(k)' = Untouched(k) /\ Complete(k)' = Complete(k)
         /\ InputInv'
<1>1. TypeOK /\ job \in Jobs
  BY DEF Inv, TypeOK
<1>2. cur[w] \in Ranges /\ pos[w] \in SectorsOf(Total, cur[w])
  BY <1>1, RangeFacts DEF TypeOK, ThreadTypeOK, RangeOf
<1>3. pos[w] \in Sectors /\ pos[w] \in 0 .. Total - 1
  BY <1>1, <1>2, RangeFacts
<1>4. Dest \in {"in", "out"} /\ Total \in Nat
  BY <1>1, JobFacts
<1>5. /\ disk' \in [{"in", "out"} -> [Sectors -> Content]]
      /\ disk'[Dest][pos[w]] = c
      /\ \A s \in Sectors : s # pos[w] => disk'[Dest][s] = disk[Dest][s]
  BY <1>1, <1>3, <1>4 DEF TypeOK
<1>6. ASSUME NEW k \in Ranges, k # cur[w]
      PROVE  /\ \A s \in SectorsOf(Total, k) : disk'[Dest][s] = disk[Dest][s]
             /\ Untouched(k)' = Untouched(k) /\ Complete(k)' = Complete(k)
  <2>1. SectorsOf(Total, k) \cap SectorsOf(Total, cur[w]) = {}
    BY <1>2, <1>4, <1>6, RangesDisjoint DEF Ranges
  <2>2. \A s \in SectorsOf(Total, k) : disk'[Dest][s] = disk[Dest][s]
    BY <1>1, <1>2, <1>5, <2>1, RangeFacts
  <2> QED BY <2>2, Rigid DEF Untouched, Complete
<1>7. InputInv'
  BY <1>1, <1>3, <1>4, Rigid DEF Inv, InputInv, TypeOK, Dest
<1> QED BY <1>3, <1>5, <1>6, <1>7

(* Writing one sector of the buffer keeps the invariant.                   *)
LEMMA WriteSectorInv ==
  ASSUME Inv, NEW w \in Workers, WriteSector(w) PROVE Inv'
<1> DEFINE p == pos[w]
<1>1. /\ pc[w] = "write"
      /\ disk' = [disk EXCEPT ![Dest][p] = buf[w][p]]
      /\ outLen' = Greatest(outLen, (p + 1) * SectorSize)
      /\ pos' = [pos EXCEPT ![w] = @ + 1]
      /\ pc'  = [pc EXCEPT ![w] = IF pos'[w] \in RangeOf(w) THEN "write" ELSE "count"]
      /\ job' = job /\ claimed' = claimed /\ done' = done /\ failed' = failed
      /\ result' = result /\ progress' = progress /\ cur' = cur /\ buf' = buf
  BY DEF WriteSector
<1>2. TypeOK /\ job \in Jobs
  BY DEF Inv, TypeOK
<1>3. p \in RangeOf(w) /\ buf[w] \in [RangeOf(w) -> Content] /\ buf[w][p] = Final(p)
      /\ buf[w][p] \in Content
  BY <1>1, <1>2 DEF Inv, ThreadInv, TypeOK, ThreadTypeOK
<1>4. /\ disk' \in [{"in", "out"} -> [Sectors -> Content]]
      /\ p \in Sectors /\ p \in 0 .. Total - 1 /\ disk'[Dest][p] = Final(p)
      /\ \A s \in Sectors : s # p => disk'[Dest][s] = disk[Dest][s]
      /\ \A k \in Ranges : k # cur[w] =>
              /\ \A s \in SectorsOf(Total, k) : disk'[Dest][s] = disk[Dest][s]
              /\ Untouched(k)' = Untouched(k) /\ Complete(k)' = Complete(k)
      /\ InputInv'
  BY <1>1, <1>3, OneSector
<1>5. /\ Total' = Total /\ Ranges' = Ranges /\ Dest' = Dest /\ Total \in Nat
      /\ SectorSize \in Nat /\ ChunkSectors \in Nat
  BY <1>1, <1>2, Rigid, JobFacts, ChunkSectorsAssumption
<1>6. \A v \in Workers : RangeOf(v)' = RangeOf(v)
  BY <1>1, <1>5 DEF RangeOf
<1>7. /\ pos'[w] = p + 1
      /\ pc'[w] = IF p + 1 \in RangeOf(w) THEN "write" ELSE "count"
      /\ \A v \in Workers : v # w => pc'[v] = pc[v] /\ pos'[v] = pos[v]
      /\ DOMAIN pc' = Workers /\ DOMAIN pos' = Workers
  BY <1>1, <1>2 DEF TypeOK
<1>8. cur[w] \in Ranges /\ cur[w] # NoRange /\ cur[w] \in claimed \ done
      /\ RangeOf(w) \subseteq Sectors /\ First(cur[w]) \in Nat
      /\ Count(Total, cur[w]) \in Nat
  BY <1>1, <1>2, RangeFacts DEF Inv, ThreadInv, TypeOK, ThreadTypeOK, RangeOf
<1>9. TypeOK'
  <2>1. outLen' \in Nat
    <3>1. p + 1 \in Nat /\ outLen \in Nat
      BY <1>2, <1>4, <1>5 DEF TypeOK
    <3>2. (p + 1) * SectorSize \in Nat
      BY <3>1, <1>5
    <3> QED BY <3>1, <3>2, <1>1 DEF Greatest
  <2>2. ThreadTypeOK(w)'
    BY <1>1, <1>3, <1>5, <1>6, <1>7, <1>8 DEF ThreadTypeOK
  <2>3. ASSUME NEW v \in Workers, v # w PROVE ThreadTypeOK(v)'
    BY <1>1, <1>2, <1>5, <1>6, <1>7, <2>3 DEF TypeOK, ThreadTypeOK
  <2> QED BY <1>1, <1>2, <1>4, <1>5, <1>7, <2>1, <2>2, <2>3 DEF TypeOK
<1>10. ASSUME NEW s \in RangeOf(w)
       PROVE  disk'[Dest][s] = IF s < p + 1 THEN Final(s) ELSE Initial(s)
  <2>1. s \in Int /\ p \in Int
    BY <1>3, <1>5, <1>8 DEF RangeOf, SectorsOf
  <2>2. CASE s = p
    BY <1>4, <2>1, <2>2
  <2>3. CASE s # p
    <3>1. disk'[Dest][s] = disk[Dest][s]
      BY <1>4, <1>8, <2>3
    <3>2. disk[Dest][s] = IF s < p THEN Final(s) ELSE Initial(s)
      BY <1>1 DEF Inv, ThreadInv
    <3> QED BY <2>1, <2>3, <3>1, <3>2
  <2> QED BY <2>2, <2>3
<1>11. ThreadInv(w)'
  <2>1. CASE p + 1 \in RangeOf(w)
    BY <1>1, <1>5, <1>6, <1>7, <1>8, <1>10, <2>1, Rigid DEF Inv, ThreadInv
  <2>2. CASE p + 1 \notin RangeOf(w)
    <3>1. \A s \in RangeOf(w) : s < p + 1
      BY <1>3, <1>5, <1>8, <2>2 DEF RangeOf, SectorsOf
    <3>2. Complete(cur[w])'
      BY <1>1, <1>5, <1>10, <3>1, Rigid DEF Complete, RangeOf
    <3> QED BY <1>1, <1>7, <1>8, <2>2, <3>2 DEF ThreadInv
  <2> QED BY <2>1, <2>2
<1>12. ASSUME NEW v \in Workers, v # w PROVE ThreadInv(v)'
  <2>1. CASE pc[v] = "idle"
    BY <1>7, <1>12, <2>1 DEF ThreadInv
  <2>2. CASE pc[v] # "idle"
    <3>1. cur[v] \in Ranges /\ cur[v] # cur[w]
      BY <1>2, <1>12, <2>2, <1>8 DEF Inv, Exclusive, TypeOK, ThreadTypeOK
    <3>2. /\ Untouched(cur[v])' = Untouched(cur[v])
          /\ Complete(cur[v])' = Complete(cur[v])
          /\ \A s \in RangeOf(v) : disk'[Dest][s] = disk[Dest][s]
      BY <3>1, <1>1, <1>4 DEF RangeOf
    <3> QED BY <1>1, <1>5, <1>6, <1>7, <1>12, <3>2, Rigid DEF Inv, ThreadInv
  <2> QED BY <2>1, <2>2
<1>13. Exclusive'
  BY <1>1 DEF Inv, Exclusive
<1>14. RangeInv'
  <2>1. \A k \in Ranges \ claimed : k # cur[w]
    BY <1>8
  <2>2. \A k \in done : k # cur[w] /\ k \in Ranges
    BY <1>2, <1>8 DEF TypeOK
  <2> QED BY <1>1, <1>4, <1>5, <2>1, <2>2 DEF Inv, RangeInv
<1>15. OldOrFinal'
  <2>1. ASSUME NEW s \in Sectors
        PROVE \/ disk'[Dest][s] = Initial(s)
              \/ s < Total /\ disk'[Dest][s] = Final(s)
              \/ s < Total /\ failed /\ disk'[Dest][s] = Fresh("torn", s)
    <3>1. CASE s = p
      BY <1>4, <1>5, <3>1
    <3>2. CASE s # p
      BY <1>4, <3>2 DEF Inv, OldOrFinal
    <3> QED BY <3>1, <3>2
  <2> QED BY <1>1, <1>5, <2>1, Rigid DEF OldOrFinal
<1>16. ResultInv'
  BY <1>1, <1>7 DEF Inv, ResultInv
<1> QED BY <1>4, <1>9, <1>11, <1>12, <1>13, <1>14, <1>15, <1>16 DEF Inv

(* A thread that gives its range up, and whatever its failing step did to  *)
(* that range alone, leaves everything the other threads rely on.          *)
LEMMA AbandonInv ==
  ASSUME Inv, NEW w \in Workers, pc[w] # "idle", Abandon(w),
         disk' \in [{"in", "out"} -> [Sectors -> Content]], outLen' \in Nat,
         InputInv', OldOrFinal',
         \A k \in Ranges : k # cur[w] =>
           /\ \A s \in SectorsOf(Total, k) : disk'[Dest][s] = disk[Dest][s]
           /\ Untouched(k)' = Untouched(k) /\ Complete(k)' = Complete(k)
  PROVE  Inv'
<1>1. /\ failed' = TRUE
      /\ pc'  = [pc EXCEPT ![w] = "idle"] /\ cur' = [cur EXCEPT ![w] = NoRange]
      /\ buf' = [buf EXCEPT ![w] = <<>>] /\ pos' = [pos EXCEPT ![w] = 0]
      /\ job' = job /\ claimed' = claimed /\ done' = done
      /\ result' = result /\ progress' = progress
  BY DEF Abandon, Release
<1>2. TypeOK /\ job \in Jobs
  BY DEF Inv, TypeOK
<1>3. Total' = Total /\ Ranges' = Ranges /\ Dest' = Dest
  BY <1>1, Rigid
<1>4. /\ pc'[w] = "idle" /\ cur'[w] = NoRange
      /\ \A v \in Workers : v # w => /\ pc'[v] = pc[v] /\ cur'[v] = cur[v]
                                     /\ buf'[v] = buf[v] /\ pos'[v] = pos[v]
                                     /\ RangeOf(v)' = RangeOf(v)
      /\ DOMAIN pc' = Workers /\ DOMAIN cur' = Workers
      /\ DOMAIN buf' = Workers /\ DOMAIN pos' = Workers
  BY <1>1, <1>2, <1>3 DEF TypeOK, RangeOf
<1>5. cur[w] \in claimed \ done /\ cur[w] # NoRange
  BY <1>2 DEF Inv, ThreadInv, TypeOK, ThreadTypeOK
<1>6. TypeOK'
  <2>1. ThreadTypeOK(w)'
    BY <1>4 DEF ThreadTypeOK
  <2>2. ASSUME NEW v \in Workers, v # w PROVE ThreadTypeOK(v)'
    BY <1>2, <1>3, <1>4, <2>2 DEF TypeOK, ThreadTypeOK
  <2> QED BY <1>1, <1>2, <1>3, <1>4, <2>1, <2>2 DEF TypeOK
<1>7. ThreadInv(w)'
  BY <1>4 DEF ThreadInv
<1>8. ASSUME NEW v \in Workers, v # w PROVE ThreadInv(v)'
  <2>1. CASE pc[v] = "idle"
    BY <1>4, <1>8, <2>1 DEF ThreadInv
  <2>2. CASE pc[v] # "idle"
    <3>1. cur[v] \in Ranges /\ cur[v] # cur[w]
      BY <1>2, <1>5, <1>8, <2>2 DEF Inv, Exclusive, TypeOK, ThreadTypeOK
    <3>2. /\ Untouched(cur[v])' = Untouched(cur[v])
          /\ Complete(cur[v])' = Complete(cur[v])
          /\ \A s \in RangeOf(v) : disk'[Dest][s] = disk[Dest][s]
      BY <3>1, <1>4, <1>8 DEF RangeOf
    <3> QED BY <1>1, <1>3, <1>4, <1>8, <3>2, Rigid DEF Inv, ThreadInv
  <2> QED BY <2>1, <2>2
<1>9. Exclusive'
  <2>1. ASSUME NEW u \in Workers, NEW v \in Workers, u # v, cur'[u] # NoRange
        PROVE  cur'[u] # cur'[v]
    BY <1>4, <2>1 DEF Inv, Exclusive
  <2> QED BY <2>1 DEF Exclusive
<1>10. RangeInv'
  <2>1. \A k \in Ranges \ claimed : k # cur[w]
    BY <1>5
  <2>2. \A k \in done : k # cur[w] /\ k \in Ranges
    BY <1>2, <1>5 DEF TypeOK
  <2> QED BY <1>1, <1>3, <2>1, <2>2 DEF Inv, RangeInv
<1>11. ResultInv'
  <2>1. result = "running"
    BY DEF Inv, ResultInv
  <2> QED BY <2>1, <1>1 DEF ResultInv
<1> QED BY <1>6, <1>7, <1>8, <1>9, <1>10, <1>11 DEF Inv

(* A read that fails keeps the invariant.                                  *)
LEMMA ReadFailInv ==
  ASSUME Inv, NEW w \in Workers, ReadFail(w) PROVE Inv'
<1>1. pc[w] # "idle" /\ Abandon(w) /\ disk' = disk /\ outLen' = outLen
      /\ job' = job /\ failed' = TRUE
  BY DEF ReadFail, files, Abandon
<1>2. \A k : Untouched(k)' = Untouched(k) /\ Complete(k)' = Complete(k)
  BY <1>1, SameFiles
<1>3. InputInv' /\ OldOrFinal'
  BY <1>1, InputKept, OldOrFinalKept DEF Inv
<1> QED BY <1>1, <1>2, <1>3, AbandonInv DEF Inv, TypeOK

(* A write that fails, with its sector untouched or torn, keeps the invariant. *)
LEMMA WriteFailInv ==
  ASSUME Inv, NEW w \in Workers, WriteFail(w) PROVE Inv'
<1> DEFINE p == pos[w]
<1>1. pc[w] = "write" /\ Abandon(w) /\ job' = job /\ failed' = TRUE
  BY DEF WriteFail, Abandon
<1>2. CASE UNCHANGED files
  <2>1. disk' = disk /\ outLen' = outLen
    BY <1>2 DEF files
  <2>2. \A k : Untouched(k)' = Untouched(k) /\ Complete(k)' = Complete(k)
    BY <1>1, <2>1, SameFiles
  <2>3. InputInv' /\ OldOrFinal'
    BY <1>1, <2>1, InputKept, OldOrFinalKept DEF Inv
  <2> QED BY <1>1, <2>1, <2>2, <2>3, AbandonInv DEF Inv, TypeOK
<1>3. CASE \E written \in 1 .. SectorSize - 1 :
             /\ disk' = [disk EXCEPT ![Dest][p] = Fresh("torn", p)]
             /\ outLen' = Greatest(outLen, p * SectorSize + written)
  <2>1. TypeOK /\ job \in Jobs /\ Total \in Nat /\ SectorSize \in Nat
    BY JobFacts DEF Inv, TypeOK
  <2>2. p \in Nat /\ Fresh("torn", p) \in Content
    <3>1. p \in RangeOf(w) /\ cur[w] \in Ranges
      BY <1>1, <2>1, RangeFacts DEF TypeOK, ThreadTypeOK
    <3> QED BY <2>1, <3>1, RangeFacts, FreshType DEF RangeOf
  <2>3. /\ disk' \in [{"in", "out"} -> [Sectors -> Content]]
        /\ p \in Sectors /\ p \in 0 .. Total - 1
        /\ disk'[Dest][p] = Fresh("torn", p)
        /\ \A s \in Sectors : s # p => disk'[Dest][s] = disk[Dest][s]
        /\ \A k \in Ranges : k # cur[w] =>
              /\ \A s \in SectorsOf(Total, k) : disk'[Dest][s] = disk[Dest][s]
              /\ Untouched(k)' = Untouched(k) /\ Complete(k)' = Complete(k)
        /\ InputInv'
    BY <1>1, <1>3, <2>2, OneSector
  <2>4. outLen' \in Nat
    <3>1. p * SectorSize \in Nat /\ outLen \in Nat
      BY <2>1, <2>2 DEF TypeOK
    <3> QED BY <3>1, <1>3, <2>1 DEF Greatest
  <2>5. OldOrFinal'
    <3>1. ASSUME NEW s \in Sectors
          PROVE \/ disk'[Dest][s] = Initial(s)
                \/ s < Total /\ disk'[Dest][s] = Final(s)
                \/ s < Total /\ disk'[Dest][s] = Fresh("torn", s)
      <4>1. CASE s = p
        BY <2>1, <2>3, <4>1
      <4>2. CASE s # p
        BY <2>3, <4>2 DEF Inv, OldOrFinal
      <4> QED BY <4>1, <4>2
    <3> QED BY <1>1, <3>1, Rigid DEF OldOrFinal
  <2> QED BY <1>1, <2>3, <2>4, <2>5, AbandonInv
<1> QED BY <1>2, <1>3 DEF WriteFail

(* Adding a written range to the shared counter keeps the invariant.       *)
LEMMA CountRangeInv ==
  ASSUME Inv, NEW w \in Workers, CountRange(w) PROVE Inv'
<1>1. /\ pc[w] = "count"
      /\ progress' = IF job.counted
                     THEN progress + Count(Total, cur[w]) * SectorSize
                     ELSE progress
      /\ done' = done \cup {cur[w]}
      /\ pc'  = [pc EXCEPT ![w] = "idle"] /\ cur' = [cur EXCEPT ![w] = NoRange]
      /\ buf' = [buf EXCEPT ![w] = <<>>] /\ pos' = [pos EXCEPT ![w] = 0]
      /\ job' = job /\ disk' = disk /\ outLen' = outLen /\ claimed' = claimed
      /\ failed' = failed /\ result' = result
  BY DEF CountRange, Release, files
<1>2. TypeOK /\ job \in Jobs
  BY DEF Inv, TypeOK
<1>3. /\ Total' = Total /\ Ranges' = Ranges
      /\ \A k : Untouched(k)' = Untouched(k) /\ Complete(k)' = Complete(k)
  BY <1>1, Rigid, SameFiles
<1>4. /\ pc'[w] = "idle" /\ cur'[w] = NoRange
      /\ \A v \in Workers : v # w => /\ pc'[v] = pc[v] /\ cur'[v] = cur[v]
                                     /\ buf'[v] = buf[v] /\ pos'[v] = pos[v]
                                     /\ RangeOf(v)' = RangeOf(v)
      /\ DOMAIN pc' = Workers /\ DOMAIN cur' = Workers
      /\ DOMAIN buf' = Workers /\ DOMAIN pos' = Workers
  BY <1>1, <1>2, <1>3 DEF TypeOK, RangeOf
<1>5. /\ cur[w] \in claimed \ done /\ cur[w] \in Ranges /\ cur[w] # NoRange
      /\ Complete(cur[w])
  BY <1>1, <1>2 DEF Inv, ThreadInv, TypeOK, ThreadTypeOK
<1>6. TypeOK'
  <2>1. progress' \in Nat
    <3>1. /\ Count(Total, cur[w]) \in Nat /\ SectorSize \in Nat
          /\ progress \in Nat
      BY <1>2, <1>5, RangeFacts, JobFacts DEF TypeOK
    <3>2. Count(Total, cur[w]) * SectorSize \in Nat
      BY <3>1
    <3> QED BY <1>1, <3>1, <3>2
  <2>2. ThreadTypeOK(w)'
    BY <1>4 DEF ThreadTypeOK
  <2>3. ASSUME NEW v \in Workers, v # w PROVE ThreadTypeOK(v)'
    BY <1>2, <1>3, <1>4, <2>3 DEF TypeOK, ThreadTypeOK
  <2> QED BY <1>1, <1>2, <1>3, <1>4, <1>5, <2>1, <2>2, <2>3 DEF TypeOK
<1>7. ThreadInv(w)'
  BY <1>4 DEF ThreadInv
<1>8. ASSUME NEW v \in Workers, v # w PROVE ThreadInv(v)'
  <2>1. pc[v] # "idle" => cur[v] # cur[w]
    BY <1>2, <1>8 DEF Inv, Exclusive, TypeOK, ThreadTypeOK
  <2> QED BY <1>1, <1>3, <1>4, <1>8, <2>1, Rigid DEF Inv, ThreadInv
<1>9. Exclusive'
  <2>1. ASSUME NEW u \in Workers, NEW v \in Workers, u # v, cur'[u] # NoRange
        PROVE  cur'[u] # cur'[v]
    BY <1>4, <2>1 DEF Inv, Exclusive
  <2> QED BY <2>1 DEF Exclusive
<1>10. RangeInv'
  <2>1. ASSUME ~failed, NEW k \in claimed \ done, k # cur[w]
        PROVE  \E v \in Workers : cur'[v] = k
    <3>1. PICK v \in Workers : cur[v] = k
      BY <2>1 DEF Inv, RangeInv
    <3> QED BY <2>1, <3>1, <1>4
  <2> QED BY <1>1, <1>3, <1>5, <2>1 DEF Inv, RangeInv
<1>11. ResultInv'
  BY <1>1 DEF Inv, ResultInv
<1> QED BY <1>1, <1>6, <1>7, <1>8, <1>9, <1>10, <1>11, OldOrFinalKept, InputKept
        DEF Inv

(* A call ends without touching a file.                                    *)
LEMMA ReturnInv ==
  ASSUME Inv, PoolBuildFails \/ Return \/ UNCHANGED vars PROVE Inv'
<1>1. /\ job' = job /\ disk' = disk /\ outLen' = outLen /\ claimed' = claimed
      /\ done' = done /\ failed' = failed /\ progress' = progress
      /\ pc' = pc /\ cur' = cur /\ buf' = buf /\ pos' = pos
      /\ result' \in {result, "ok", "err"}
  BY DEF PoolBuildFails, Return, vars, files, threads
<1>2. /\ Total' = Total /\ Ranges' = Ranges
      /\ \A k : Untouched(k)' = Untouched(k) /\ Complete(k)' = Complete(k)
      /\ \A w \in Workers : RangeOf(w)' = RangeOf(w)
  BY <1>1, Rigid, SameFiles DEF RangeOf
<1>3. TypeOK'
  <2>1. \A w \in Workers : ThreadTypeOK(w)'
    BY <1>1, <1>2 DEF Inv, TypeOK, ThreadTypeOK
  <2> QED BY <1>1, <1>2, <2>1 DEF Inv, TypeOK
<1>4. Exclusive' /\ RangeInv'
  BY <1>1, <1>2 DEF Inv, Exclusive, RangeInv
<1>5. \A w \in Workers : ThreadInv(w)'
  BY <1>1, <1>2, Rigid DEF Inv, ThreadInv
<1>6. ResultInv'
  <2>1. PoolBuildFails => result' = "err" /\ \A w \in Workers : pc[w] = "idle"
    BY DEF PoolBuildFails, Inv, ThreadInv
  <2>2. Return => /\ \A w \in Workers : pc[w] = "idle"
                  /\ result' = "ok" => ~failed /\ claimed = Ranges
    BY DEF Return
  <2>3. UNCHANGED vars => result' = result
    BY DEF vars
  <2> QED BY <1>1, <1>2, <2>1, <2>2, <2>3 DEF Inv, ResultInv
<1> QED BY <1>1, <1>3, <1>4, <1>5, <1>6, OldOrFinalKept, InputKept DEF Inv

(* Every step of every thread, and of the caller, keeps the invariant.     *)
LEMMA StepInv == Inv /\ [Next]_vars => Inv'
<1> SUFFICES ASSUME Inv, [Next]_vars PROVE Inv'
  OBVIOUS
<1>1. ASSUME NEW w \in Workers, Step(w) PROVE Inv'
  BY <1>1, ClaimInv, ReadCryptInv, ReadFailInv, WriteSectorInv, WriteFailInv,
     CountRangeInv DEF Step
<1>2. CASE PoolBuildFails \/ Return \/ Returned \/ UNCHANGED vars
  BY <1>2, ReturnInv DEF Returned
<1> QED BY <1>1, <1>2 DEF Next

(* The inductive invariant holds in every reachable state.                 *)
THEOREM Invariance == Spec => []Inv
BY InitInv, StepInv, PTL DEF Spec

(* The state of a transfer keeps its type.                                 *)
THEOREM TypeCorrect == Spec => []TypeOK
<1>1. Inv => TypeOK
  BY DEF Inv
<1> QED BY <1>1, Invariance, PTL

(* No sector is ever anything but old, final or torn by a failed write.    *)
THEOREM SectorsOldOrFinal == Spec => []OldOrFinal
<1>1. Inv => OldOrFinal
  BY DEF Inv
<1> QED BY <1>1, Invariance, PTL

(* By the invariant, a result of Ok means that every covered sector is final. *)
LEMMA OkIsComplete == Inv => SuccessIsComplete
<1> SUFFICES ASSUME Inv, result = "ok", NEW s \in 0 .. Total - 1
             PROVE  disk[Dest][s] = Final(s)
  BY DEF SuccessIsComplete
<1>1. TypeOK /\ job \in Jobs /\ Total \in Nat
  BY JobFacts DEF Inv, TypeOK
<1>2. PICK k \in Ranges : s \in SectorsOf(Total, k)
  BY <1>1, RangesCover DEF Ranges
<1>3. k \in done
  <2>1. \A w \in Workers : cur[w] # k
    BY <1>1, <1>2, RangeFacts DEF Inv, ResultInv, TypeOK, ThreadTypeOK
  <2> QED BY <1>2, <2>1 DEF Inv, ResultInv, RangeInv
<1> QED BY <1>2, <1>3 DEF Inv, RangeInv, Complete

(* Ok means that the whole covered area has been produced, once.           *)
THEOREM SuccessComplete == Spec => []SuccessIsComplete
BY Invariance, OkIsComplete, PTL

-----------------------------------------------------------------------------
(* The cipher changes every sector it is given.                            *)
LEMMA CryptMoves ==
  ASSUME NEW dir \in {"enc", "dec"}, NEW s \in Nat, NEW c \in Content
  PROVE  /\ Crypt(dir, s, c).base = c.base
         /\ Crypt(dir, s, c) # c
<1> DEFINE pushed == Append(c.ops, [op |-> dir, arg |-> plain64_iv(s)])
           popped == SubSeq(c.ops, 1, Len(c.ops) - 1)
<1>1. c.ops \in Seq(Ops \cup Cuts) /\ Len(c.ops) \in Nat
  BY DEF Content
<1>2. Len(pushed) # Len(c.ops)
  BY <1>1
<1>3. Len(c.ops) > 0 => Len(popped) # Len(c.ops)
  BY <1>1
<1>4. ASSUME NEW q, Len(q) # Len(c.ops)
      PROVE  [c EXCEPT !.ops = q].base = c.base /\ [c EXCEPT !.ops = q] # c
  <2>1. [c EXCEPT !.ops = q].ops = q /\ [c EXCEPT !.ops = q].base = c.base
    BY DEF Content
  <2> QED BY <2>1, <1>4
<1>5. \/ Crypt(dir, s, c) = [c EXCEPT !.ops = pushed]
      \/ Len(c.ops) > 0 /\ Crypt(dir, s, c) = [c EXCEPT !.ops = popped]
  BY DEF Crypt
<1> HIDE DEF pushed, popped
<1> QED BY <1>2, <1>3, <1>4, <1>5

(* So the final content of a sector is never what the output held before,  *)
(* whether that is an old file, the input itself, or a hole.               *)
LEMMA FinalIsNew ==
  ASSUME job \in Jobs, NEW s \in Sectors
  PROVE  Initial(s) # Final(s)
<1> DEFINE c == InputAt(s)
           x == Padded(c, Available(s), SectorSize)
<1>0. /\ s \in Nat /\ job.dir \in {"enc", "dec"} /\ SectorSize \in Nat
      /\ Available(s) \in Int /\ c \in Content /\ x \in Content
      /\ job.real \in Nat
  <2>1. s \in Nat
    BY JobFacts DEF Sectors
  <2> QED BY <2>1, JobFacts, InputType, PaddedType DEF JobType
<1>1. Final(s) = Crypt(job.dir, s, x) /\ Final(s).base = x.base /\ Final(s) # x
  BY <1>0, CryptMoves DEF Final
<1>2. CASE ~job.inPlace
  <2>1. Initial(s).base = "old"
    BY <1>2 DEF Initial, InitialDisk, Dest, Fresh
  <2>2. c.base \in {"data", "zero"}
    <3>1. Fresh("data", s) \in Content /\ Fresh("data", s).base = "data"
          /\ Zero.base = "zero"
      BY <1>0, FreshType DEF Fresh, Zero
    <3> QED BY <3>1, <1>0, CryptMoves DEF InputAt
  <2>3. x.base \in {"data", "zero"}
    BY <1>0, <2>2 DEF Padded, Zero, Fresh, Content
  <2> QED BY <1>1, <2>1, <2>3
<1>3. CASE job.inPlace
  <2>1. Initial(s) = c
    BY <1>3 DEF Initial, InitialDisk, Dest
  <2>2. CASE Available(s) >= SectorSize
    BY <1>1, <2>1, <2>2 DEF Padded
  <2>3. CASE ~(Available(s) >= SectorSize) /\ Available(s) <= 0
    <3>1. s * SectorSize >= job.real
      <4>1. s * SectorSize \in Int
        BY <1>0
      <4> QED BY <4>1, <1>0, <2>3 DEF Available
    <3>2. c = Zero /\ x = Zero
      BY <3>1, <2>3 DEF InputAt, Padded
    <3> QED BY <1>1, <2>1, <3>2
  <2>4. CASE ~(Available(s) >= SectorSize) /\ ~(Available(s) <= 0)
    <3> DEFINE cut  == [op |-> "cut", arg |-> <<Available(s), 0>>]
               longer == Append(c.ops, cut)
               last == [op |-> job.dir, arg |-> plain64_iv(s)]
    <3>1. x = [c EXCEPT !.ops = longer] /\ x.ops = longer
      BY <1>0, <2>4 DEF Padded, Content
    <3>2. /\ c.ops \in Seq(Ops \cup Cuts) /\ cut \in Cuts
      BY <1>0, <2>4 DEF Content, Cuts
    <3>3. /\ Len(longer) = Len(c.ops) + 1 /\ longer[Len(longer)] = cut
          /\ Len(Append(longer, last)) = Len(c.ops) + 2 /\ Len(c.ops) \in Nat
      <4>1. c.ops \in Seq(Ops \cup Cuts) /\ cut \in Ops \cup Cuts
        BY <3>2
      <4>2. longer \in Seq(Ops \cup Cuts) /\ last \in Ops \cup Cuts
        BY <1>0, <4>1, IvType DEF Ops
      <4> HIDE DEF cut, last
      <4> QED BY <4>1, <4>2
    <3>4. cut # [op |-> Opposite(job.dir), arg |-> plain64_iv(s)]
      <4>1. cut.op = "cut" /\ Opposite(job.dir) # "cut"
        BY DEF Opposite
      <4> QED BY <4>1
    <3>5. Final(s) = [x EXCEPT !.ops = Append(longer, last)]
      BY <1>1, <3>1, <3>3, <3>4 DEF Crypt
    <3>6. Final(s).ops = Append(longer, last)
      BY <1>0, <3>5 DEF Content
    <3>7. Len(Final(s).ops) # Len(c.ops)
      BY <3>3, <3>6
    <3> QED BY <2>1, <3>7
  <2> QED BY <2>2, <2>3, <2>4
<1> QED BY <1>2, <1>3

-----------------------------------------------------------------------------
(* The covered sectors are sectors of the output.                          *)
LEMMA CoveredSectors ==
  ASSUME job \in Jobs PROVE 0 .. Total - 1 \subseteq Sectors
BY JobFacts DEF Sectors

(* The initial states of Transfer are initial states of AtomicTransfer.    *)
LEMMA InitPromise == Init => Promise!Init
<1> SUFFICES ASSUME Init PROVE Promise!Init
  OBVIOUS
<1>1. job \in Jobs /\ disk = InitialDisk /\ failed = FALSE /\ result = "running"
  BY DEF Init
<1>2. DOMAIN disk[Dest] = Sectors
  BY <1>1, InitialDiskType, JobFacts
<1> QED BY <1>1, <1>2, CoveredSectors DEF Promise!Init

(* A step that changes no file, error or result is invisible to the caller.*)
LEMMA Invisible ==
  ASSUME job' = job, disk' = disk, failed' = failed, result' = result
  PROVE  UNCHANGED <<[s \in 0 .. Total - 1 |-> Final(s)], disk[Dest], failed, result>>
BY Rigid

(* The sector a thread is about to write is not final yet.                 *)
LEMMA NotYetFinal ==
  ASSUME Inv, NEW w \in Workers, pc[w] = "write"
  PROVE  /\ pos[w] \in 0 .. Total - 1 /\ pos[w] \in Sectors
         /\ disk[Dest][pos[w]] # Final(pos[w]) /\ buf[w][pos[w]] = Final(pos[w])
<1>1. TypeOK /\ job \in Jobs
  BY DEF Inv, TypeOK
<1>2. pos[w] \in RangeOf(w) /\ cur[w] \in Ranges
  BY <1>1, RangeFacts DEF TypeOK, ThreadTypeOK
<1>3. pos[w] \in 0 .. Total - 1 /\ pos[w] \in Sectors
  BY <1>1, <1>2, RangeFacts DEF RangeOf
<1>4. disk[Dest][pos[w]] = Initial(pos[w]) /\ buf[w][pos[w]] = Final(pos[w])
  <2>1. ~ (pos[w] < pos[w])
    BY <1>1, <1>3, JobFacts
  <2> QED BY <2>1, <1>2 DEF Inv, ThreadInv
<1> QED BY <1>1, <1>3, <1>4, FinalIsNew

(* Every step of Transfer is a step of AtomicTransfer or a stutter.        *)
LEMMA StepPromise ==
  Inv /\ [Next]_vars =>
    [Promise!Next]_<<[s \in 0 .. Total - 1 |-> Final(s)], disk[Dest], failed, result>>
<1> DEFINE goal == [s \in 0 .. Total - 1 |-> Final(s)]
           abstract == <<goal, disk[Dest], failed, result>>
<1> SUFFICES ASSUME Inv, [Next]_vars PROVE [Promise!Next]_abstract
  OBVIOUS
<1>0. TypeOK /\ job \in Jobs /\ Total \in Nat /\ Dest \in {"in", "out"}
  BY JobFacts DEF Inv, TypeOK
<1>1. ASSUME NEW w \in Workers, Claim(w) \/ ReadCrypt(w) \/ CountRange(w)
      PROVE  UNCHANGED abstract
  <2>1. job' = job /\ disk' = disk /\ failed' = failed /\ result' = result
    BY <1>1 DEF Claim, ReadCrypt, CountRange, files
  <2> QED BY <2>1, Invisible
<1>2. ASSUME NEW w \in Workers, Abandon(w), UNCHANGED files, pc[w] # "idle",
             NEW p \in 0 .. Total - 1, disk[Dest][p] # Final(p)
      PROVE  Promise!Next
  <2>1. /\ job' = job /\ disk' = disk /\ failed' = TRUE /\ result' = result
    BY <1>2 DEF Abandon, files
  <2>2. goal' = goal /\ disk'[Dest'] = disk[Dest]
    BY <2>1, Rigid
  <2>3. result = "running"
    BY <1>0, <1>2 DEF Inv, ResultInv, TypeOK
  <2>4. Promise!Break(p)
    BY <1>2, <2>1, <2>2, <2>3 DEF Promise!Break
  <2>5. p \in DOMAIN goal
    OBVIOUS
  <2> QED BY <2>4, <2>5 DEF Promise!Next
<1>3. ASSUME NEW w \in Workers, ReadFail(w) PROVE Promise!Next
  <2> DEFINE p == First(cur[w])
  <2>1. cur[w] \in Ranges /\ pc[w] = "read" /\ Abandon(w) /\ UNCHANGED files
    BY <1>0, <1>3, RangeFacts DEF ReadFail, TypeOK, ThreadTypeOK
  <2>2. p \in SectorsOf(Total, cur[w]) /\ p \in 0 .. Total - 1 /\ p \in Sectors
    BY <1>0, <2>1, RangeFacts
  <2>3. disk[Dest][p] # Final(p)
    BY <1>0, <2>1, <2>2, FinalIsNew DEF Inv, ThreadInv, Untouched
  <2> QED BY <2>1, <2>2, <2>3, <1>2
<1>4. ASSUME NEW w \in Workers, WriteSector(w) PROVE Promise!Next
  <2> DEFINE p == pos[w]
  <2>1. /\ pc[w] = "write" /\ job' = job /\ failed' = failed /\ result' = result
        /\ disk' = [disk EXCEPT ![Dest][p] = buf[w][p]]
    BY <1>4 DEF WriteSector
  <2>2. p \in 0 .. Total - 1 /\ disk[Dest][p] # Final(p) /\ buf[w][p] = Final(p)
    BY <2>1, NotYetFinal
  <2>3. goal' = goal /\ Dest' = Dest
    BY <2>1, Rigid
  <2>4. disk'[Dest'] = [disk[Dest] EXCEPT ![p] = goal[p]]
    BY <1>0, <2>1, <2>2, <2>3 DEF TypeOK
  <2>5. result = "running"
    BY <2>1 DEF Inv, ResultInv
  <2>6. Promise!Produce(p)
    BY <2>1, <2>2, <2>3, <2>4, <2>5 DEF Promise!Produce
  <2> QED BY <2>2, <2>6 DEF Promise!Next
<1>5. ASSUME NEW w \in Workers, WriteFail(w) PROVE Promise!Next
  <2> DEFINE p == pos[w]
  <2>1. pc[w] = "write" /\ Abandon(w)
    BY <1>5 DEF WriteFail
  <2>2. p \in 0 .. Total - 1 /\ disk[Dest][p] # Final(p)
    BY <2>1, NotYetFinal
  <2>3. CASE UNCHANGED files
    BY <2>1, <2>2, <2>3, <1>2
  <2>4. CASE disk' = [disk EXCEPT ![Dest][p] = Fresh("torn", p)]
    <3>1. job' = job /\ failed' = TRUE /\ result' = result
      BY <2>1 DEF Abandon
    <3>2. goal' = goal /\ Dest' = Dest
      BY <3>1, Rigid
    <3>3. disk'[Dest'] = [disk[Dest] EXCEPT ![p] = Promise!Spoilt(p)]
      BY <1>0, <2>4, <3>2 DEF TypeOK, Promise!Spoilt, Fresh
    <3>4. result = "running"
      BY <2>1 DEF Inv, ResultInv
    <3>5. Promise!Break(p)
      BY <2>2, <3>1, <3>2, <3>3, <3>4 DEF Promise!Break
    <3> QED BY <2>2, <3>5 DEF Promise!Next
  <2> QED BY <1>5, <2>3, <2>4 DEF WriteFail
<1>6. CASE PoolBuildFails
  <2>1. /\ job' = job /\ disk' = disk /\ failed' = failed
        /\ result = "running" /\ result' = "err"
    BY <1>6 DEF PoolBuildFails, files
  <2>2. goal' = goal /\ disk'[Dest'] = disk[Dest]
    BY <2>1, Rigid
  <2> QED BY <2>1, <2>2 DEF Promise!Next, Promise!Fail
<1>7. CASE Return
  <2>1. /\ job' = job /\ disk' = disk /\ failed' = failed /\ result = "running"
        /\ result' = IF failed THEN "err" ELSE "ok"
    BY <1>7 DEF Return, files
  <2>2. goal' = goal /\ disk'[Dest'] = disk[Dest]
    BY <2>1, Rigid
  <2>3. CASE failed
    BY <2>1, <2>2, <2>3 DEF Promise!Next, Promise!Fail
  <2>4. CASE ~failed
    <3>1. Inv' /\ result' = "ok"
      BY <1>7, <2>1, <2>4, ReturnInv
    <3>2. SuccessIsComplete'
      BY <3>1, OkIsComplete, PTL
    <3>3. \A s \in DOMAIN goal : disk[Dest][s] = goal[s]
      BY <2>1, <3>1, <3>2, Rigid DEF SuccessIsComplete
    <3> QED BY <2>1, <2>2, <2>4, <3>3 DEF Promise!Next, Promise!Succeed
  <2> QED BY <2>3, <2>4
<1>8. CASE Returned \/ UNCHANGED vars
  <2>1. job' = job /\ disk' = disk /\ failed' = failed /\ result' = result
    BY <1>8 DEF Returned, vars
  <2> QED BY <2>1, Invisible
<1> QED BY <1>1, <1>3, <1>4, <1>5, <1>6, <1>7, <1>8 DEF Next, Step

(* process_ranges keeps the promise its callers rely on.                   *)
THEOREM KeepsPromise == Spec => ImplementsPromise
BY Invariance, InitPromise, StepPromise, PTL DEF Spec, ImplementsPromise, Promise!Spec

-----------------------------------------------------------------------------
(* Within a range the output grows as a prefix, also when the range's      *)
(* thread has given it up: behind a sector that was touched every earlier  *)
(* one is final.                                                           *)
PrefixInv ==
  \A k \in Ranges : \A s, t \in SectorsOf(Total, k) :
    s < t /\ disk[Dest][t] # Initial(t) => disk[Dest][s] = Final(s)

(* The calling thread works alone, and has finished every range before the *)
(* one it is at.                                                           *)
OrderInv ==
  job.mode = "Synchronous" =>
    /\ \A w \in Workers : w # 1 => pc[w] = "idle"
    /\ \A j \in Ranges, k \in claimed : j < k => j \in done

(* The counter is that of the sectors in finished ranges.                  *)
Counted  == {s \in 0 .. Total - 1 : \E k \in done : s \in SectorsOf(Total, k)}
CountInv == progress = IF job.counted THEN SectorSize * Cardinality(Counted) ELSE 0

MoreInv == PrefixInv /\ OrderInv /\ CountInv

(* A sector lies in one range only.                                        *)
LEMMA OneRange ==
  ASSUME job \in Jobs, NEW j \in Ranges, NEW k \in Ranges,
         NEW s \in SectorsOf(Total, j), s \in SectorsOf(Total, k)
  PROVE  j = k
<1>1. Total \in Nat
  BY JobFacts
<1>2. SUFFICES ASSUME j # k PROVE FALSE
  OBVIOUS
<1> QED BY <1>1, <1>2, RangesDisjoint DEF Ranges

(* A step that writes no sector keeps every prefix.                        *)
LEMMA PrefixKept ==
  ASSUME PrefixInv, job' = job, disk' = disk PROVE PrefixInv'
BY Rigid DEF PrefixInv

(* While a range is written its thread has changed a prefix of it, and the *)
(* next sector, whatever it becomes, lengthens that prefix.                *)
LEMMA PrefixGrows ==
  ASSUME Inv, PrefixInv, NEW w \in Workers, pc[w] = "write", NEW c \in Content,
         job' = job, disk' = [disk EXCEPT ![Dest][pos[w]] = c]
  PROVE  PrefixInv'
<1> DEFINE p == pos[w]
<1>1. TypeOK /\ job \in Jobs /\ cur[w] \in Ranges /\ p \in RangeOf(w)
  BY RangeFacts DEF Inv, TypeOK, ThreadTypeOK
<1>2. /\ \A s \in Sectors : s # p => disk'[Dest][s] = disk[Dest][s]
      /\ \A k \in Ranges : k # cur[w] =>
           \A s \in SectorsOf(Total, k) : disk'[Dest][s] = disk[Dest][s]
  BY OneSector
<1>3. ASSUME NEW k \in Ranges, NEW s \in SectorsOf(Total, k),
             NEW t \in SectorsOf(Total, k), s < t, disk'[Dest][t] # Initial(t)
      PROVE  disk'[Dest][s] = Final(s)
  <2>1. s \in Sectors /\ t \in Sectors /\ p \in Int /\ s \in Int /\ t \in Int
    BY <1>1, RangeFacts DEF RangeOf, SectorsOf
  <2>2. CASE k # cur[w]
    BY <1>2, <1>3, <2>2 DEF PrefixInv
  <2>3. CASE k = cur[w]
    <3>1. \A u \in SectorsOf(Total, k) :
            disk[Dest][u] = IF u < p THEN Final(u) ELSE Initial(u)
      BY <2>3 DEF Inv, ThreadInv, RangeOf
    <3>2. t = p \/ t < p
      BY <1>2, <1>3, <2>1, <3>1
    <3>3. s < p /\ s # p
      BY <1>3, <2>1, <3>2
    <3> QED BY <1>2, <2>1, <3>1, <3>3
  <2> QED BY <2>2, <2>3
<1> QED BY <1>3, Rigid DEF PrefixInv

(* A thread that claims a range: alone, it has nothing unfinished behind.  *)
LEMMA ClaimMore ==
  ASSUME Inv, MoreInv, NEW w \in Workers, Claim(w) PROVE MoreInv'
<1>1. /\ ~failed /\ w \in Threads /\ pc[w] = "idle"
      /\ pc' = [pc EXCEPT ![w] = "read"]
      /\ job' = job /\ disk' = disk /\ done' = done /\ progress' = progress
  BY DEF Claim, files
<1>2. PICK k \in Ranges \ claimed :
        /\ job.mode = "Synchronous" => \A j \in Ranges \ claimed : k <= j
        /\ claimed' = claimed \cup {k}
  BY DEF Claim
<1>3. TypeOK /\ job \in Jobs /\ DOMAIN pc = Workers
  BY DEF Inv, TypeOK
<1>4. Total' = Total /\ Ranges' = Ranges
  BY <1>1, Rigid
<1>5. ASSUME job.mode = "Synchronous"
      PROVE  /\ \A v \in Workers : v # 1 => pc'[v] = "idle"
             /\ \A j \in Ranges, i \in claimed' : j < i => j \in done
  <2>1. job.workers = 1
    BY <1>3, <1>5, JobsAssumption
  <2>2. w = 1
    BY <1>1, <2>1 DEF Threads
  <2>3. \A v \in Workers : v # 1 => pc'[v] = "idle"
    BY <1>1, <1>3, <1>5, <2>2 DEF MoreInv, OrderInv
  <2>4. \A v \in Workers : cur[v] = NoRange
    BY <1>1, <1>3, <1>5, <2>2 DEF MoreInv, OrderInv, TypeOK, ThreadTypeOK
  <2>5. claimed \subseteq done
    <3> SUFFICES ASSUME NEW i \in claimed, i \notin done PROVE FALSE
      OBVIOUS
    <3>1. i \in Ranges /\ i # NoRange
      BY <1>3, RangeFacts DEF TypeOK
    <3> QED BY <1>1, <2>4, <3>1 DEF Inv, RangeInv
  <2>6. ASSUME NEW j \in Ranges, NEW i \in claimed', j < i PROVE j \in done
    <3>1. CASE i \in claimed
      BY <1>5, <2>6, <3>1 DEF MoreInv, OrderInv
    <3>2. CASE i = k
      <4>1. j \in Nat /\ k \in Nat
        BY <1>2, <1>3, RangeFacts
      <4>2. j \in claimed
        BY <1>2, <1>5, <2>6, <3>2, <4>1
      <4> QED BY <2>5, <4>2
    <3> QED BY <1>2, <2>6, <3>1, <3>2
  <2> QED BY <2>3, <2>6
<1>6. OrderInv'
  BY <1>1, <1>4, <1>5 DEF OrderInv
<1>7. CountInv'
  BY <1>1, <1>4 DEF MoreInv, CountInv, Counted
<1> QED BY <1>1, <1>6, <1>7, PrefixKept DEF MoreInv

(* A step that claims and counts nothing, whatever it writes.              *)
LEMMA QuietMore ==
  ASSUME Inv, MoreInv, PrefixInv', job' = job, claimed' = claimed, done' = done,
         progress' = progress,
         \A v \in Workers : pc[v] = "idle" => pc'[v] = "idle"
  PROVE  MoreInv'
<1>1. Total' = Total /\ Ranges' = Ranges
  BY Rigid
<1>2. OrderInv'
  BY <1>1 DEF MoreInv, OrderInv
<1>3. CountInv'
  BY <1>1 DEF MoreInv, CountInv, Counted
<1> QED BY <1>2, <1>3 DEF MoreInv

(* Reading and encrypting a range changes no file.                         *)
LEMMA ReadCryptMore ==
  ASSUME Inv, MoreInv, NEW w \in Workers, ReadCrypt(w) PROVE MoreInv'
<1>1. /\ pc[w] = "read" /\ pc' = [pc EXCEPT ![w] = "write"]
      /\ job' = job /\ disk' = disk /\ claimed' = claimed /\ done' = done
      /\ progress' = progress
  BY DEF ReadCrypt, files
<1>2. \A v \in Workers : pc[v] = "idle" => pc'[v] = "idle"
  BY <1>1 DEF Inv, TypeOK
<1> QED BY <1>1, <1>2, PrefixKept, QuietMore DEF MoreInv

(* The next sector of a range is written when those before it are final.   *)
LEMMA WriteSectorMore ==
  ASSUME Inv, MoreInv, NEW w \in Workers, WriteSector(w) PROVE MoreInv'
<1>1. /\ pc[w] = "write" /\ disk' = [disk EXCEPT ![Dest][pos[w]] = buf[w][pos[w]]]
      /\ pc'  = [pc EXCEPT ![w] = IF pos'[w] \in RangeOf(w) THEN "write" ELSE "count"]
      /\ job' = job /\ claimed' = claimed /\ done' = done /\ progress' = progress
  BY DEF WriteSector
<1>2. buf[w][pos[w]] \in Content
  BY <1>1 DEF Inv, TypeOK, ThreadTypeOK
<1>3. PrefixInv'
  BY <1>1, <1>2, PrefixGrows DEF MoreInv
<1>4. \A v \in Workers : pc[v] = "idle" => pc'[v] = "idle"
  BY <1>1 DEF Inv, TypeOK
<1> QED BY <1>1, <1>3, <1>4, QuietMore

(* A thread that gives up its range leaves a prefix of it.                 *)
LEMMA AbandonMore ==
  ASSUME Inv, MoreInv, NEW w \in Workers, Abandon(w), PrefixInv' PROVE MoreInv'
<1>1. /\ pc'  = [pc EXCEPT ![w] = "idle"]
      /\ job' = job /\ claimed' = claimed /\ done' = done /\ progress' = progress
  BY DEF Abandon, Release
<1>2. \A v \in Workers : pc[v] = "idle" => pc'[v] = "idle"
  BY <1>1 DEF Inv, TypeOK
<1> QED BY <1>1, <1>2, QuietMore

(* A range that is given up keeps the sectors written, and one torn.       *)
LEMMA FailMore ==
  ASSUME Inv, MoreInv, NEW w \in Workers, ReadFail(w) \/ WriteFail(w)
  PROVE  MoreInv'
<1>1. Abandon(w) /\ job' = job
  BY DEF ReadFail, WriteFail, Abandon
<1>2. CASE UNCHANGED files
  BY <1>1, <1>2, PrefixKept, AbandonMore DEF files, MoreInv
<1>3. CASE WriteFail(w) /\ ~UNCHANGED files
  <2>1. pc[w] = "write" /\ disk' = [disk EXCEPT ![Dest][pos[w]] = Fresh("torn", pos[w])]
    BY <1>3 DEF WriteFail
  <2>2. Fresh("torn", pos[w]) \in Content
    <3>1. job \in Jobs /\ cur[w] \in Ranges /\ pos[w] \in RangeOf(w)
      BY <2>1, RangeFacts DEF Inv, TypeOK, ThreadTypeOK
    <3> QED BY <3>1, RangeFacts, FreshType DEF RangeOf
  <2> QED BY <1>1, <2>1, <2>2, PrefixGrows, AbandonMore DEF MoreInv
<1> QED BY <1>2, <1>3 DEF ReadFail

(* Counting a range adds its sectors, none of which was counted before.    *)
LEMMA CountRangeMore ==
  ASSUME Inv, MoreInv, NEW w \in Workers, CountRange(w) PROVE MoreInv'
<1> DEFINE k == cur[w]
           R == SectorsOf(Total, k)
<1>1. /\ pc[w] = "count" /\ pc'  = [pc EXCEPT ![w] = "idle"]
      /\ progress' = IF job.counted THEN progress + Count(Total, k) * SectorSize
                     ELSE progress
      /\ done' = done \cup {k}
      /\ job' = job /\ disk' = disk /\ claimed' = claimed
  BY DEF CountRange, Release, files
<1>2. TypeOK /\ job \in Jobs /\ Total \in Nat /\ SectorSize \in Nat
  BY JobFacts DEF Inv, TypeOK
<1>3. k \in Ranges /\ k \notin done /\ done \subseteq Ranges
  BY <1>1, <1>2 DEF Inv, ThreadInv, TypeOK
<1>4. Total' = Total /\ Ranges' = Ranges
  BY <1>1, Rigid
<1>5. OrderInv'
  <2>1. \A v \in Workers : pc[v] = "idle" => pc'[v] = "idle"
    BY <1>1, <1>2 DEF TypeOK
  <2> QED BY <1>1, <1>4, <2>1 DEF MoreInv, OrderInv
<1>6. R \subseteq 0 .. Total - 1 /\ First(k) \in Nat /\ Count(Total, k) \in Nat
  BY <1>2, <1>3, RangeFacts
<1>7. Counted' = Counted \cup R /\ Counted \cap R = {}
  <2>1. \A s \in Counted : s \notin R
    BY <1>2, <1>3, OneRange DEF Counted
  <2>2. Counted' = {s \in 0 .. Total - 1 : \E j \in done \cup {k} : s \in SectorsOf(Total, j)}
    BY <1>1, <1>4 DEF Counted
  <2> QED BY <1>6, <2>1, <2>2 DEF Counted
<1>8. IsFiniteSet(Counted) /\ Cardinality(Counted) \in Nat
  <2>1. IsFiniteSet(0 .. Total - 1) /\ Counted \in SUBSET (0 .. Total - 1)
    BY <1>2, FS_Interval DEF Counted
  <2> QED BY <2>1, FS_Subset, FS_CardinalityType
<1>9. IsFiniteSet(R) /\ Cardinality(R) = Count(Total, k)
  <2>1. R = First(k) .. First(k) + Count(Total, k) - 1
    BY DEF SectorsOf
  <2>2. First(k) \in Int /\ Count(Total, k) \in Nat
    BY <1>6
  <2> HIDE DEF R
  <2> QED BY <2>1, <2>2, IntervalSize
<1>10. Cardinality(Counted') = Cardinality(Counted) + Count(Total, k)
  BY <1>7, <1>8, <1>9, FS_Union, FS_EmptySet, <1>6
<1>11. CountInv'
  <2>1. CASE job.counted
    <3>1. progress = SectorSize * Cardinality(Counted)
      BY <2>1 DEF MoreInv, CountInv
    <3>2. SectorSize * (Cardinality(Counted) + Count(Total, k))
            = SectorSize * Cardinality(Counted) + Count(Total, k) * SectorSize
      BY <1>2, <1>6, <1>8
    <3> QED BY <1>1, <1>10, <2>1, <3>1, <3>2 DEF CountInv
  <2>2. CASE ~job.counted
    BY <1>1, <2>2 DEF MoreInv, CountInv
  <2> QED BY <2>1, <2>2
<1> QED BY <1>1, <1>5, <1>11, PrefixKept DEF MoreInv

(* Nothing is written, claimed or counted at the start.                    *)
LEMMA InitMore == Init => MoreInv
<1> SUFFICES ASSUME Init PROVE MoreInv
  OBVIOUS
<1>1. /\ job \in Jobs /\ disk = InitialDisk /\ claimed = {} /\ done = {} /\ progress = 0
      /\ \A w \in Workers : pc[w] = "idle"
  BY DEF Init
<1>2. PrefixInv
  BY <1>1 DEF PrefixInv, Initial
<1>3. OrderInv
  BY <1>1 DEF OrderInv
<1>4. CountInv
  <2>1. Counted = {}
    BY <1>1 DEF Counted
  <2>2. SectorSize * Cardinality({}) = 0
    BY SectorSizeAssumption, FS_EmptySet
  <2> QED BY <1>1, <2>1, <2>2 DEF CountInv
<1> QED BY <1>2, <1>3, <1>4 DEF MoreInv

(* Every step of every thread, and of the caller, keeps the rest.          *)
LEMMA StepMore == Inv /\ MoreInv /\ [Next]_vars => MoreInv'
<1> SUFFICES ASSUME Inv, MoreInv, [Next]_vars PROVE MoreInv'
  OBVIOUS
<1>1. ASSUME NEW w \in Workers, Step(w) PROVE MoreInv'
  BY <1>1, ClaimMore, ReadCryptMore, WriteSectorMore, FailMore, CountRangeMore DEF Step
<1>2. CASE PoolBuildFails \/ Return \/ Returned \/ UNCHANGED vars
  <2>1. /\ job' = job /\ disk' = disk /\ claimed' = claimed /\ done' = done
        /\ progress' = progress /\ pc' = pc
    BY <1>2 DEF PoolBuildFails, Return, Returned, vars, files, threads
  <2> QED BY <2>1, PrefixKept, QuietMore DEF MoreInv
<1> QED BY <1>1, <1>2 DEF Next

(* Both invariants together, since the second needs the first.             *)
LEMMA MoreInvariance == Spec => [](Inv /\ MoreInv)
<1>1. Init => Inv /\ MoreInv
  BY InitInv, InitMore
<1>2. (Inv /\ MoreInv) /\ [Next]_vars => (Inv /\ MoreInv)'
  BY StepInv, StepMore
<1> QED BY <1>1, <1>2, PTL DEF Spec

(* Alone on the calling thread the output grows as a prefix, whatever      *)
(* fails: the ranges before the one at work are finished, and within it    *)
(* nothing is touched behind a sector that is not final.                   *)
THEOREM PrefixIsSynchronous == Spec => []SynchronousPrefix
<1>1. Inv /\ MoreInv => SynchronousPrefix
  <2> SUFFICES ASSUME Inv, MoreInv, job.mode = "Synchronous",
                      NEW s \in 0 .. Total - 1, NEW t \in 0 .. Total - 1,
                      s < t, disk[Dest][t] # Initial(t)
               PROVE  disk[Dest][s] = Final(s)
    BY DEF SynchronousPrefix
  <2>1. TypeOK /\ job \in Jobs /\ Total \in Nat
    BY JobFacts DEF Inv, TypeOK
  <2>2. PICK j \in Ranges : s \in SectorsOf(Total, j)
    BY <2>1, RangesCover DEF Ranges
  <2>3. PICK k \in Ranges : t \in SectorsOf(Total, k)
    BY <2>1, RangesCover DEF Ranges
  <2>4. k \in claimed
    BY <2>3 DEF Inv, RangeInv, Untouched
  <2>5. CASE j = k
    BY <2>2, <2>3, <2>5 DEF MoreInv, PrefixInv
  <2>6. CASE j < k
    BY <2>2, <2>4, <2>6 DEF Inv, MoreInv, OrderInv, RangeInv, Complete
  <2>7. CASE k < j
    <3>1. j \in Nat /\ k \in Nat /\ First(k) \in Nat /\ First(j) \in Nat
          /\ Count(Total, k) \in 1 .. ChunkSectors
      BY <2>1, RangeInside DEF Ranges
    <3>2. First(k) + ChunkSectors <= First(j)
      BY <2>7, <3>1, FirstGrows
    <3>3. t < First(j) /\ s >= First(j)
      BY <2>2, <2>3, <3>1, <3>2, ChunkSectorsAssumption DEF SectorsOf
    <3> QED BY <3>1, <3>3
  <2>8. j \in Nat /\ k \in Nat
    BY <2>1, RangeInside DEF Ranges
  <2> QED BY <2>5, <2>6, <2>7, <2>8
<1> QED BY <1>1, MoreInvariance, PTL

(* The counted sectors are final ones; and if every range is done, all are.*)
LEMMA CountIsHonest == Inv /\ MoreInv => ProgressIsHonest
<1> SUFFICES ASSUME Inv, MoreInv PROVE ProgressIsHonest
  OBVIOUS
<1> DEFINE Done == {s \in 0 .. Total - 1 : disk[Dest][s] = Final(s)}
<1>1. /\ TypeOK /\ job \in Jobs /\ Total \in Nat /\ SectorSize \in Nat \ {0}
      /\ job.cover \in Nat
  BY JobFacts DEF Inv, TypeOK, JobType
<1>2. /\ IsFiniteSet(0 .. Total - 1) /\ Cardinality(0 .. Total - 1) = Total
  <2>1. 0 .. Total - 1 = 0 .. 0 + Total - 1 /\ 0 \in Int
    BY <1>1
  <2> QED BY <1>1, <2>1, IntervalSize
<1>3. Counted \subseteq Done
  BY DEF Inv, RangeInv, Complete, Counted
<1>4. /\ IsFiniteSet(Done) /\ Cardinality(Done) \in Nat
      /\ Cardinality(Counted) \in Nat /\ Cardinality(Counted) <= Cardinality(Done)
  <2>1. IsFiniteSet(Done)
    BY <1>2, FS_Subset
  <2>2. IsFiniteSet(Counted) /\ Cardinality(Counted) <= Cardinality(Done)
    BY <1>3, <2>1, FS_Subset
  <2> QED BY <2>1, <2>2, FS_CardinalityType
<1>5. progress <= SectorSize * Cardinality(Done)
  <2> DEFINE a == Cardinality(Counted)
             b == Cardinality(Done)
  <2>1. a \in Nat /\ b \in Nat /\ a <= b
    BY <1>4
  <2>2. progress = IF job.counted THEN SectorSize * a ELSE 0
    BY DEF MoreInv, CountInv
  <2> HIDE DEF a, b
  <2>3. SectorSize * a <= SectorSize * b /\ 0 <= SectorSize * b
    BY <1>1, <2>1
  <2> QED BY <2>2, <2>3 DEF b
<1>6. ASSUME result = "ok", job.counted PROVE progress >= job.cover
  <2>1. Counted = 0 .. Total - 1
    <3> SUFFICES ASSUME NEW s \in 0 .. Total - 1 PROVE s \in Counted
      BY DEF Counted
    <3>1. PICK k \in Ranges : s \in SectorsOf(Total, k)
      BY <1>1, RangesCover DEF Ranges
    <3>2. \A w \in Workers : cur[w] # k
      BY <1>1, <1>6, <3>1, RangeFacts DEF Inv, ResultInv, TypeOK, ThreadTypeOK
    <3> QED BY <1>6, <3>1, <3>2 DEF Inv, ResultInv, RangeInv, Counted
  <2>2. progress = SectorSize * Total
    BY <1>2, <1>6, <2>1 DEF MoreInv, CountInv
  <2>3. Total * SectorSize >= job.cover
    BY <1>1, DivCeilBounds DEF Total, TotalSectors
  <2>4. Total * SectorSize = SectorSize * Total
    BY <1>1
  <2> QED BY <2>2, <2>3, <2>4
<1> QED BY <1>5, <1>6 DEF ProgressIsHonest

(* The progress counter never runs ahead of the bytes that are final, and  *)
(* reaches the length of the job before Ok is returned.                    *)
THEOREM CounterIsHonest == Spec => []ProgressIsHonest
BY CountIsHonest, MoreInvariance, PTL

-----------------------------------------------------------------------------
(* The last thing done to an encrypted sector is its own encryption: the   *)
(* sector's number can be read off the content.                            *)
LEMMA LastOperation ==
  ASSUME job \in Jobs, job.dir = "enc", NEW s \in Nat
  PROVE  /\ Len(Final(s).ops) \in Nat
         /\ Final(s).ops[Len(Final(s).ops)] = [op |-> "enc", arg |-> plain64_iv(s)]
<1> DEFINE n    == Available(s)
           x    == Padded(InputAt(s), n, SectorSize)
           cut  == [op |-> "cut", arg |-> <<n, 0>>]
           mine == [op |-> "enc", arg |-> plain64_iv(s)]
           undo == [op |-> "dec", arg |-> plain64_iv(s)]
<1>1. /\ n \in Int /\ x \in Content /\ InputAt(s) \in Content
      /\ SectorSize \in Nat /\ InputAt(s).ops = <<>>
  BY JobFacts, InputType, PaddedType DEF InputAt, Zero, Fresh
<1>2. x.ops = <<>> \/ (n \in Nat /\ x.ops = <<cut>>)
  BY <1>1 DEF Padded, Zero, Fresh, Content
<1>3. x.ops \in Seq(Ops \cup Cuts) /\ mine \in Ops \cup Cuts
  BY <1>1, IvType DEF Content, Ops
<1>4. ~(Len(x.ops) > 0 /\ x.ops[Len(x.ops)] = undo)
  <2>1. cut.op = "cut" /\ undo.op = "dec"
    OBVIOUS
  <2>2. cut # undo
    BY <2>1
  <2> HIDE DEF cut, undo, x
  <2> QED BY <1>2, <2>2
<1>5. Final(s) = [x EXCEPT !.ops = Append(x.ops, mine)]
  BY <1>4 DEF Final, Crypt, Opposite
<1>6. Final(s).ops = Append(x.ops, mine)
  BY <1>1, <1>5 DEF Content
<1> HIDE DEF x, mine
<1>7. /\ Len(Append(x.ops, mine)) \in Nat
      /\ Append(x.ops, mine)[Len(Append(x.ops, mine))] = mine
  BY <1>3
<1> QED BY <1>6, <1>7 DEF mine

(* Sector numbers are u64, so no two sectors share an IV, and equal        *)
(* plaintext, the zero padding first of all, comes out different in every  *)
(* sector: what dm-crypt relies on plain64 for.                            *)
THEOREM NoEqualCiphertext == Spec => []EqualSectorsDiffer
<1>1. Inv => EqualSectorsDiffer
  <2> SUFFICES ASSUME Inv, result = "ok", job.dir = "enc",
                      NEW s \in 0 .. Total - 1, NEW t \in 0 .. Total - 1,
                      disk[Dest][s] = disk[Dest][t]
               PROVE  s = t
    BY DEF EqualSectorsDiffer
  <2>1. job \in Jobs /\ Total \in Nat /\ Total <= MaxSectors /\ MaxSectors \in Nat
    BY JobFacts DEF Inv, TypeOK
  <2>2. Final(s) = Final(t)
    BY OkIsComplete DEF SuccessIsComplete
  <2>3. [op |-> "enc", arg |-> plain64_iv(s)] = [op |-> "enc", arg |-> plain64_iv(t)]
    BY <2>1, <2>2, LastOperation
  <2>4. plain64_iv(s) = plain64_iv(t)
    BY <2>3
  <2>5. /\ s \in 0 .. IvWord * IvWord - 1
        /\ t \in 0 .. IvWord * IvWord - 1
    <3>1. IvWord * IvWord \in Nat
      BY IvWordAssumption
    <3> QED BY <3>1, <2>1, SectorNumbersFit
  <2> QED BY <2>4, <2>5, IvInjective
<1> QED BY <1>1, Invariance, PTL

-----------------------------------------------------------------------------
(* The loop of chunk_ranges.  Its arithmetic is that of SectorRanges.      *)
LEMMA LoopNames ==
  /\ Loop!total_sectors = Total
  /\ \A a, b : Loop!Least(a, b) = Least(a, b)
  /\ \A k : Loop!First(k) = First(k) /\ Loop!Count(Total, k) = Count(Total, k)
  /\ Loop!DivCeil(Total, ChunkSectors) = DivCeil(Total, ChunkSectors)
BY DEF Loop!total_sectors, Total, Loop!TotalSectors, TotalSectors, Loop!DivCeil, DivCeil,
       Loop!Least, Least, Loop!First, First, Loop!Count, Count

(* After n turns start is at the n-th range, or at the total.              *)
LoopInv ==
  /\ Loop!TypeOK
  /\ start = Least(First(Len(ranges)), Total)
  /\ \A i \in 1 .. Len(ranges) :
       /\ First(i - 1) < Total
       /\ ranges[i] = [first_sector |-> First(i - 1),
                       sector_count |-> Count(Total, i - 1)]

(* The sector count of a length is a natural number.                       *)
LEMMA LoopFacts ==
  job.cover \in Nat => Total \in Nat /\ ChunkSectors \in Nat \ {0}
BY DivCeilBounds, SectorSizeAssumption, ChunkSectorsAssumption DEF Total, TotalSectors

(* Before the first turn no sector is in a range.                          *)
LEMMA LoopStarts == Loop!Init => LoopInv
<1> SUFFICES ASSUME Loop!Init PROVE LoopInv
  OBVIOUS
<1>1. job.cover \in Nat /\ Total \in Nat /\ ChunkSectors \in Nat
  BY LoopFacts DEF Loop!Init
<1>2. Loop!TypeOK
  BY <1>1, LoopNames DEF Loop!Init, Loop!TypeOK
<1>3. First(Len(ranges)) = 0 /\ Len(ranges) = 0
  BY <1>1 DEF Loop!Init, First
<1> QED BY <1>1, <1>2, <1>3 DEF Loop!Init, LoopInv, Least

(* A turn of the loop pushes the next range of the closed form.            *)
LEMMA LoopTurn == LoopInv /\ Loop!Push => LoopInv'
<1> SUFFICES ASSUME LoopInv, Loop!Push PROVE LoopInv'
  OBVIOUS
<1> DEFINE n == Len(ranges)
           count == Least(ChunkSectors, Total - start)
           r == [first_sector |-> start, sector_count |-> count]
<1>1. job.cover \in Nat /\ Total \in Nat /\ ChunkSectors \in Nat \ {0}
  BY LoopFacts DEF LoopInv, Loop!TypeOK
<1>2. /\ start < Total /\ ranges' = Append(ranges, r) /\ start' = start + count
      /\ job.cover' = job.cover
  BY LoopNames DEF Loop!Push
<1>3. Total' = Total /\ Loop!total_sectors' = Total
  BY <1>2, LoopNames DEF Total, TotalSectors, DivCeil, Loop!total_sectors,
                         Loop!TotalSectors, Loop!DivCeil
<1>4. n \in Nat /\ start \in Nat /\ ranges \in Seq(Loop!SectorRange)
  BY <1>1, LoopNames DEF LoopInv, Loop!TypeOK
<1>5. First(n) \in Int /\ start = First(n) /\ count = Count(Total, n)
  BY <1>1, <1>2, <1>4 DEF LoopInv, Least, First, Count
<1>6. count \in Nat \ {0} /\ r \in Loop!SectorRange
  BY <1>1, <1>2, <1>4 DEF Least, Loop!SectorRange
<1>7. /\ ranges' \in Seq(Loop!SectorRange) /\ Len(ranges') = n + 1
      /\ \A i \in 1 .. n : ranges'[i] = ranges[i]
      /\ ranges'[n + 1] = r
  BY <1>2, <1>4, <1>6
<1>8. start' = Least(First(n + 1), Total)
  <2>1. First(n) + Count(Total, n) = Least(First(n + 1), Total)
    BY <1>1, <1>2, <1>4, <1>5, RangeEnd
  <2> QED BY <1>2, <1>5, <2>1
<1>9. Loop!TypeOK'
  <2>1. start' \in 0 .. Total
    BY <1>1, <1>2, <1>4, <1>6 DEF Least
  <2> QED BY <1>1, <1>2, <1>3, <1>7, <2>1 DEF Loop!TypeOK, Loop!SectorRange
<1>10. \A i \in 1 .. n + 1 :
         /\ First(i - 1) < Total
         /\ ranges'[i] = [first_sector |-> First(i - 1), sector_count |-> Count(Total, i - 1)]
  <2> SUFFICES ASSUME NEW i \in 1 .. n + 1
               PROVE  /\ First(i - 1) < Total
                      /\ ranges'[i] = [first_sector |-> First(i - 1),
                                       sector_count |-> Count(Total, i - 1)]
    OBVIOUS
  <2>1. CASE i \in 1 .. n
    BY <1>7, <2>1 DEF LoopInv
  <2>2. CASE i = n + 1
    <3>1. i - 1 = n
      BY <1>4, <2>2
    <3> QED BY <1>2, <1>5, <1>7, <2>2, <3>1
  <2> QED BY <1>4, <2>1, <2>2
<1> HIDE DEF n, count, r
<1>11. Len(ranges') = n + 1
  BY <1>7
<1> QED BY <1>3, <1>8, <1>9, <1>10, <1>11 DEF LoopInv, First, Count

(* ... and the steps after the loop leave its variables alone.             *)
LEMMA LoopStep == LoopInv /\ [Loop!Next]_(Loop!vars) => LoopInv'
<1>1. ASSUME LoopInv, UNCHANGED Loop!vars PROVE LoopInv'
  <2>1. job.cover' = job.cover /\ start' = start /\ ranges' = ranges
    BY <1>1 DEF Loop!vars
  <2>2. Total' = Total /\ Loop!total_sectors' = Loop!total_sectors
    BY <2>1 DEF Total, TotalSectors, DivCeil, Loop!total_sectors, Loop!TotalSectors,
                Loop!DivCeil
  <2> QED BY <1>1, <2>1, <2>2 DEF LoopInv, Loop!TypeOK
<1> QED BY <1>1, LoopTurn DEF Loop!Next

LEMMA LoopInvariance == Loop!Spec => []LoopInv
BY LoopStarts, LoopStep, PTL DEF Loop!Spec

(* When the loop stops it has pushed as many ranges as the closed form has.*)
LEMMA LoopEnds == LoopInv => Loop!ClosedForm
<1> SUFFICES ASSUME LoopInv PROVE Loop!ClosedForm
  OBVIOUS
<1> DEFINE n == Len(ranges)
           m == DivCeil(Total, ChunkSectors)
<1>0. Total \in Nat /\ ChunkSectors \in Nat \ {0} /\ n \in Nat
  BY LoopFacts DEF LoopInv, Loop!TypeOK
<1>1. m \in Nat /\ First(m) >= Total /\ First(m - 1) < Total
  BY <1>0, DivCeilBounds DEF First
<1>2. ASSUME NEW a \in Nat, NEW b \in Nat, a <= b
      PROVE  First(a) \in Nat /\ First(a) <= First(b)
  <2>1. First(a) \in Nat /\ First(b) \in Nat
    BY <1>0 DEF First
  <2>2. CASE a < b
    BY <2>1, <2>2, <1>0, FirstGrows
  <2> QED BY <2>1, <2>2, <1>2
<1>3. ASSUME n > 0 PROVE First(n - 1) < Total
  <2>1. n \in 1 .. Len(ranges)
    BY <1>0, <1>3
  <2> QED BY <2>1 DEF LoopInv
<1>4. start >= Total => First(n) >= Total
  BY <1>0 DEF LoopInv, Least, First
<1> HIDE DEF n, m
<1>5. ASSUME Loop!Finished PROVE n = m
  <2>1. ASSUME m < n PROVE FALSE
    <3>1. m <= n - 1 /\ n - 1 \in Nat
      BY <2>1, <1>0, <1>1
    <3>2. First(m) <= First(n - 1) /\ First(m) \in Nat /\ First(n - 1) \in Nat
      BY <3>1, <1>1, <1>2
    <3> QED BY <3>1, <3>2, <1>0, <1>1, <1>3
  <2>2. ASSUME n < m PROVE FALSE
    <3>1. n <= m - 1 /\ m - 1 \in Nat
      BY <2>2, <1>0, <1>1
    <3>2. First(n) <= First(m - 1) /\ First(n) \in Nat /\ First(m - 1) \in Nat
      BY <3>1, <1>0, <1>2
    <3>3. start >= Total
      BY <1>5, LoopNames DEF Loop!Finished
    <3> QED BY <3>2, <3>3, <1>0, <1>1, <1>4
  <2> QED BY <2>1, <2>2, <1>0, <1>1
<1>6. \A i \in 1 .. Len(ranges) :
        ranges[i] = [first_sector |-> Loop!First(i - 1),
                     sector_count |-> Loop!Count(Loop!total_sectors, i - 1)]
  BY LoopNames DEF LoopInv
<1>7. Loop!Finished => Len(ranges) = Loop!DivCeil(Loop!total_sectors, ChunkSectors)
  BY <1>5, LoopNames DEF n, m
<1> QED BY <1>6, <1>7 DEF Loop!ClosedForm

(* The closed form partitions the sectors.                                 *)
LEMMA LoopCovers == LoopInv => Loop!Partition
<1> SUFFICES ASSUME LoopInv, Loop!Finished
             PROVE  /\ \A s \in 0 .. Total - 1 :
                          \E i \in 1 .. Len(ranges) : s \in Loop!Covered(i)
                    /\ \A i, j \in 1 .. Len(ranges) :
                          i # j => Loop!Covered(i) \cap Loop!Covered(j) = {}
                    /\ \A i \in 1 .. Len(ranges) :
                          Loop!Covered(i) # {} /\ Loop!Covered(i) \subseteq 0 .. Total - 1
  BY LoopNames DEF Loop!Partition
<1>0. Total \in Nat /\ Len(ranges) \in Nat
  BY LoopFacts DEF LoopInv, Loop!TypeOK
<1>1. Len(ranges) = DivCeil(Total, ChunkSectors)
  BY LoopEnds, LoopNames DEF Loop!ClosedForm
<1>2. ASSUME NEW i \in 1 .. Len(ranges)
      PROVE  i - 1 \in RangeIds(Total) /\ Loop!Covered(i) = SectorsOf(Total, i - 1)
  BY <1>0, <1>1 DEF LoopInv, RangeIds, Loop!Covered, SectorsOf
<1>3. ASSUME NEW s \in 0 .. Total - 1
      PROVE  \E i \in 1 .. Len(ranges) : s \in Loop!Covered(i)
  <2>1. PICK k \in RangeIds(Total) : s \in SectorsOf(Total, k)
    BY <1>0, RangesCover
  <2>2. k + 1 \in 1 .. Len(ranges) /\ (k + 1) - 1 = k
    BY <1>0, <1>1 DEF RangeIds
  <2> QED BY <2>1, <2>2, <1>2
<1>4. ASSUME NEW i \in 1 .. Len(ranges), NEW j \in 1 .. Len(ranges), i # j
      PROVE  Loop!Covered(i) \cap Loop!Covered(j) = {}
  <2>1. i - 1 # j - 1
    BY <1>0, <1>4
  <2> QED BY <2>1, <1>0, <1>2, RangesDisjoint
<1>5. ASSUME NEW i \in 1 .. Len(ranges)
      PROVE  Loop!Covered(i) # {} /\ Loop!Covered(i) \subseteq 0 .. Total - 1
  BY <1>0, <1>2, RangeInside
<1> QED BY <1>3, <1>4, <1>5

(* chunk_ranges returns the closed form, for every length of the data.     *)
THEOREM LoopIsClosedForm == Loop!Spec => []Loop!ClosedForm
BY LoopInvariance, LoopEnds, PTL

(* chunk_ranges partitions [0, total) into non-empty ranges.               *)
THEOREM LoopPartitions == Loop!Spec => []Loop!Partition
BY LoopInvariance, LoopCovers, PTL

-----------------------------------------------------------------------------
(* A job as the commands run it: chunk_ranges first, which touches no file *)
(* of the transfer, then the transfer, which leaves the ranges alone.      *)
(* Whatever was proved of a transfer holds of the commands' jobs: seen from*)
(* the files, splitting the length into ranges changes nothing.            *)
THEOREM DispatchTransfers == DispatchSpec => Spec
<1>1. DispatchInit => Init
  BY DEF DispatchInit
<1>2. [DispatchNext]_dispatchVars => [Next]_vars
  BY DEF DispatchNext, dispatchVars, Split, Process
<1> QED BY <1>1, <1>2, PTL DEF DispatchSpec, Spec

(* Seen from the locals of chunk_ranges the job is the loop of that        *)
(* function: no step of the transfer changes a range it works on.          *)
THEOREM DispatchSplits == DispatchSpec => Loop!Spec
<1>1. DispatchInit => Loop!Init
  BY DEF DispatchInit
<1>2. [DispatchNext]_dispatchVars => [Loop!Next]_(Loop!vars)
  <2>1. Process => UNCHANGED Loop!vars
    BY DEF Process, Loop!vars, Next, Step, Claim, ReadCrypt, ReadFail, WriteSector,
           WriteFail, Abandon, CountRange, PoolBuildFails, Return, Returned, vars
  <2>2. UNCHANGED dispatchVars => UNCHANGED Loop!vars
    BY DEF dispatchVars, vars, Loop!vars
  <2> QED BY <2>1, <2>2 DEF DispatchNext, Split, Loop!Next
<1> QED BY <1>1, <1>2, PTL DEF DispatchSpec, Loop!Spec

(* When the job's loop has ended its ranges partition the sectors: none is *)
(* missed, taken by two threads, or written outside the output.            *)
THEOREM DispatchPartitions == DispatchSpec => []Partition
BY DispatchSplits, LoopPartitions, PTL DEF Partition

(* All that a job's callers rely on, in one statement about the behaviours *)
(* of a job from the first range pushed to the result returned.            *)
THEOREM DispatchIsCorrect ==
  DispatchSpec => /\ [](TypeOK /\ SuccessIsComplete /\ OldOrFinal)
                  /\ [](ProgressIsHonest /\ SynchronousPrefix /\ EqualSectorsDiffer)
                  /\ ImplementsPromise
BY DispatchTransfers, TypeCorrect, SuccessComplete, SectorsOldOrFinal, CounterIsHonest,
   PrefixIsSynchronous, NoEqualCiphertext, KeepsPromise, PTL

=============================================================================
