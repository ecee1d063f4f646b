------------------------------ MODULE ChunkLoop ------------------------------
(***************************************************************************)
(* The loop of chunk_ranges, which splits data_len bytes into ranges of    *)
(* chunk_sectors sectors, and its result in the closed form of             *)
(* SectorRanges that Transfer dispatches.                                  *)
(***************************************************************************)
EXTENDS Sequences, SectorRanges

VARIABLES dataLen,    \* bytes to split
          start,      \* first sector of the next range
          ranges      \* the ranges pushed so far

vars == <<dataLen, start, ranges>>

total_sectors == TotalSectors(dataLen)

SectorRange == [first_sector : Nat, sector_count : Nat]

Init == /\ dataLen \in Nat
        /\ start = 0
        /\ ranges = <<>>

\* Mutant: the last chunk is not clipped.
PushUnclipped ==
  /\ start < total_sectors
  /\ ranges' = Append(ranges, [first_sector |-> start, sector_count |-> ChunkSectors])
  /\ start' = start + ChunkSectors
  /\ UNCHANGED dataLen

(* One turn of the loop: a full chunk, or what is left of the sectors.     *)
Push ==
  LET count == Least(ChunkSectors, total_sectors - start)
  IN  /\ start < total_sectors
      /\ ranges' = Append(ranges, [first_sector |-> start, sector_count |-> count])
      /\ start' = start + count
      /\ UNCHANGED dataLen

Finished == start >= total_sectors

Next == Push \/ (Finished /\ UNCHANGED vars)

Spec == Init /\ [][Next]_vars

-----------------------------------------------------------------------------
(* The loop variables of chunk_ranges stay what they are declared as.      *)
TypeOK == /\ dataLen \in Nat
          /\ start \in 0 .. total_sectors
          /\ ranges \in Seq(SectorRange)

(* Sectors of the i-th range pushed.                                       *)
Covered(i) == ranges[i].first_sector ..
                ranges[i].first_sector + ranges[i].sector_count - 1

(* When the loop ends every sector below the total is in exactly one range *)
(* and no range is empty or reaches beyond it: no sector is missed, taken  *)
(* by two threads, or written outside the output.                          *)
Partition ==
  Finished =>
    /\ \A s \in 0 .. total_sectors - 1 : \E i \in 1 .. Len(ranges) : s \in Covered(i)
    /\ \A i, j \in 1 .. Len(ranges) : i # j => Covered(i) \cap Covered(j) = {}
    /\ \A i \in 1 .. Len(ranges) :
         Covered(i) # {} /\ Covered(i) \subseteq 0 .. total_sectors - 1

(* The ranges pushed so far are the first ones of the closed form, and at  *)
(* the end they are all of them.                                           *)
ClosedForm ==
  /\ \A i \in 1 .. Len(ranges) :
       ranges[i] = [first_sector |-> First(i - 1),
                    sector_count |-> Count(total_sectors, i - 1)]
  /\ Finished => Len(ranges) = DivCeil(total_sectors, ChunkSectors)

=============================================================================
