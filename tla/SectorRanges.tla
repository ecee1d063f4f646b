---------------------------- MODULE SectorRanges ----------------------------
(***************************************************************************)
(* The ranges chunk_ranges returns, in closed form.  ChunkLoop runs the    *)
(* loop of the code and shows that these are the ranges it pushes.         *)
(***************************************************************************)
EXTENDS Integers

CONSTANTS SectorSize,     \* bytes per sector (512)
          ChunkSectors    \* sectors per dispatched range (8 in the commands)

ASSUME SectorSizeAssumption   == SectorSize \in Nat \ {0}
ASSUME ChunkSectorsAssumption == ChunkSectors \in Nat \ {0}

Least(a, b)    == IF a <= b THEN a ELSE b
Greatest(a, b) == IF a >= b THEN a ELSE b
DivCeil(a, b)  == (a + b - 1) \div b

TotalSectors(dataLen) == DivCeil(dataLen, SectorSize)

First(k) == k * ChunkSectors
Count(total, k) == Least(ChunkSectors, total - First(k))

(* Indexes of the ranges that cover total sectors.                         *)
RangeIds(total) == 0 .. DivCeil(total, ChunkSectors) - 1

SectorsOf(total, k) == First(k) .. First(k) + Count(total, k) - 1

=============================================================================
