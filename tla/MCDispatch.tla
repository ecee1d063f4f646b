----------------------------- MODULE MCDispatch -----------------------------
(***************************************************************************)
(* Small instances of Dispatch: two-byte sectors, ranges of two sectors.   *)
(***************************************************************************)
EXTENDS Dispatch

JobsWith(modes, workers, covers, dirs, aliased) ==
  {j \in [cover : covers, real : 0 .. MaxSectors * SectorSize, dir : dirs,
          mode : modes, workers : workers, inPlace : aliased,
          counted : {TRUE}] :
     /\ j.cover - 3 <= j.real \/ j.real <= 1
     /\ j.real <= j.cover
     /\ j.mode = "Synchronous" => j.workers = 1}

(* Two threads over two or three ranges, the last one short or not, the    *)
(* input ending inside a sector, a range or the padding; three threads     *)
(* over three ranges of an image encrypted in place.                       *)
PoolJobs ==
  JobsWith({"GlobalPool"}, {2}, {7, 10}, {"enc"}, BOOLEAN)
    \cup JobsWith({"Fixed"}, {2}, {9}, {"dec"}, {FALSE})
    \cup {j \in JobsWith({"Fixed"}, {3}, {10}, {"enc"}, {TRUE}) : j.real = 9}

(* The calling thread alone, every length up to four sectors, an input that*)
(* fills it or is followed by padding sectors, both ways, with and without *)
(* a counter.                                                              *)
SyncJobs == {[j EXCEPT !.counted = c] : c \in BOOLEAN,
               j \in JobsWith({"Synchronous"}, {1}, 0 .. 8, {"enc", "dec"}, BOOLEAN)}

MCJobs == PoolJobs \cup SyncJobs

=============================================================================
