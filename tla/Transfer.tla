------------------------------ MODULE Transfer ------------------------------
(***************************************************************************)
(* process_ranges and process_one_range: the sectors [0, cover) of the     *)
(* output are produced range by range, each by a read of the input, a pass *)
(* of the cipher and a write of the output, on the calling thread or on a  *)
(* rayon pool, where any thread takes any range nobody has taken.          *)
(*                                                                         *)
(* A read is one step: no other range touches its sectors.  A write is one *)
(* step per sector and may fail, or the process may stop, before any of    *)
(* them; the sector a failing write stops in may be left torn.             *)
(***************************************************************************)
EXTENDS FiniteSets, SectorCipher, SectorRanges

CONSTANTS Jobs,           \* the calls of process_ranges to consider
          MaxWorkers,     \* threads of the largest pool
          MaxSectors      \* sectors of the largest output

Workers == 1 .. MaxWorkers
Sectors == 0 .. MaxSectors - 1
NoRange == -1

(* cover: bytes the ranges cover; real: data_len, bytes read from input;   *)
(* workers: 1 on the calling thread, else the threads of the pool;         *)
(* inPlace: both handles are the same file; counted: a counter is passed.  *)
JobType == [cover : Nat, real : Nat, dir : {"enc", "dec"},
            mode : {"Synchronous", "GlobalPool", "Fixed"}, workers : Workers,
            inPlace : BOOLEAN, counted : BOOLEAN]

ASSUME JobsAssumption ==
  /\ MaxWorkers \in Nat \ {0} /\ MaxSectors \in Nat
  /\ Jobs \subseteq JobType
  /\ \A j \in Jobs : /\ j.real <= j.cover
                     /\ TotalSectors(j.cover) <= MaxSectors
                     /\ j.mode = "Synchronous" => j.workers = 1

(* A sector number is a u64, as is the number an IV is made of.            *)
ASSUME SectorNumbersFit == MaxSectors <= IvWord * IvWord

VARIABLES
  job,        \* the arguments of the call
  disk,       \* content of every sector of the input and the output file
  outLen,     \* length of the output file in bytes
  claimed,    \* ranges some thread has taken
  done,       \* ranges process_one_range has returned Ok for
  failed,     \* some process_one_range has returned Err
  result,     \* what process_ranges returned
  progress,   \* the shared AtomicU64
  pc, cur, buf, pos   \* per thread: step, range, buffer, next sector to write

files   == <<disk, outLen>>
threads == <<pc, cur, buf, pos>>
vars    == <<job, disk, outLen, claimed, done, failed, result, progress,
             pc, cur, buf, pos>>

-----------------------------------------------------------------------------
Total   == TotalSectors(job.cover)
Ranges  == RangeIds(Total)
Threads == 1 .. job.workers
RangeOf(w)      == SectorsOf(Total, cur[w])
Dest          == IF job.inPlace THEN "in" ELSE "out"

(* What the two files hold before the call: the input is plaintext when it *)
(* is to be encrypted, a ciphertext of this key when it is to be decrypted;*)
(* set_len keeps the old bytes of an output file that already existed.     *)
InputAt(s) == IF s * SectorSize >= job.real THEN Zero
              ELSE IF job.dir = "enc" THEN Fresh("data", s)
              ELSE Crypt("enc", s, Fresh("data", s))
InitialDisk == [f \in {"in", "out"} |->
                 [s \in Sectors |-> IF f = "in" THEN InputAt(s)
                                    ELSE Fresh("old", s)]]
Initial(s) == InitialDisk[Dest][s]

(* Bytes of sector s below data_len; the rest of the buffer stays zero.    *)
Available(s) == job.real - s * SectorSize
ReadSector(s) == Padded(disk["in"][s], Available(s), SectorSize)

(* What sector s of the output must be once its range is done.             *)
Final(s) == Crypt(job.dir, s, Padded(InputAt(s), Available(s), SectorSize))

Init ==
  /\ job \in Jobs
  /\ disk = InitialDisk
  /\ outLen = job.cover
  /\ claimed = {} /\ done = {}
  /\ failed = FALSE /\ result = "running" /\ progress = 0
  /\ pc  = [w \in Workers |-> "idle"]
  /\ cur = [w \in Workers |-> NoRange]
  /\ buf = [w \in Workers |-> <<>>]
  /\ pos = [w \in Workers |-> 0]

-----------------------------------------------------------------------------
\* Mutant: the calling thread too may take the ranges in any order.
ClaimAnyOrder(w) ==
  /\ result = "running" /\ ~failed
  /\ w \in Threads /\ pc[w] = "idle"
  /\ \E k \in Ranges \ claimed : /\ claimed' = claimed \cup {k}
                                /\ cur' = [cur EXCEPT ![w] = k]
  /\ pc' = [pc EXCEPT ![w] = "read"]
  /\ UNCHANGED <<job, files, done, failed, result, progress, buf, pos>>

\* Mutant: a range may be taken again while another thread works on it.
ClaimTwice(w) ==
  /\ result = "running" /\ ~failed
  /\ w \in Threads /\ pc[w] = "idle"
  /\ \E k \in Ranges \ done : /\ claimed' = claimed \cup {k}
                             /\ cur' = [cur EXCEPT ![w] = k]
  /\ pc' = [pc EXCEPT ![w] = "read"]
  /\ UNCHANGED <<job, files, done, failed, result, progress, buf, pos>>

(* par_iter hands ranges out in any order, and none once a range failed;   *)
(* the calling thread takes them in order.                                 *)
Claim(w) ==
  /\ result = "running" /\ ~failed
  /\ w \in Threads /\ pc[w] = "idle"
  /\ \E k \in Ranges \ claimed :
       /\ job.mode = "Synchronous" => \A j \in Ranges \ claimed : k <= j
       /\ claimed' = claimed \cup {k}
       /\ cur' = [cur EXCEPT ![w] = k]
  /\ pc' = [pc EXCEPT ![w] = "read"]
  /\ UNCHANGED <<job, files, done, failed, result, progress, buf, pos>>

\* Mutant: the counter is advanced when the range is started.
ReadCryptCounting(w) ==
  /\ pc[w] = "read"
  /\ buf' = [buf EXCEPT ![w] = CryptRange(job.dir, [s \in RangeOf(w) |-> ReadSector(s)])]
  /\ pos' = [pos EXCEPT ![w] = First(cur[w])]
  /\ pc'  = [pc EXCEPT ![w] = "write"]
  /\ progress' = progress + Count(Total, cur[w]) * SectorSize
  /\ UNCHANGED <<job, files, claimed, done, failed, result, cur>>

(* The buffer is zeroed, filled up to data_len and put through the cipher. *)
ReadCrypt(w) ==
  /\ pc[w] = "read"
  /\ buf' = [buf EXCEPT ![w] = CryptRange(job.dir, [s \in RangeOf(w) |-> ReadSector(s)])]
  /\ pos' = [pos EXCEPT ![w] = First(cur[w])]
  /\ pc'  = [pc EXCEPT ![w] = "write"]
  /\ UNCHANGED <<job, files, claimed, done, failed, result, progress, cur>>

\* Mutant: the finished range is not forgotten.
ReleaseKeepingRange(w) ==
  /\ pc'  = [pc EXCEPT ![w] = "idle"]
  /\ buf' = [buf EXCEPT ![w] = <<>>]
  /\ pos' = [pos EXCEPT ![w] = 0]
  /\ UNCHANGED cur

Release(w) ==
  /\ pc'  = [pc EXCEPT ![w] = "idle"]
  /\ cur' = [cur EXCEPT ![w] = NoRange]
  /\ buf' = [buf EXCEPT ![w] = <<>>]
  /\ pos' = [pos EXCEPT ![w] = 0]

(* An error leaves process_one_range at once; the thread takes no other.   *)
Abandon(w) ==
  /\ failed' = TRUE
  /\ Release(w)
  /\ UNCHANGED <<job, claimed, done, result, progress>>

(* Nothing is read for a range that lies beyond data_len.                  *)
ReadFail(w) ==
  /\ pc[w] = "read" /\ Available(First(cur[w])) > 0
  /\ Abandon(w)
  /\ UNCHANGED files

WriteSector(w) ==
  /\ pc[w] = "write"
  /\ disk' = [disk EXCEPT ![Dest][pos[w]] = buf[w][pos[w]]]
  /\ outLen' = Greatest(outLen, (pos[w] + 1) * SectorSize)
  /\ pos' = [pos EXCEPT ![w] = @ + 1]
  /\ pc'  = [pc EXCEPT ![w] = IF pos'[w] \in RangeOf(w) THEN "write" ELSE "count"]
  /\ UNCHANGED <<job, claimed, done, failed, result, progress, cur, buf>>

WriteFail(w) ==
  /\ pc[w] = "write"
  /\ \/ UNCHANGED files
     \/ \E written \in 1 .. SectorSize - 1 :
          /\ disk' = [disk EXCEPT ![Dest][pos[w]] = Fresh("torn", pos[w])]
          /\ outLen' = Greatest(outLen, pos[w] * SectorSize + written)
  /\ Abandon(w)

(* fetch_add of the range's byte count, after the write and apart from it. *)
CountRange(w) ==
  /\ pc[w] = "count"
  /\ progress' = IF job.counted
                 THEN progress + Count(Total, cur[w]) * SectorSize
                 ELSE progress
  /\ done' = done \cup {cur[w]}
  /\ Release(w)
  /\ UNCHANGED <<job, files, claimed, failed, result>>

(* Fixed(n): the pool is built before any range is taken, or the call fails*)
PoolBuildFails ==
  /\ job.mode = "Fixed"
  /\ result = "running" /\ claimed = {}
  /\ result' = "err"
  /\ UNCHANGED <<job, files, claimed, done, failed, progress, threads>>

\* Mutant: the error of a range is lost.
ReturnOk ==
  /\ result = "running"
  /\ \A w \in Workers : pc[w] = "idle"
  /\ failed \/ claimed = Ranges
  /\ result' = "ok"
  /\ UNCHANGED <<job, files, claimed, done, failed, progress, threads>>

\* Mutant: the call goes on waiting for ranges nobody takes after an error.
ReturnAfterAll ==
  /\ result = "running"
  /\ \A w \in Workers : pc[w] = "idle"
  /\ failed \/ claimed = Ranges
  /\ result' = IF claimed # Ranges THEN result ELSE IF failed THEN "err" ELSE "ok"
  /\ UNCHANGED <<job, files, claimed, done, failed, progress, threads>>

Return ==
  /\ result = "running"
  /\ \A w \in Workers : pc[w] = "idle"
  /\ failed \/ claimed = Ranges
  /\ result' = IF failed THEN "err" ELSE "ok"
  /\ UNCHANGED <<job, files, claimed, done, failed, progress, threads>>

Step(w) == Claim(w) \/ ReadCrypt(w) \/ ReadFail(w) \/ WriteSector(w)
             \/ WriteFail(w) \/ CountRange(w)

Returned == result # "running" /\ UNCHANGED vars

Next == (\E w \in Workers : Step(w)) \/ PoolBuildFails \/ Return \/ Returned

Spec == Init /\ [][Next]_vars

(* Threads are scheduled, a file operation returns, and the caller resumes.*)
Fairness == (\A w \in Workers : WF_vars(Step(w))) /\ WF_vars(Return)

FairSpec == Spec /\ Fairness

-----------------------------------------------------------------------------
ThreadTypeOK(w) ==
  /\ pc[w] \in {"idle", "read", "write", "count"}
  /\ cur[w] \in Ranges \cup {NoRange}
  /\ pc[w] = "idle" <=> cur[w] = NoRange
  /\ pc[w] = "write" => /\ buf[w] \in [RangeOf(w) -> Content]
                        /\ pos[w] \in RangeOf(w)

(* A thread is at one of the steps of process_one_range, inside its range. *)
TypeOK ==
  /\ job \in Jobs
  /\ disk \in [{"in", "out"} -> [Sectors -> Content]]
  /\ outLen \in Nat /\ progress \in Nat
  /\ done \subseteq claimed /\ claimed \subseteq Ranges
  /\ failed \in BOOLEAN /\ result \in {"running", "ok", "err"}
  /\ DOMAIN pc = Workers /\ DOMAIN cur = Workers
  /\ DOMAIN buf = Workers /\ DOMAIN pos = Workers
  /\ \A w \in Workers : ThreadTypeOK(w)

(* A call that returns Ok has put the whole covered area through the cipher*)
(* once, every sector under its own IV and the bytes beyond data_len as    *)
(* zeros, whatever the threads, their order and an input that is also the  *)
(* output.                                                                 *)
SuccessIsComplete ==
  result = "ok" => \A s \in 0 .. Total - 1 : disk[Dest][s] = Final(s)

(* At every instant, and so after an error or a kill, each sector of the   *)
(* output is what it was, or final, or torn by a write that failed: none is*)
(* put through the cipher twice or under another sector's IV.              *)
OldOrFinal ==
  \A s \in Sectors :
    \/ disk[Dest][s] = Initial(s)
    \/ s < Total /\ disk[Dest][s] = Final(s)
    \/ s < Total /\ failed /\ disk[Dest][s] = Fresh("torn", s)

(* Equal plaintext sectors, the zero padding first of all, never come out  *)
(* as equal ciphertext sectors: each is encrypted under an IV of its own.  *)
EqualSectorsDiffer ==
  result = "ok" /\ job.dir = "enc" =>
    \A s, t \in 0 .. Total - 1 : s # t => disk[Dest][s] # disk[Dest][t]

(* The shared counter stays behind the bytes that are final on disk, so a  *)
(* display never shows work that is not done; and a call that returned Ok  *)
(* has counted at least the bytes it was asked for, which is what the      *)
(* display threads wait for.                                               *)
ProgressIsHonest ==
  /\ progress <= SectorSize * Cardinality({s \in 0 .. Total - 1 :
                                             disk[Dest][s] = Final(s)})
  /\ result = "ok" /\ job.counted => progress >= job.cover

(* On the calling thread the output grows as a prefix: nothing is touched  *)
(* behind a sector that is not final.  A pool gives no such guarantee.     *)
SynchronousPrefix ==
  job.mode = "Synchronous" =>
    \A s, t \in 0 .. Total - 1 :
      s < t /\ disk[Dest][t] # Initial(t) => disk[Dest][s] = Final(s)

(* process_ranges returns: no thread waits for another.                    *)
Termination == <>(result # "running")

(* The detailed transfer does what AtomicTransfer promises.                *)
Promise == INSTANCE AtomicTransfer WITH
  goal <- [s \in 0 .. Total - 1 |-> Final(s)], out <- disk[Dest],
  broken <- failed, status <- result

(* process_ranges, seen from image.rs and runner.rs, is the abstract       *)
(* transfer: sectors become new one by one, a failure spoils at most the   *)
(* sector it hit, and Ok is returned only when every sector is new.        *)
ImplementsPromise == Promise!Spec

=============================================================================
