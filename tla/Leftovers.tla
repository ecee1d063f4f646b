----------------------------- MODULE Leftovers -----------------------------
(***************************************************************************)
(* The commands that set something up outside their own files and have to  *)
(* take it down: the compatibility check of image encrypt (CompatGuard)    *)
(* and bench (BenchSweep).  Both name what they make by the process's id,  *)
(* so what an earlier process left behind may be met under the same name.  *)
(* A behaviour runs one of them.                                           *)
(***************************************************************************)
EXTENDS Integers, Sequences

CONSTANTS MaxEntries, MaxWorkers       \* BenchSweep

ASSUME LeftoversAssumption == MaxEntries \in Nat /\ MaxWorkers \in Nat

VARIABLES running,
          found, agrees, ciphertext, stale, mine, guard, step, result, verdict, stuck, touched,
          workers, current, results, files, dir, removeFailed, pass, exit

Compat == INSTANCE CompatGuard WITH pc <- step, outcome <- verdict
Sweep  == INSTANCE BenchSweep WITH pc <- pass

compatVars == <<found, agrees, ciphertext, stale, mine, guard, step, result, verdict,
                stuck, touched>>
sweepVars  == <<workers, current, results, files, dir, removeFailed, pass, exit>>
leftoversVars == <<running, compatVars, sweepVars>>

LeftoversInit ==
  \/ running = "compat" /\ Compat!Init /\ Sweep!Idle
  \/ running = "bench" /\ Compat!Idle /\ Sweep!Init

(* Neither runs.                                                           *)
LeftoversIdle == running = "none" /\ Compat!Idle /\ Sweep!Idle

CompatStep == running = "compat" /\ Compat!Next /\ UNCHANGED <<running, sweepVars>>
BenchStep  == running = "bench" /\ Sweep!Next /\ UNCHANGED <<running, compatVars>>
Over       == Compat!Over /\ Sweep!Over /\ UNCHANGED leftoversVars

LeftoversNext == CompatStep \/ BenchStep \/ Over

LeftoversSpec == LeftoversInit /\ [][LeftoversNext]_leftoversVars

-----------------------------------------------------------------------------
(* Whatever step fails, a check leaves no mapping, loop device or copy of  *)
(* the key behind, and a sweep that succeeds leaves no data in /tmp, unless*)
(* a clean-up command failed or the process was killed                     *)
(* (cryptsetup_compat.rs:105-123, runner.rs:83-84).                        *)
NothingLeaks == Compat!CheckLeaksNothing /\ Sweep!SweepLeavesNothing

(* The mapping of another process is never closed (CompatGuard).           *)
OnlyOwnMapping == Compat!OnlyOwnMapping

(* A Mismatch, which fails the command, is said only of a mapping that     *)
(* encrypts otherwise than SectorEngine, as cryptsetup_compat.rs:14-16 and *)
(* 45-46 have it; not so when the fixture was not yet written back, or its *)
(* write-back failed (CompatGuard).                                        *)
MismatchIsReal == Compat!MismatchIsReal

(* A successful bench reports one result for each valid entry of --workers,*)
(* in their order, and no failed pass is listed (BenchSweep).              *)
SweepIsComplete == Sweep!SweepIsComplete
=============================================================================
