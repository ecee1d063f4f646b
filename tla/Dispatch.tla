------------------------------ MODULE Dispatch ------------------------------
(***************************************************************************)
(* What run_encrypt_impl, run_decrypt_impl and bench's run do with a job:  *)
(* chunk_ranges splits its length into ranges, then process_ranges works   *)
(* on them.  ChunkLoop and Transfer, one after the other.                  *)
(***************************************************************************)
EXTENDS Transfer

VARIABLES start, ranges     \* the locals of chunk_ranges

dispatchVars == <<vars, start, ranges>>

Loop == INSTANCE ChunkLoop WITH dataLen <- job.cover

DispatchInit == Init /\ Loop!Init

Split == UNCHANGED vars /\ Loop!Push

Process == Loop!Finished /\ Next /\ UNCHANGED <<start, ranges>>

DispatchNext == Split \/ Process

(* The calling thread runs, and so does every thread of the pool; a file   *)
(* operation returns.                                                      *)
DispatchSpec ==
  /\ DispatchInit /\ [][DispatchNext]_dispatchVars
  /\ WF_dispatchVars(Split)
  /\ \A w \in Workers : WF_dispatchVars(Process /\ Step(w))
  /\ WF_dispatchVars(Process /\ Return)

-----------------------------------------------------------------------------
(* When the loop of chunk_ranges ends every sector below the total is in   *)
(* exactly one range and no range is empty or reaches beyond it: no sector *)
(* is missed, taken by two threads, or written outside the output.         *)
Partition == Loop!Partition

=============================================================================
