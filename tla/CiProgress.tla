----------------------------- MODULE CiProgress -----------------------------
(***************************************************************************)
(* The progress of encrypt and decrypt under --ci: the work runs on a      *)
(* scoped thread while the calling thread polls the shared counter and     *)
(* writes a line whenever a quarter has been crossed, when it has been     *)
(* silent for long, and once more when the worker has finished.            *)
(*                                                                         *)
(* The worker is what Transfer shows of process_ranges; its loads and the  *)
(* poller's are taken in program order.                                    *)
(***************************************************************************)
EXTENDS ProgressJob

VARIABLES
  total,        \* total_bytes
  counter,      \* the shared AtomicU64
  worker,       \* scoped thread: run, ended (its outcome is stored), gone
  outcome,      \* what the worker leaves for join
  caller,       \* calling thread: first, second, report, sleep, join, returned
  finished, done, lastThreshold,   \* its locals
  reported      \* bytes of the last line, -1 before the first

vars == <<total, counter, worker, outcome, caller, finished, done,
          lastThreshold, reported>>

Threshold(n) == (4 * n) \div total        \* in quarters

Init ==
  /\ total \in Totals
  /\ counter = 0 /\ worker = "run" /\ outcome = "none"
  /\ caller = IF total = 0 THEN "join" ELSE "first"
  /\ finished = FALSE /\ done = 0 /\ lastThreshold = 0
  /\ reported = -1

-----------------------------------------------------------------------------
(* The worker.  It has finished for is_finished only after its outcome is  *)
(* stored.                                                                 *)
RangeDone ==
  /\ worker = "run" /\ counter < total
  /\ counter' = counter + RangeBytes
  /\ UNCHANGED <<total, worker, outcome, caller, finished, done,
                 lastThreshold, reported>>

WorkEnds ==
  /\ worker = "run"
  /\ \/ counter >= total /\ outcome' = "ok"
     \/ (counter < total \/ total = 0) /\ outcome' = "err"
  /\ worker' = "ended"
  /\ UNCHANGED <<total, counter, caller, finished, done, lastThreshold,
                 reported>>

ThreadGone ==
  /\ worker = "ended" /\ worker' = "gone"
  /\ UNCHANGED <<total, counter, outcome, caller, finished, done,
                 lastThreshold, reported>>

-----------------------------------------------------------------------------
(* Each turn of the loop reads both, in this order.                        *)
Check  == finished' = (worker = "gone") /\ UNCHANGED done
Sample == done' = Least(counter, total) /\ UNCHANGED finished

\* Mutant: the order the comment describes.
TurnSampleFirst ==
  /\ caller \in {"first", "second"}
  /\ IF caller = "first" THEN Sample ELSE Check
  /\ caller' = IF caller = "first" THEN "second" ELSE "report"
  /\ UNCHANGED <<total, counter, worker, outcome, lastThreshold, reported>>

Turn ==
  /\ caller \in {"first", "second"}
  /\ IF caller = "first" THEN Check ELSE Sample
  /\ caller' = IF caller = "first" THEN "second" ELSE "report"
  /\ UNCHANGED <<total, counter, worker, outcome, lastThreshold, reported>>

Note == lastThreshold' = Greatest(lastThreshold, Threshold(done))

Silent == UNCHANGED <<lastThreshold, reported>>

Line ==
  /\ Note
  /\ reported' = done

\* Mutant: the loop ends on the bytes it has seen, as the bar's does.
ReportUntilAllBytes ==
  /\ caller = "report"
  /\ IF Threshold(done) > lastThreshold
     THEN Line
     ELSE \/ Silent
          \/ done > 0 /\ Line
  /\ caller' = IF done >= total THEN "join" ELSE "sleep"
  /\ UNCHANGED <<total, counter, worker, outcome, finished, done>>

(* The fallback may or may not be due.                                     *)
Report ==
  /\ caller = "report"
  /\ IF finished \/ Threshold(done) > lastThreshold
     THEN Line
     ELSE \/ Silent
          \/ done > 0 /\ Line
  /\ caller' = IF finished THEN "join" ELSE "sleep"
  /\ UNCHANGED <<total, counter, worker, outcome, finished, done>>

Wake ==
  /\ caller = "sleep" /\ caller' = "first"
  /\ UNCHANGED <<total, counter, worker, outcome, finished, done,
                 lastThreshold, reported>>

Join ==
  /\ caller = "join" /\ worker = "gone"
  /\ caller' = "returned"
  /\ UNCHANGED <<total, counter, worker, outcome, finished, done,
                 lastThreshold, reported>>

Worker == RangeDone \/ WorkEnds \/ ThreadGone
Caller == Turn \/ Report \/ Wake \/ Join

Returned == caller = "returned" /\ UNCHANGED vars

Next == Worker \/ Caller \/ Returned

Spec == Init /\ [][Next]_vars

-----------------------------------------------------------------------------
(* However fast the worker is, the log of a run that succeeded ends with a *)
(* line that says 100%, and that of a run that failed with one that does   *)
(* not.                                                                    *)
FinalReport ==
  caller = "returned" /\ total > 0 =>
    (outcome = "ok" <=> reported = total)

=============================================================================
