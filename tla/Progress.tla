------------------------------ MODULE Progress ------------------------------
(***************************************************************************)
(* dispatch_with_progress: one job, its shared counter, and the display    *)
(* the reporter asks for.  Under --ci the caller polls while a scoped      *)
(* thread works (CiProgress); else the caller works while a display thread *)
(* polls, or nothing does (LiveProgress).                                  *)
(***************************************************************************)
EXTENDS ProgressJob

VARIABLES
  ci,                                        \* reporter.ci_mode()
  total, counter, outcome, caller, done,     \* of both displays
  enabled, flavor, display, tick, bar,       \* of LiveProgress
  worker, finished, lastThreshold, reported    \* of CiProgress

liveVars == <<enabled, flavor, display, tick, bar>>
ciVars   == <<worker, finished, lastThreshold, reported>>
vars     == <<ci, total, counter, outcome, caller, done, liveVars, ciVars>>

Live == INSTANCE LiveProgress
Ci   == INSTANCE CiProgress

NoLive == /\ enabled = FALSE /\ flavor = "Sterile" /\ display = "none"
          /\ tick = 0 /\ bar = 0
NoCi   == /\ worker = "none" /\ finished = FALSE /\ lastThreshold = 0
          /\ reported = -1

Init == \/ ci = TRUE /\ Ci!Init /\ NoLive
        \/ ci = FALSE /\ Live!Init /\ NoCi

LiveStep(A) == ~ci /\ A /\ UNCHANGED <<ci, ciVars>>
CiStep(A)   == ci /\ A /\ UNCHANGED <<ci, liveVars>>

(* No job runs, and none will.                                             *)
ProgressIdle ==
  /\ ci = FALSE /\ total = 0 /\ counter = 0 /\ outcome = "none"
  /\ caller = "returned" /\ done = 0 /\ NoLive /\ NoCi

Next == LiveStep(Live!Next) \/ CiStep(Ci!Next)

(* Every thread is scheduled, and the work ends.                           *)
Fairness ==
  /\ WF_vars(LiveStep(Live!Display)) /\ WF_vars(LiveStep(Live!Caller))
  /\ WF_vars(CiStep(Ci!Worker)) /\ WF_vars(CiStep(Ci!Caller))

Spec == Init /\ [][Next]_vars /\ Fairness

-----------------------------------------------------------------------------
(* While the work runs the bar shows no byte that is not done, and after   *)
(* it shows all of them only because all of them are done.                 *)
BarIsHonest == ~ci => Live!BarIsHonest

(* However fast the worker is, the log of a CI run that succeeded ends with*)
(* a line that says 100%, and that of one that failed with one that does   *)
(* not.                                                                    *)
FinalReport == ci => Ci!FinalReport

(* The bar never moves backwards under the reader's eyes.                  *)
BarNeverRetreats == [][bar' >= bar]_vars

(* A command whose work succeeded returns, with every display, and under   *)
(* --ci also one whose work has failed: nobody waits for a count that will *)
(* not come.                                                               *)
CommandReturns ==
  /\ outcome = "ok" ~> caller = "returned"
  /\ ci ~> caller = "returned"

(* The comment of finish: it waits for the display thread to notice        *)
(* completion, that is, it returns.                                        *)
FinishReturns == ~ci /\ caller = "join" ~> caller = "returned"

=============================================================================
