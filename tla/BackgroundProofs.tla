-------------------------- MODULE BackgroundProofs --------------------------
(***************************************************************************)
(* What goes on beside the work of a command: the display of its progress  *)
(* (Progress), and what the compatibility check and bench set up outside   *)
(* their own files (Leftovers).                                            *)
(*                                                                         *)
(* For every length, range size and progress flavour, what a display shows *)
(* is so at every instant and when the command returns.  Its invariant,    *)
(* Shown, says how far each value a thread holds may be behind the one it  *)
(* was copied from: the bar behind the display thread's sample, the sample *)
(* behind the counter, the flag of the CI poller behind the worker.        *)
(*                                                                         *)
(* Whatever step fails, and however many entries --workers has, what a     *)
(* check or a sweep sets up is taken down, nothing of another process is,  *)
(* and a sweep reports every number it was asked to measure.  TakenDown    *)
(* says that until drop begins the Guard holds just the mapping and the    *)
(* loop device of this run, how much of them is gone after each command of *)
(* drop that succeeded, and which entries of --workers have a result.      *)
(***************************************************************************)
EXTENDS Background, TLAPS

(***************************************************************************)
(* The display of progress                                                 *)
(***************************************************************************)
SharedTypeOK ==
  /\ ci \in BOOLEAN
  /\ total \in Nat /\ counter \in Nat /\ done \in Nat /\ bar \in Nat
  /\ outcome \in {"none", "ok", "err"}

(* The bar shows no more than the last sample, the sample no more than the *)
(* counter, and the display thread leaves only when it has seen all bytes; *)
(* the counter stands still once the work has returned.                    *)
LiveInv ==
  /\ bar <= done /\ done <= Least(counter, total)
  /\ display \in {"none", "load", "draw", "sleep", "exited"}
  /\ caller \in {"start", "work", "join", "returned"}
  /\ caller = "start" => display = "none"
  /\ display = "exited" => done = total
  /\ caller = "join" => display # "none"
  /\ caller = "join" /\ outcome # "ok" => counter < total
  /\ caller = "returned" /\ display # "none" => bar = total /\ outcome = "ok"

(* The poller has seen the worker finished only after its outcome was set, *)
(* and has taken the sample it reports last after that.                    *)
CiInv ==
  /\ worker \in {"run", "ended", "gone"} /\ finished \in BOOLEAN
  /\ worker = "run" <=> outcome = "none"
  /\ outcome = "ok" => counter >= total
  /\ outcome = "err" => counter < total \/ total = 0
  /\ finished => worker = "gone"
  /\ caller \in {"first", "sleep"} => ~finished
  /\ caller = "report" /\ finished => done = Least(counter, total)
  /\ caller \in {"join", "returned"} /\ total > 0 =>
       finished /\ reported = Least(counter, total)
  /\ caller \in {"first", "second", "report", "sleep", "join", "returned"}

Shown ==
  /\ SharedTypeOK
  /\ ~ci => LiveInv
  /\ ci => CiInv

-----------------------------------------------------------------------------
(* Nothing is shown before the first byte; a CI job of no bytes is joined  *)
(* at once.                                                                *)
LEMMA InitInv == Init => Shown
<1> SUFFICES ASSUME Init PROVE Shown
  OBVIOUS
<1>1. /\ total \in Nat /\ counter = 0 /\ done = 0 /\ bar = 0 /\ outcome = "none"
  BY ProgressAssumption DEF Init, NoLive, Live!Init, Ci!Init
<1>2. CASE ci = TRUE /\ Ci!Init /\ NoLive
  <2>1. /\ worker = "run" /\ finished = FALSE
        /\ caller = IF total = 0 THEN "join" ELSE "first"
    BY <1>2 DEF Ci!Init
  <2>2. /\ ci \in BOOLEAN /\ ci /\ finished \in BOOLEAN /\ ~finished
    BY <1>2, <2>1
  <2>3. CiInv
    BY <1>1, <2>1, <2>2 DEF CiInv
  <2> QED BY <1>1, <2>2, <2>3 DEF Shown, SharedTypeOK
<1>3. CASE ci = FALSE /\ Live!Init /\ NoCi
  <2>1. ci \in BOOLEAN /\ ~ci
    BY <1>3
  <2>2. LiveInv
    BY <1>1, <1>3 DEF Live!Init, LiveInv, Least
  <2> QED BY <1>1, <2>1, <2>2 DEF Shown, SharedTypeOK
<1> QED BY <1>2, <1>3 DEF Init

(* A turn of the caller or of the display thread keeps the order of bar,   *)
(* sample and counter.                                                     *)
LEMMA LiveStepInv ==
  ASSUME Shown, ~ci, Live!Next, UNCHANGED <<ci, ciVars>>
  PROVE  Shown' /\ bar' >= bar
<1> USE DEF Shown, SharedTypeOK, LiveInv, Least, ciVars, Live!args
<1>1. CASE Live!Start
  BY <1>1 DEF Live!Start
<1>2. CASE Live!RangeDone
  BY <1>2, ProgressAssumption DEF Live!RangeDone
<1>3. CASE Live!WorkOk
  BY <1>3 DEF Live!WorkOk, Live!AfterWork
<1>4. CASE Live!WorkFails
  BY <1>4 DEF Live!WorkFails, Live!AfterWork
<1>5. CASE Live!Finish
  BY <1>5 DEF Live!Finish
<1>6. CASE Live!Load
  BY <1>6 DEF Live!Load, Live!Least
<1>7. CASE Live!Draw
  BY <1>7 DEF Live!Draw
<1>8. CASE Live!Wake
  BY <1>8 DEF Live!Wake
<1>9. CASE Live!Returned
  BY <1>9 DEF Live!Returned, Live!vars
<1> QED BY <1>1, <1>2, <1>3, <1>4, <1>5, <1>6, <1>7, <1>8, <1>9
        DEF Live!Next, Live!Caller, Live!Display

(* Whatever the worker does between the poller's two loads, the flag and   *)
(* the sample stay in step.                                                *)
LEMMA CiStepInv ==
  ASSUME Shown, ci, Ci!Next, UNCHANGED <<ci, liveVars>>
  PROVE  Shown' /\ bar' = bar
<1> USE DEF Shown, SharedTypeOK, CiInv, Least, liveVars
<1>1. CASE Ci!RangeDone
  BY <1>1, ProgressAssumption DEF Ci!RangeDone
<1>2. CASE Ci!WorkEnds
  BY <1>2 DEF Ci!WorkEnds
<1>3. CASE Ci!ThreadGone
  BY <1>3 DEF Ci!ThreadGone
<1>4. CASE Ci!Turn
  BY <1>4 DEF Ci!Turn, Ci!Check, Ci!Sample, Ci!Least
<1>5. CASE Ci!Report
  BY <1>5 DEF Ci!Report, Ci!Line, Ci!Silent, Ci!Note
<1>6. CASE Ci!Wake
  BY <1>6 DEF Ci!Wake
<1>7. CASE Ci!Join
  BY <1>7 DEF Ci!Join
<1>8. CASE Ci!Returned
  BY <1>8 DEF Ci!Returned, Ci!vars
<1> QED BY <1>1, <1>2, <1>3, <1>4, <1>5, <1>6, <1>7, <1>8
        DEF Ci!Next, Ci!Worker, Ci!Caller

(* Every step keeps the invariant, and none moves the bar back.            *)
LEMMA StepInv == Shown /\ [Next]_vars => Shown' /\ bar' >= bar
<1> SUFFICES ASSUME Shown, [Next]_vars PROVE Shown' /\ bar' >= bar
  OBVIOUS
<1>1. bar \in Nat
  BY DEF Shown, SharedTypeOK
<1>2. CASE LiveStep(Live!Next)
  BY <1>2, LiveStepInv DEF LiveStep
<1>3. CASE CiStep(Ci!Next)
  BY <1>1, <1>3, CiStepInv DEF CiStep
<1>4. CASE UNCHANGED vars
  BY <1>1, <1>4 DEF vars, liveVars, ciVars, Shown, SharedTypeOK, LiveInv, CiInv, Least
<1> QED BY <1>2, <1>3, <1>4 DEF Next

(* So the invariant holds at every instant of every command.               *)
LEMMA Invariance == Spec => []Shown
BY InitInv, StepInv, PTL DEF Spec

-----------------------------------------------------------------------------
(* While the work runs the bar shows no byte that is not done, and after   *)
(* it shows all of them only because all of them are done.                 *)
THEOREM BarHonest == Spec => []BarIsHonest
<1>1. Shown => BarIsHonest
  BY DEF Shown, SharedTypeOK, LiveInv, BarIsHonest, Live!BarIsHonest, Least
<1> QED BY <1>1, Invariance, PTL

(* The log of a CI run ends with a line that says 100% exactly if the run  *)
(* succeeded, however the worker and the poller are scheduled.             *)
THEOREM LastLineIsRight == Spec => []FinalReport
<1>1. Shown => FinalReport
  BY DEF Shown, SharedTypeOK, CiInv, FinalReport, Ci!FinalReport, Least
<1> QED BY <1>1, Invariance, PTL

(* The bar never moves back, not even when finish draws it as full.        *)
THEOREM BarAdvances == Spec => BarNeverRetreats
BY Invariance, StepInv, PTL DEF Spec, BarNeverRetreats

-----------------------------------------------------------------------------
(***************************************************************************)
(* What is set up outside a command's own files                            *)
(***************************************************************************)
Steps == {"probe", "backing", "key", "loop", "map", "write", "compare",
          "close", "detach", "remove", "over"}
Passes == {"parse", "create_dir", "write_input", "open_input", "create_output",
           "transfer", "remove", "report", "over"}

CompatInv ==
  /\ step \in Steps /\ stuck \in BOOLEAN /\ touched = FALSE
  /\ mine \subseteq Compat!Things
  /\ step = "probe" => mine = {} /\ guard = {}
  /\ step \notin {"detach", "remove", "over"} => guard = mine \cap {"map", "loop"}
  /\ step = "detach" /\ stuck = FALSE =>
       "map" \notin mine /\ ("loop" \in mine => "loop" \in guard)
  /\ step = "remove" /\ stuck = FALSE => "map" \notin mine /\ "loop" \notin mine
  /\ step = "over" /\ stuck = FALSE => mine = {}

(* Once the last pass is over its directory is gone, and no pass begins    *)
(* after the command has its exit code.                                    *)
SweepInv ==
  /\ pass \in Passes /\ removeFailed \in BOOLEAN /\ dir \in BOOLEAN
  /\ pass # "over" => exit = "none"
  /\ pass = "report" \/ exit = "Success" => removeFailed = TRUE \/ dir = FALSE

(* Each pass so far has left one result, in the order of the valid entries,*)
(* and the loop ends when there is one for each.                           *)
Measured == {Sweep!AtLeastOne(Sweep!Valid[k]) : k \in Nat}

ResultsInv ==
  /\ results \in Seq(Measured) /\ current \in Nat \ {0}
  /\ \A i \in 1 .. Len(results) : results[i] = Sweep!AtLeastOne(Sweep!Valid[i])
  /\ pass \notin {"report", "over"} => current = Len(results) + 1
  /\ pass # "over" => exit = "none"
  /\ pass = "report" \/ exit = "Success" => Len(results) = Len(Sweep!Valid)

TakenDown == CompatInv /\ SweepInv /\ ResultsInv

-----------------------------------------------------------------------------
(* Before a check or a sweep has set anything up.                          *)
LEMMA LeftoversInitInv == LeftoversInit => TakenDown
<1> SUFFICES ASSUME LeftoversInit PROVE TakenDown
  OBVIOUS
<1>1. CompatInv
  BY DEF LeftoversInit, Compat!Init, Compat!Idle, CompatInv, Steps
<1>2. SweepInv
  BY DEF LeftoversInit, Sweep!Init, Sweep!Idle, SweepInv, Passes
<1>3. ResultsInv
  <2>1. results = <<>> /\ current = 1 /\ exit = "none" /\ pass \in {"parse", "over"}
    BY DEF LeftoversInit, Sweep!Init, Sweep!Idle
  <2>2. results \in Seq(Measured) /\ Len(results) = 0
    BY <2>1
  <2> QED BY <2>1, <2>2 DEF ResultsInv
<1> QED BY <1>1, <1>2, <1>3 DEF TakenDown

(* Until drop: what is set up is recorded by the step that sets it up.     *)
LEMMA SetUpInv ==
  ASSUME CompatInv,
         \/ Compat!Probe \/ Compat!CreateFile("backing", "key")
         \/ Compat!CreateFile("key", "loop") \/ Compat!SetupLoop \/ Compat!OpenMap
         \/ Compat!WriteFixture \/ Compat!WriteBack \/ Compat!Compare
  PROVE  CompatInv'
<1> USE DEF CompatInv, Compat!At, Compat!Fails, Compat!Return, Compat!Next1,
            Compat!Things, Steps
<1>1. CASE Compat!Probe
  BY <1>1 DEF Compat!Probe
<1>2. CASE Compat!CreateFile("backing", "key")
  BY <1>2 DEF Compat!CreateFile
<1>3. CASE Compat!CreateFile("key", "loop")
  BY <1>3 DEF Compat!CreateFile
<1>4. CASE Compat!SetupLoop
  BY <1>4 DEF Compat!SetupLoop
<1>5. CASE Compat!OpenMap
  BY <1>5 DEF Compat!OpenMap
<1>6. CASE Compat!WriteFixture
  BY <1>6 DEF Compat!WriteFixture
<1>7. CASE Compat!WriteBack
  BY <1>7 DEF Compat!WriteBack
<1>8. CASE Compat!Compare
  BY <1>8 DEF Compat!Compare
<1> QED BY <1>1, <1>2, <1>3, <1>4, <1>5, <1>6, <1>7, <1>8

(* Drop takes down what is recorded, or the run is stuck with it.          *)
LEMMA DropInv ==
  ASSUME CompatInv,
         Compat!CloseMap \/ Compat!Detach \/ Compat!Remove \/ Compat!Kill
  PROVE  CompatInv'
<1> USE DEF CompatInv, Compat!Closed, Compat!Things, Steps
<1>1. CASE Compat!CloseMap
  BY <1>1 DEF Compat!CloseMap
<1>2. CASE Compat!Detach
  BY <1>2 DEF Compat!Detach
<1>3. CASE Compat!Remove
  BY <1>3 DEF Compat!Remove
<1>4. CASE Compat!Kill
  BY <1>4 DEF Compat!Kill
<1> QED BY <1>1, <1>2, <1>3, <1>4

(* Every step of a sweep keeps what is known of its directory.             *)
LEMMA SweepStepInv == SweepInv /\ Sweep!Next => SweepInv'
<1> SUFFICES ASSUME SweepInv, Sweep!Next PROVE SweepInv'
  OBVIOUS
<1> USE DEF SweepInv, Passes
<1>1. CASE Sweep!Parse
  BY <1>1 DEF Sweep!Parse
<1>2. CASE Sweep!CreateDir
  BY <1>2 DEF Sweep!CreateDir
<1>3. CASE Sweep!WriteInput \/ Sweep!OpenInput \/ Sweep!CreateOutput \/ Sweep!Transfer
  BY <1>3 DEF Sweep!WriteInput, Sweep!OpenInput, Sweep!CreateOutput, Sweep!Transfer
<1>4. CASE Sweep!RemoveDir
  BY <1>4 DEF Sweep!RemoveDir, Sweep!NextPass
<1>5. CASE Sweep!Report
  BY <1>5 DEF Sweep!Report
<1>6. CASE Sweep!Fail
  BY <1>6 DEF Sweep!Fail
<1> QED BY <1>1, <1>2, <1>3, <1>4, <1>5, <1>6 DEF Sweep!Next

(* Only the end of a pass adds a result, and it is that of its own entry.  *)
LEMMA ResultsStepInv == ResultsInv /\ Sweep!Next => ResultsInv'
<1> SUFFICES ASSUME ResultsInv, Sweep!Next PROVE ResultsInv'
  OBVIOUS
<1>1. workers' = workers
  BY DEF Sweep!Next, Sweep!Parse, Sweep!CreateDir, Sweep!WriteInput, Sweep!OpenInput,
         Sweep!CreateOutput, Sweep!Transfer, Sweep!RemoveDir, Sweep!Report, Sweep!Fail
<1>2. Sweep!Valid' = Sweep!Valid /\ Measured' = Measured
  BY <1>1 DEF Sweep!Valid, Measured
<1>3. CASE Sweep!RemoveDir
  <2> DEFINE x == Sweep!AtLeastOne(Sweep!Valid[current])
  <2>1. current = Len(results) + 1 /\ exit = "none" /\ exit' = exit
    BY <1>3 DEF ResultsInv, Sweep!RemoveDir
  <2>2. x \in Measured
    BY DEF ResultsInv, Measured
  <2>3. results' = Append(results, x)
    BY <1>3 DEF Sweep!RemoveDir
  <2> HIDE DEF x
  <2>4. /\ results' \in Seq(Measured) /\ Len(results') = Len(results) + 1
        /\ \A i \in 1 .. Len(results) : results'[i] = results[i]
        /\ results'[Len(results) + 1] = x
    BY <2>2, <2>3 DEF ResultsInv
  <2>5. \A i \in 1 .. Len(results') : results'[i] = Sweep!AtLeastOne(Sweep!Valid[i])
    <3> SUFFICES ASSUME NEW i \in 1 .. Len(results')
                 PROVE  results'[i] = Sweep!AtLeastOne(Sweep!Valid[i])
      OBVIOUS
    <3>1. CASE i \in 1 .. Len(results)
      BY <2>4, <3>1 DEF ResultsInv
    <3>2. CASE i = Len(results) + 1
      BY <2>1, <2>4, <3>2 DEF x
    <3> QED BY <2>4, <3>1, <3>2 DEF ResultsInv
  <2>6. /\ current' = current + 1
        /\ pass' = IF current = Len(Sweep!Valid) THEN "report" ELSE "create_dir"
    BY <1>3 DEF Sweep!RemoveDir, Sweep!NextPass
  <2> QED BY <1>2, <2>1, <2>4, <2>5, <2>6 DEF ResultsInv
<1>4. CASE ~Sweep!RemoveDir
  <2>1. /\ results' = results /\ current' = current
        /\ pass' \notin {"report", "over"} => pass \notin {"report", "over"}
        /\ pass' # "over" => exit' = exit
        /\ exit' = "Success" => exit = "Success" \/ pass = "report"
        /\ pass' # "report" /\ pass # "over"
    BY <1>4 DEF ResultsInv, Sweep!Next, Sweep!Parse, Sweep!CreateDir, Sweep!WriteInput,
            Sweep!OpenInput, Sweep!CreateOutput, Sweep!Transfer, Sweep!Report, Sweep!Fail
  <2> QED BY <1>2, <2>1 DEF ResultsInv
<1> QED BY <1>3, <1>4

(* A check and a sweep do not touch what belongs to the other.             *)
LEMMA LeftoversStepInv == TakenDown /\ [LeftoversNext]_leftoversVars => TakenDown'
<1> SUFFICES ASSUME TakenDown, [LeftoversNext]_leftoversVars PROVE TakenDown'
  OBVIOUS
<1>1. UNCHANGED compatVars => CompatInv'
  BY DEF TakenDown, CompatInv, compatVars
<1>2. UNCHANGED sweepVars => SweepInv'
  BY DEF TakenDown, SweepInv, sweepVars
<1>3. UNCHANGED sweepVars => ResultsInv'
  <2> SUFFICES ASSUME UNCHANGED sweepVars PROVE ResultsInv'
    OBVIOUS
  <2>1. Sweep!Valid' = Sweep!Valid /\ Measured' = Measured
    BY DEF sweepVars, Sweep!Valid, Measured
  <2> QED BY <2>1 DEF TakenDown, ResultsInv, sweepVars
<1>4. CASE CompatStep
  BY <1>2, <1>3, <1>4, SetUpInv, DropInv DEF CompatStep, Compat!Next, TakenDown
<1>5. CASE BenchStep
  BY <1>1, <1>5, SweepStepInv, ResultsStepInv DEF BenchStep, TakenDown
<1>6. CASE UNCHANGED leftoversVars
  BY <1>1, <1>2, <1>3, <1>6 DEF leftoversVars, TakenDown
<1> QED BY <1>4, <1>5, <1>6 DEF LeftoversNext, Over

(* The invariant of the two commands that set things up outside.           *)
LEMMA LeftoversInvariance == LeftoversSpec => []TakenDown
BY LeftoversInitInv, LeftoversStepInv, PTL DEF LeftoversSpec

-----------------------------------------------------------------------------
(* A check that ends with no clean-up command failed leaves nothing, at    *)
(* whatever step it gave up; a sweep that succeeds leaves no directory.    *)
THEOREM NothingIsLeft == LeftoversSpec => []NothingLeaks
<1>1. TakenDown => NothingLeaks
  BY DEF TakenDown, CompatInv, SweepInv, NothingLeaks, Compat!CheckLeaksNothing,
         Sweep!SweepLeavesNothing
<1> QED BY <1>1, LeftoversInvariance, PTL

(* The Guard never has the name of a mapping that is not this run's.       *)
THEOREM OthersAreLeftAlone == LeftoversSpec => []OnlyOwnMapping
<1>1. TakenDown => OnlyOwnMapping
  BY DEF TakenDown, CompatInv, OnlyOwnMapping, Compat!OnlyOwnMapping
<1> QED BY <1>1, LeftoversInvariance, PTL

(* What bench lists is what it was asked to measure, and a sweep in which  *)
(* a pass failed is never taken for one that is complete.                  *)
THEOREM SweepReportsAll == LeftoversSpec => []SweepIsComplete
<1>1. TakenDown => SweepIsComplete
  BY DEF TakenDown, ResultsInv, SweepIsComplete, Sweep!SweepIsComplete
<1> QED BY <1>1, LeftoversInvariance, PTL

=============================================================================
