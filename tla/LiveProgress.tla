---------------------------- MODULE LiveProgress ----------------------------
(***************************************************************************)
(* The interactive progress bar of encrypt, decrypt and bench: the calling *)
(* thread does the work and joins the display thread when it is over; the  *)
(* display thread polls the shared counter until it has seen all bytes.    *)
(*                                                                         *)
(* The work is what Transfer shows of process_ranges: each range adds its  *)
(* bytes to the counter, Ok is returned when all of them have, and an Err  *)
(* may come before any of them.                                            *)
(***************************************************************************)
EXTENDS ProgressJob

VARIABLES
  total, enabled, flavor,   \* the arguments of start
  counter,                  \* the shared AtomicU64
  caller,                   \* calling thread: start, work, join, returned
  outcome,                  \* what the work returned: none, ok, err
  display,                  \* display thread: none, load, draw, sleep, exited
  done, tick,               \* its locals; tick saturates at the minimum
  bar                       \* position the bar shows

vars == <<total, enabled, flavor, counter, caller, outcome,
          display, done, tick, bar>>
args == <<total, enabled, flavor>>

Init ==
  /\ total \in Totals /\ enabled \in BOOLEAN /\ flavor \in Flavors
  /\ counter = 0 /\ caller = "start" /\ outcome = "none"
  /\ display = "none" /\ done = 0 /\ tick = 0 /\ bar = 0

(* start returns None, and no thread runs, when there is nothing to show.  *)
Start ==
  /\ caller = "start"
  /\ caller' = "work"
  /\ display' = IF enabled /\ total > 0 THEN "load" ELSE "none"
  /\ UNCHANGED <<args, counter, outcome, done, tick, bar>>

(* The counter is handed to the work only when there is a display.         *)
RangeDone ==
  /\ caller = "work" /\ display # "none" /\ counter < total
  /\ counter' = counter + RangeBytes
  /\ UNCHANGED <<args, caller, outcome, display, done, tick, bar>>

AfterWork(result) ==
  /\ outcome' = result
  /\ caller' = IF display = "none" THEN "returned" ELSE "join"
  /\ UNCHANGED <<args, counter, display, done, tick, bar>>

WorkOk ==
  /\ caller = "work" /\ (display = "none" \/ counter >= total)
  /\ AfterWork("ok")

(* Some range has then not returned Ok, so it has not been counted.        *)
WorkFails ==
  /\ caller = "work" /\ (display = "none" \/ counter < total)
  /\ AfterWork("err")

(* finish: join the display thread, then finalize the bar, which indicatif *)
(* draws as full.                                                          *)
Finish ==
  /\ caller = "join" /\ display = "exited"
  /\ caller' = "returned" /\ bar' = total
  /\ UNCHANGED <<args, counter, outcome, display, done, tick>>

-----------------------------------------------------------------------------
\* Mutant: the position is what has been added since the last look.
LoadDelta ==
  /\ display = "load"
  /\ done' = Least(counter - done, total)
  /\ display' = "draw"
  /\ UNCHANGED <<args, counter, caller, outcome, tick, bar>>

Load ==
  /\ display = "load"
  /\ done' = Least(counter, total)
  /\ display' = "draw"
  /\ UNCHANGED <<args, counter, caller, outcome, tick, bar>>

MinTicksSatisfied == flavor # "Meme" \/ tick >= TOTAL_MIN_ANIMATION_TICKS

\* Mutant: the loop also stops for a reader that has seen no bytes at all.
DrawStopsEarly ==
  /\ display = "draw"
  /\ bar' = done
  /\ IF done >= total - RangeBytes /\ MinTicksSatisfied
     THEN display' = "exited" /\ UNCHANGED tick
     ELSE /\ display' = "sleep"
          /\ tick' = Least(tick + 1, TOTAL_MIN_ANIMATION_TICKS)
  /\ UNCHANGED <<args, counter, caller, outcome, done>>

\* Mutant: the loop waits for more than all bytes.
DrawStrict ==
  /\ display = "draw"
  /\ bar' = done
  /\ IF done > total /\ MinTicksSatisfied
     THEN display' = "exited" /\ UNCHANGED tick
     ELSE /\ display' = "sleep"
          /\ tick' = Least(tick + 1, TOTAL_MIN_ANIMATION_TICKS)
  /\ UNCHANGED <<args, counter, caller, outcome, done>>

(* Position and frame are drawn; the loop ends only when every byte has    *)
(* been seen.                                                              *)
Draw ==
  /\ display = "draw"
  /\ bar' = done
  /\ IF done >= total /\ MinTicksSatisfied
     THEN display' = "exited" /\ UNCHANGED tick
     ELSE /\ display' = "sleep"
          /\ tick' = Least(tick + 1, TOTAL_MIN_ANIMATION_TICKS)
  /\ UNCHANGED <<args, counter, caller, outcome, done>>

Wake ==
  /\ display = "sleep"
  /\ display' = "load"
  /\ UNCHANGED <<args, counter, caller, outcome, done, tick, bar>>

Display == Load \/ Draw \/ Wake
Caller  == Start \/ RangeDone \/ WorkOk \/ WorkFails \/ Finish

Returned == caller = "returned" /\ UNCHANGED vars

Next == Caller \/ Display \/ Returned

Spec == Init /\ [][Next]_vars

-----------------------------------------------------------------------------
(* While the work runs the bar shows no byte that is not done, and after   *)
(* it shows all of them only because all of them are done.                 *)
BarIsHonest ==
  /\ bar <= counter
  /\ caller = "returned" /\ display # "none" => bar = total /\ outcome = "ok"

=============================================================================
