---------------------------- MODULE ProgressJob ----------------------------
(***************************************************************************)
(* The jobs whose progress is shown, for both kinds of display.            *)
(***************************************************************************)
EXTENDS Integers

CONSTANTS
  Totals,                       \* total_bytes of the jobs considered
  RangeBytes,                   \* bytes a finished range adds to the counter
  Flavors,                      \* progress flavors considered
  TOTAL_MIN_ANIMATION_TICKS     \* turns a Meme display shows at least (10)

ASSUME ProgressAssumption ==
  /\ Totals \subseteq Nat /\ RangeBytes \in Nat \ {0}
  /\ Flavors \subseteq {"Sterile", "Meme", "Didactic"}
  /\ TOTAL_MIN_ANIMATION_TICKS \in Nat

Least(a, b)    == IF a <= b THEN a ELSE b
Greatest(a, b) == IF a >= b THEN a ELSE b

=============================================================================
