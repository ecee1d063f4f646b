----------------------------- MODULE Background -----------------------------
(***************************************************************************)
(* What goes on beside the work of a command: the display of its progress  *)
(* (Progress), and what the compatibility check and bench set up outside   *)
(* their own files (Leftovers).  No property is about two of them, so a    *)
(* behaviour runs one of the three while the others stay idle.             *)
(***************************************************************************)
EXTENDS Progress, Leftovers

BackgroundInit ==
  \/ Init /\ LeftoversIdle
  \/ ProgressIdle /\ LeftoversInit

Shows  == running = "none" /\ Next /\ UNCHANGED leftoversVars
SetsUp == running # "none" /\ LeftoversNext /\ UNCHANGED vars

BackgroundNext == Shows \/ SetsUp

(* The fairness of the threads of a display; nothing else has to happen.   *)
BackgroundSpec ==
  BackgroundInit /\ [][BackgroundNext]_<<vars, leftoversVars>> /\ Fairness
=============================================================================
