----------------------------- MODULE AlignFix -----------------------------
(***************************************************************************)
(* align check and align fix on a file that another program may be         *)
(* appending to.  align fix takes the file's length, rounds it up, opens   *)
(* the file and sets its length to the rounded one: what was appended      *)
(* between the first step and the last is not looked at again.             *)
(*                                                                         *)
(* U64Max is the largest u64 here, and half of it the largest file length, *)
(* which is an off_t.                                                      *)
(***************************************************************************)
EXTENDS Integers, FiniteSets

CONSTANTS Runs,        \* runs of align check and align fix
          U64Max,      \* the largest u64
          Alignments,  \* values of --alignment
          MaxAppends   \* appends of the other program

MaxLength == U64Max \div 2
Lengths   == 0 .. MaxLength

VARIABLES
  length, data,     \* the file: its length, and the end of its last byte
                    \* that was written rather than left a hole
  kind, alignment,  \* per run: check or fix, --alignment
  size,             \* per run: file_size
  pc,               \* per run: stat, open, resize, or how it ended
  appends,          \* appends so far
  overtaken,        \* an append came between the stat and set_len of a fix
  fixed             \* the alignments of the fixes that have succeeded since
                    \* the length last changed

vars == <<length, data, kind, alignment, size, pc, appends, overtaken, fixed>>

Init ==
  /\ length \in Lengths /\ data = length
  /\ kind \in [Runs -> {"check", "fix"}] /\ alignment \in [Runs -> Alignments]
  /\ size = [r \in Runs |-> 0] /\ pc = [r \in Runs |-> "stat"]
  /\ appends = 0 /\ overtaken = FALSE /\ fixed = {}

Idle ==
  /\ length = 0 /\ data = 0 /\ kind = [r \in Runs |-> "check"]
  /\ alignment = [r \in Runs |-> 1]
  /\ size = [r \in Runs |-> 0] /\ pc = [r \in Runs |-> "idle"]
  /\ appends = 0 /\ overtaken = FALSE /\ fixed = {}

Goto(r, step) == pc' = [pc EXCEPT ![r] = step]

-----------------------------------------------------------------------------
(* u64::is_multiple_of, for which 0 is the only multiple of 0.             *)
IsAligned(value, a) == IF a = 0 THEN value = 0 ELSE value % a = 0

\* Mutant: the padding is the remainder, not what is missing to alignment.
AlignUpByRemainder(value, a) == (value + (value % a)) % (U64Max + 1)

\* Mutant: rounded down.
AlignDown(value, a) == value - (value % a)

(* align_up, for a divisor that is not zero.  The sum is the machine's.    *)
AlignUp(value, a) ==
  IF value % a = 0 THEN value ELSE (value + (a - (value % a))) % (U64Max + 1)

(* check_alignment, for any --offset.                                      *)
Check(r) ==
  /\ kind[r] = "check" /\ pc[r] = "stat"
  /\ \E offset \in 0 .. U64Max :
       Goto(r, IF IsAligned(length, alignment[r]) /\ IsAligned(offset, alignment[r])
               THEN "ok" ELSE "not_aligned")
  /\ UNCHANGED <<length, data, kind, alignment, size, appends, overtaken, fixed>>

(* The remainder by zero panics, and the build aborts on a panic.          *)
Panic(r) ==
  /\ kind[r] = "fix" /\ pc[r] = "stat" /\ alignment[r] = 0
  /\ Goto(r, "panic")
  /\ UNCHANGED <<length, data, kind, alignment, size, appends, overtaken, fixed>>

Stat(r) ==
  /\ kind[r] = "fix" /\ pc[r] = "stat" /\ alignment[r] # 0
  /\ size' = [size EXCEPT ![r] = length]
  /\ IF AlignUp(length, alignment[r]) = length
     THEN Goto(r, "ok") /\ fixed' = fixed \cup {alignment[r]}
     ELSE Goto(r, "open") /\ UNCHANGED fixed
  /\ UNCHANGED <<length, data, kind, alignment, appends, overtaken>>

Open(r) ==
  /\ pc[r] = "open" /\ Goto(r, "resize")
  /\ UNCHANGED <<length, data, kind, alignment, size, appends, overtaken, fixed>>

(* ftruncate to the target, which must be a length.                        *)
Resize(r) ==
  /\ pc[r] = "resize"
  /\ LET target == AlignUp(size[r], alignment[r])
     IN  IF target > MaxLength
         THEN Goto(r, "io") /\ UNCHANGED <<length, data, fixed>>
         ELSE /\ Goto(r, "ok") /\ length' = target
              /\ data' = IF data < target THEN data ELSE target
              /\ fixed' = (IF length = target THEN fixed ELSE {}) \cup {alignment[r]}
  /\ UNCHANGED <<kind, alignment, size, appends, overtaken>>

(* stat, open and set_len can fail; none of them has changed the file.     *)
Fail(r) ==
  /\ pc[r] \in {"stat", "open", "resize"} /\ Goto(r, "io")
  /\ UNCHANGED <<length, data, kind, alignment, size, appends, overtaken, fixed>>

InWindow(r) == pc[r] \in {"open", "resize"}

(* The other program appends a byte at the end of the file.                *)
Append ==
  /\ appends < MaxAppends /\ length < MaxLength
  /\ appends' = appends + 1 /\ length' = length + 1 /\ data' = length + 1
  /\ overtaken' = (overtaken \/ \E r \in Runs : InWindow(r))
  /\ fixed' = {}
  /\ UNCHANGED <<kind, alignment, size, pc>>

Over == (\A r \in Runs : pc[r] \in {"ok", "not_aligned", "io", "panic"}) /\ UNCHANGED vars

Next ==
  \/ \E r \in Runs : Check(r) \/ Panic(r) \/ Stat(r) \/ Open(r) \/ Resize(r) \/ Fail(r)
  \/ Append
  \/ Over

-----------------------------------------------------------------------------
(* A check that follows a fix with the same alignment passes, whatever     *)
(* other fixes, finished or half-way, have measured before: the length a   *)
(* fix sets is its own rounded one.                                        *)
FixThenCheckPasses == \A a \in fixed : IsAligned(length, a)
=============================================================================
