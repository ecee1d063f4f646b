------------------------------ MODULE KeyFile ------------------------------
(***************************************************************************)
(* Runs of keygen that write the same key file: write_key_file looks       *)
(* whether the file exists, opens it with create and truncate, and writes  *)
(* the key, which the kernel may take in pieces, may fail at, or may not   *)
(* get at all because the process is killed.                               *)
(*                                                                         *)
(* A unit is 32 bytes: the key of CBC-ESSIV or of 128-bit XTS is one unit, *)
(* that of 256-bit XTS two.                                                *)
(***************************************************************************)
EXTENDS Integers, Sequences

CONSTANTS Runs,       \* the runs of keygen, numbered from 1
          MaxUnits    \* units of the longest key

VARIABLES
  need,        \* per run: required_key_bytes of its cipher, in units
  force,       \* per run: --force
  exists, key, \* the file, and for each of its units the run it is from
  pc, pos,     \* per run: step, units written
  last,        \* the run that has opened the file last, 0 if none
  overlapped,  \* a run has started while another was under way
  clobbered    \* a run without --force has truncated a file that existed

vars == <<need, force, exists, key, pc, pos, last, overlapped, clobbered>>

Earlier == 0      \* a run before these
Hole    == -1

UnderWay(r) == pc[r] \in {"open", "write"}

(* Only some of the runs are started; the others are as if refused.        *)
InitWith(started) ==
  /\ need \in [Runs -> 1 .. MaxUnits] /\ force \in [Runs -> BOOLEAN]
  /\ \A r \in Runs \ started : need[r] = 1 /\ ~force[r]
  /\ exists \in BOOLEAN
  /\ IF exists THEN \E n \in 1 .. MaxUnits : key = [i \in 1 .. n |-> Earlier]
     ELSE key = <<>>
  /\ pc = [r \in Runs |-> IF r \in started THEN "start" ELSE "refused"]
  /\ pos = [r \in Runs |-> 0]
  /\ last = 0 /\ overlapped = FALSE /\ clobbered = FALSE

Init == InitWith(Runs)

Goto(r, step) == pc' = [pc EXCEPT ![r] = step]

Check(r) ==
  /\ pc[r] = "start"
  /\ Goto(r, IF exists /\ ~force[r] THEN "refused" ELSE "open")
  /\ overlapped' = (overlapped \/ \E q \in Runs : UnderWay(q))
  /\ UNCHANGED <<need, force, exists, key, pos, last, clobbered>>

\* Mutant: the file is opened without truncate.
OpenKeeping(r) ==
  /\ pc[r] = "open"
  /\ Goto(r, "write") /\ exists' = TRUE /\ last' = r
  /\ clobbered' = (clobbered \/ (exists /\ ~force[r]))
  /\ UNCHANGED <<need, force, key, pos, overlapped>>

Open(r) ==
  /\ pc[r] = "open"
  /\ Goto(r, "write") /\ exists' = TRUE /\ key' = <<>> /\ last' = r
  /\ clobbered' = (clobbered \/ (exists /\ ~force[r]))
  /\ UNCHANGED <<need, force, pos, overlapped>>

(* One piece of write_all, at the run's own position in the file.          *)
Write(r) ==
  /\ pc[r] = "write" /\ pos[r] < need[r]
  /\ LET at == pos[r] + 1
         n  == IF Len(key) < at THEN at ELSE Len(key)
     IN  key' = [i \in 1 .. n |-> IF i = at THEN r
                                  ELSE IF i <= Len(key) THEN key[i] ELSE Hole]
  /\ pos' = [pos EXCEPT ![r] = @ + 1]
  /\ UNCHANGED <<need, force, exists, pc, last, overlapped, clobbered>>

\* Mutant: a short write is taken for the whole.
FinishShort(r) ==
  /\ pc[r] = "write" /\ pos[r] > 0 /\ Goto(r, "ok")
  /\ UNCHANGED <<need, force, exists, key, pos, last, overlapped, clobbered>>

Finish(r) ==
  /\ pc[r] = "write" /\ pos[r] = need[r] /\ Goto(r, "ok")
  /\ UNCHANGED <<need, force, exists, key, pos, last, overlapped, clobbered>>

(* An input or output error, or a kill: nothing is undone.                 *)
Fail(r) ==
  /\ UnderWay(r) /\ Goto(r, "failed")
  /\ UNCHANGED <<need, force, exists, key, pos, last, overlapped, clobbered>>

Ended == \A r \in Runs : pc[r] \in {"ok", "refused", "failed"}

Step == \E r \in Runs : Check(r) \/ Open(r) \/ Write(r) \/ Finish(r) \/ Fail(r)

Over == Ended /\ UNCHANGED vars

Next == Step \/ Over

Spec == Init /\ [][Next]_vars

-----------------------------------------------------------------------------
(* As long as runs do not overlap, whatever failed or was killed before,   *)
(* the file never mixes two keys: what a later command accepts for its     *)
(* length is one key as it was generated.                                  *)
NeverMixed ==
  ~overlapped => \A i, j \in DOMAIN key : key[i] = key[j]

(* ... and a run that says it has written its key has left exactly that.   *)
WrittenIsWhole ==
  ~overlapped /\ last # 0 /\ pc[last] = "ok" =>
    key = [i \in 1 .. need[last] |-> last]

(* The comment of write_key_file: it refuses to overwrite an existing file *)
(* unless force is set.                                                    *)
NoOverwriteWithoutForce == ~clobbered

=============================================================================
