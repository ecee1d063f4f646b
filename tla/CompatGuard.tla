---------------------------- MODULE CompatGuard ----------------------------
(***************************************************************************)
(* --dry-run-cryptsetup-compat: a small fixture is written through a real  *)
(* dm-crypt mapping on a loop device and compared with what SectorEngine   *)
(* makes of it.  The Guard records what has been set up and takes it down  *)
(* when run_inner returns, at whatever step that is.                       *)
(*                                                                         *)
(* cryptsetup, losetup and the kernel are external: any call may fail, a   *)
(* loop device in use is not detached, a name in use is not mapped again.  *)
(* Names are made from the pid, so those a killed run left behind may be   *)
(* met again.  What is written to the mapping is ciphertext in the backing *)
(* file when the kernel has written it back, sooner, later or not at all.  *)
(***************************************************************************)
EXTENDS Integers, FiniteSets

Things == {"map", "loop", "backing", "key"}

VARIABLES
  found,      \* cryptsetup is on the PATH
  agrees,     \* the mapping encrypts as SectorEngine does
  ciphertext, \* of the fixture: none, pending in the kernel, stored, or lost
  stale,      \* leftovers of a killed run that have this run's names
  mine,       \* what this run has set up and not taken down
  guard,      \* the Guard's fields: Some map name, Some loop device
  pc,         \* step of run_inner, then of drop, then "over"
  result,     \* what run_inner returns: none, true, false, err
  outcome,    \* the Outcome
  stuck,      \* a command of the Guard has failed, or the run was killed
  touched     \* the mapping of another run was closed

Init ==
  /\ found \in BOOLEAN /\ agrees \in BOOLEAN /\ ciphertext = "none"
  /\ stale \in SUBSET Things /\ ("map" \in stale => "loop" \in stale)
  /\ mine = {} /\ guard = {} /\ pc = "probe"
  /\ result = "none" /\ outcome = "none" /\ stuck = FALSE /\ touched = FALSE

(* No check runs.                                                          *)
Idle ==
  /\ found = FALSE /\ agrees = FALSE /\ ciphertext = "none"
  /\ stale = {} /\ mine = {} /\ guard = {}
  /\ pc = "over" /\ result = "none" /\ outcome = "none"
  /\ stuck = FALSE /\ touched = FALSE

At(step) ==
  /\ pc = step
  /\ UNCHANGED <<found, agrees, outcome, stuck, touched>>

(* `?`, or the end of run_inner: the Guard is dropped.                     *)
Return(r) == pc' = "close" /\ result' = r /\ UNCHANGED <<stale, mine, guard>>

Fails == Return("err")

Next1(step) == pc' = step /\ UNCHANGED result

Probe ==
  /\ pc = "probe"
  /\ IF found THEN pc' = "backing" /\ UNCHANGED outcome
     ELSE pc' = "over" /\ outcome' = "CryptsetupNotFound"
  /\ UNCHANGED <<found, agrees, ciphertext, stale, mine, guard, result, stuck, touched>>

(* File::create and fs::write replace what is there; set_len or a write    *)
(* may fail when the file has been created.                                *)
CreateFile(thing, next) ==
  /\ At(thing) /\ UNCHANGED ciphertext
  /\ \/ Fails
     \/ /\ stale' = stale \ {thing} /\ mine' = mine \cup {thing}
        /\ Next1(next) \/ (pc' = "close" /\ result' = "err")
        /\ UNCHANGED guard

\* Mutant: the device is recorded when the mapping is.
SetupLoopUnrecorded ==
  /\ At("loop") /\ UNCHANGED ciphertext
  /\ \/ Fails
     \/ /\ mine' = mine \cup {"loop"}
        /\ Next1("map") /\ UNCHANGED <<stale, guard>>

(* The new device's name is in the Guard at once.                          *)
SetupLoop ==
  /\ At("loop") /\ UNCHANGED ciphertext
  /\ \/ Fails
     \/ /\ mine' = mine \cup {"loop"} /\ guard' = guard \cup {"loop"}
        /\ Next1("map") /\ UNCHANGED stale

\* Mutant: the name is recorded before it is known to be ours.
OpenMapEarly ==
  /\ At("map") /\ UNCHANGED ciphertext
  /\ guard' = guard \cup {"map"}
  /\ \/ pc' = "close" /\ result' = "err" /\ UNCHANGED <<stale, mine>>
     \/ /\ "map" \notin stale
        /\ mine' = mine \cup {"map"} /\ Next1("write") /\ UNCHANGED stale

OpenMap ==
  /\ At("map") /\ UNCHANGED ciphertext
  /\ \/ Fails
     \/ /\ "map" \notin stale
        /\ mine' = mine \cup {"map"} /\ guard' = guard \cup {"map"}
        /\ Next1("write") /\ UNCHANGED stale

(* write_all to the mapping, without a sync: success says only that the     *)
(* kernel has taken the data.                                              *)
WriteFixture ==
  /\ At("write")
  /\ \/ Fails /\ UNCHANGED ciphertext
     \/ /\ ciphertext' = "pending"
        /\ Next1("compare") /\ UNCHANGED <<stale, mine, guard>>

(* The kernel writes the data back through the mapping: at the close of the*)
(* device, or later when another program holds it open.  The backing file  *)
(* is sparse, so there may be no room, and nobody is told.                 *)
WriteBack ==
  /\ pc = "compare" /\ ciphertext = "pending"
  /\ ciphertext' \in {"stored", "lost"}
  /\ UNCHANGED <<found, agrees, stale, mine, guard, pc, result, outcome, stuck, touched>>

(* The backing file, as it is by now, is read and compared.                *)
Compare ==
  /\ At("compare") /\ UNCHANGED ciphertext
  /\ \/ Fails
     \/ Return(IF ciphertext = "stored" /\ agrees THEN "true" ELSE "false")

-----------------------------------------------------------------------------
(* drop: each command may fail, which is ignored.                          *)
Closed(thing) == mine' = mine \ {thing} /\ UNCHANGED <<stuck, stale>>

CloseMap ==
  /\ pc = "close"
  /\ IF "map" \notin guard THEN UNCHANGED <<mine, stuck, stale, touched>>
     ELSE \/ stuck' = TRUE /\ UNCHANGED <<mine, stale, touched>>
          \/ "map" \in mine /\ Closed("map") /\ UNCHANGED touched
          \/ /\ "map" \notin mine /\ "map" \in stale
             /\ stale' = stale \ {"map"} /\ touched' = TRUE
             /\ UNCHANGED <<mine, stuck>>
  /\ pc' = "detach"
  /\ UNCHANGED <<found, agrees, ciphertext, guard, result, outcome>>

Detach ==
  /\ pc = "detach"
  /\ IF "loop" \notin guard THEN UNCHANGED <<mine, stuck, stale>>
     ELSE \/ stuck' = TRUE /\ UNCHANGED <<mine, stale>>
          \/ "map" \notin mine /\ Closed("loop")
  /\ pc' = "remove"
  /\ UNCHANGED <<found, agrees, ciphertext, guard, result, outcome, touched>>

OutcomeOf(r) == CASE r = "true"  -> "Match"
                  [] r = "false" -> "Mismatch"
                  [] OTHER       -> "OperationalError"

(* Both files are removed by name, then run turns the result into the      *)
(* Outcome.                                                                *)
Remove ==
  /\ pc = "remove"
  /\ \E kept \in SUBSET ({"backing", "key"} \cap (mine \cup stale)) :
       /\ mine' = mine \ ({"backing", "key"} \ kept)
       /\ stale' = stale \ ({"backing", "key"} \ kept)
       /\ stuck' = (stuck \/ kept # {})
  /\ outcome' = OutcomeOf(result)
  /\ pc' = "over"
  /\ UNCHANGED <<found, agrees, ciphertext, guard, result, touched>>

Kill ==
  /\ pc # "over" /\ pc' = "over" /\ stuck' = TRUE
  /\ UNCHANGED <<found, agrees, ciphertext, stale, mine, guard, result, outcome, touched>>

Over == pc = "over"

Next ==
  \/ Probe \/ CreateFile("backing", "key") \/ CreateFile("key", "loop")
  \/ SetupLoop \/ OpenMap \/ WriteFixture \/ WriteBack \/ Compare
  \/ CloseMap \/ Detach \/ Remove \/ Kill

-----------------------------------------------------------------------------
(* A step that fails partway through leaks nothing: unless a command of    *)
(* the Guard itself fails or the process is killed, whatever the run has   *)
(* set up, the key in its temporary file included, is gone when it ends.   *)
CheckLeaksNothing == pc = "over" /\ ~stuck => mine = {}

(* A mapping some other run has left under the same name is never closed.  *)
OnlyOwnMapping == ~touched

(* cryptsetup_compat.rs:14-16: only a mapping that does not encrypt as     *)
(* SectorEngine does is a failure; that the check could not be made is     *)
(* reported and skipped.                                                   *)
MismatchIsReal == outcome = "Mismatch" => ~agrees

=============================================================================
