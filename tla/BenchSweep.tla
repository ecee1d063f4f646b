----------------------------- MODULE BenchSweep -----------------------------
(***************************************************************************)
(* bench: the same synthetic data is encrypted once for each valid number  *)
(* of --workers, through two files in a directory of /tmp that has the     *)
(* process's id in its name, and the directory is removed after each pass. *)
(* Anything that fails ends the command.                                   *)
(*                                                                         *)
(* Outside this module: the display (LiveProgress, whose finish does not   *)
(* return after an error while a bar is shown: here none is, as under      *)
(* --quiet or --ci) and the spec and the key (CipherKeys).                 *)
(***************************************************************************)
EXTENDS Integers, Sequences

CONSTANTS MaxEntries, MaxWorkers   \* entries of --workers, the largest number in one

NotANumber == -1                   \* an entry that does not parse as a usize

VARIABLES
  workers,      \* --workers, split at its commas
  current,      \* which of the valid worker counts the pass is for
  results,      \* worker_count of each result
  files,        \* what the directory holds, {} also when there is none
  dir,          \* the directory exists
  removeFailed, \* remove_dir_all has failed once; run goes on after that
  pc, exit      \* step of the pass; exit code, "none" while under way

Entries == {NotANumber} \cup 0 .. MaxWorkers
Names   == {"plain.bin", "cipher.bin"}

IsNumber(e) == e # NotANumber
Valid == SelectSeq(workers, IsNumber)

\* A directory of an earlier process of this id may have been left behind.
Init ==
  /\ workers \in UNION {[1 .. n -> Entries] : n \in 1 .. MaxEntries}
  /\ current = 1 /\ results = <<>>
  /\ dir \in BOOLEAN /\ files \in SUBSET Names /\ (~dir => files = {})
  /\ removeFailed = FALSE /\ pc = "parse" /\ exit = "none"

(* No sweep runs.                                                          *)
Idle ==
  /\ workers = <<0>> /\ current = 1 /\ results = <<>> /\ files = {} /\ dir = FALSE
  /\ removeFailed = FALSE /\ pc = "over" /\ exit = "none"

Parse ==
  /\ pc = "parse"
  /\ IF Valid = <<>> THEN pc' = "over" /\ exit' = "InvalidArgs"
     ELSE pc' = "create_dir" /\ UNCHANGED exit
  /\ UNCHANGED <<workers, current, results, files, dir, removeFailed>>

CreateDir ==
  /\ pc = "create_dir" /\ dir' = TRUE /\ pc' = "write_input"
  /\ UNCHANGED <<workers, current, results, files, removeFailed, exit>>

(* fs::write truncates, so what a pass reads is what it wrote.             *)
WriteInput ==
  /\ pc = "write_input" /\ files' = files \cup {"plain.bin"}
  /\ pc' = "open_input"
  /\ UNCHANGED <<workers, current, results, dir, removeFailed, exit>>

OpenInput ==
  /\ pc = "open_input" /\ pc' = "create_output"
  /\ UNCHANGED <<workers, current, results, files, dir, removeFailed, exit>>

CreateOutput ==
  /\ pc = "create_output" /\ files' = files \cup {"cipher.bin"} /\ pc' = "transfer"
  /\ UNCHANGED <<workers, current, results, dir, removeFailed, exit>>

(* process_ranges with a pool of worker_count.max(1).                      *)
Transfer ==
  /\ pc = "transfer" /\ pc' = "remove"
  /\ UNCHANGED <<workers, current, results, files, dir, removeFailed, exit>>

AtLeastOne(n) == IF n = 0 THEN 1 ELSE n

(* On to the next worker count, or past the loop. *)
NextPass(past) ==
  /\ current' = current + 1
  /\ pc' = IF current = Len(Valid) THEN past ELSE "create_dir"

\* Mutant: the directory is left to the next pass.
RemoveNothing ==
  /\ pc = "remove"
  /\ results' = Append(results, AtLeastOne(Valid[current])) /\ NextPass("report")
  /\ UNCHANGED <<workers, files, dir, removeFailed, exit>>

(* remove_dir_all, whose failure is ignored, and the pass's result.        *)
RemoveDir ==
  /\ pc = "remove"
  /\ \/ dir' = FALSE /\ files' = {} /\ UNCHANGED removeFailed
     \/ removeFailed' = TRUE /\ UNCHANGED <<dir, files>>
  /\ results' = Append(results, AtLeastOne(Valid[current])) /\ NextPass("report")
  /\ UNCHANGED <<workers, exit>>

Report ==
  /\ pc = "report" /\ pc' = "over" /\ exit' = "Success"
  /\ UNCHANGED <<workers, current, results, files, dir, removeFailed>>

\* Mutant: a pass that fails is left out, and the sweep goes on.
FailAndGoOn ==
  /\ pc \in {"create_dir", "write_input", "open_input", "create_output", "transfer"}
  /\ NextPass("over")
  /\ IF pc' = "over" THEN exit' = "Success" ELSE UNCHANGED exit
  /\ UNCHANGED <<workers, results, files, dir, removeFailed>>

(* The ? after each step of run: the function returns at once, with what   *)
(* the pass has created in place, and run_bench with it.                   *)
Fail ==
  /\ pc \in {"create_dir", "write_input", "open_input", "create_output", "transfer"}
  /\ pc' = "over" /\ exit' = "Io"
  /\ \/ UNCHANGED files
     \/ pc = "write_input" /\ files' = files \cup {"plain.bin"}
     \/ pc = "create_output" /\ files' = files \cup {"cipher.bin"}
  /\ UNCHANGED <<workers, current, results, dir, removeFailed>>

Over == pc = "over"

Next ==
  \/ Parse \/ CreateDir \/ WriteInput \/ OpenInput \/ CreateOutput \/ Transfer
  \/ RemoveDir \/ Report \/ Fail

-----------------------------------------------------------------------------
(* What the report lists is one result for each valid entry, in the order  *)
(* of the command line, 0 measured as 1; no result is listed for a pass    *)
(* that failed, and none is left out.                                      *)
SweepIsComplete ==
  /\ \A i \in DOMAIN results : results[i] = AtLeastOne(Valid[i])
  /\ exit = "Success" => Len(results) = Len(Valid)

(* A sweep that succeeds leaves nothing in /tmp, not even what an earlier  *)
(* process of the same id had left, unless the removal itself failed.      *)
SweepLeavesNothing == exit = "Success" /\ ~removeFailed => ~dir

=============================================================================
