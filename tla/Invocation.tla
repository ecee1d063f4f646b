----------------------------- MODULE Invocation -----------------------------
(***************************************************************************)
(* One run of the program, from main to its exit status: the global pool,  *)
(* the easter egg, the reporter, the command line or the environment, the  *)
(* reports of the command, and the outcome of --ci.                        *)
(*                                                                         *)
(* What a command does to files is in the modules of the commands; here it *)
(* is the sequence of its reports and of the places where it may end.      *)
(* Standard output may be closed by its reader at any moment: the next     *)
(* print then panics.  So does a command over the value of an argument     *)
(* that it cannot use.  The release profile aborts on a panic.             *)
(***************************************************************************)
EXTENDS Integers, Sequences, FiniteSets, Reporting, EnvConfig, WorkerPool

CONSTANTS Scenarios,      \* flags, command, fatal, environment, machine, impatient
          TransferArgs    \* what decides the threads of an image transfer

FlagSets == [quiet : BOOLEAN, ci : BOOLEAN, governance : BOOLEAN, redpill : BOOLEAN,
             didactic : BOOLEAN, json : BOOLEAN]
Operations == {"encrypt", "decrypt", "malformed", "unset", "empty", "not_unicode"}
QuotaFile == [quota : Int, period : Int]

(* What the flags, the variables, the quota files and the arguments may be *)
(* at all: nothing is assumed of which come together.                      *)
ASSUME InvocationAssumption ==
  /\ \A s \in Scenarios :
       /\ s.flags \in FlagSets /\ s.fatal \in PanicCauses \cup {"none"}
       /\ s.env \in [Names -> STRING] /\ s.env["OPERATION"] \in Operations
       /\ s.machine \in [v2 : QuotaFile, v1 : QuotaFile, parallelism : Nat, host : Nat]
  /\ TransferArgs \subseteq
       [size : Nat, threshold : Nat, pin : BOOLEAN, max_workers : Int]

(***************************************************************************)
(* sc       the scenario, fixed; sc.fatal is what its command panics over, *)
(*          or "none"                                                      *)
(* pc       "start", "egg", "primer", "env", "run", "script", "outcome",   *)
(*          "exited" or "aborted"                                          *)
(* pool     the size asked for the global pool                             *)
(* command  what runs: a key of Reports, or "none"                         *)
(* next     the next report of the command, or variable to be read         *)
(* out      the lines printed so far                                       *)
(* open     standard output still has a reader                             *)
(* bar      a bar was drawn on standard error                              *)
(* noise    another program has written to standard error                  *)
(* threads  the threads of the image transfer, with its arguments          *)
(* code     the exit code                                                  *)
(***************************************************************************)
VARIABLES sc, pc, pool, command, next, out, open, bar, noise, threads, code
vars == <<sc, pc, pool, command, next, out, open, bar, noise, threads, code>>

(* One shell for each of the two ways the script is written. *)
Shells == {"completions bash", "completions zsh"}

NoThreads == [n |-> -1]

reporter == build_reporter(sc.flags)
json == sc.flags.json
\* Mutant: the bar is drawn under --json too.
show_progress_in_json == ~sc.flags.quiet
show_progress == ~sc.flags.quiet /\ ~json

Init ==
  /\ sc \in Scenarios
  /\ pc = "start" /\ pool = -1 /\ command = "none" /\ next = 1
  /\ out = <<>> /\ open = TRUE /\ bar = FALSE /\ noise = FALSE
  /\ threads = NoThreads /\ code = "none"

-----------------------------------------------------------------------------
(* println!: to a closed standard output it panics. *)
Println(lines, then) ==
  \/ /\ lines = <<>> \/ open
     /\ out' = out \o lines /\ pc' = then
  \/ /\ lines # <<>> /\ ~open
     /\ pc' = "aborted" /\ UNCHANGED out

Report(kind, names, then) == Println(Rendered(reporter, json, kind, names), then)

(* The reader of standard output goes away. *)
CloseOutput ==
  /\ sc.impatient /\ open /\ pc \notin {"exited", "aborted"}
  /\ open' = FALSE
  /\ UNCHANGED <<sc, pc, pool, command, next, out, bar, noise, threads, code>>

(* run, up to the command. *)
Start ==
  /\ pc = "start"
  /\ pool' = effective_core_count(sc.machine)
  /\ pc' = IF sc.flags.redpill /\ ~sc.flags.governance /\ ~sc.flags.ci
           THEN "egg" ELSE "primer"
  /\ UNCHANGED <<sc, command, next, out, open, bar, noise, threads, code>>

(* redpill::run: silent under -q, else the answer decides the exit code.  *)
RedPill ==
  /\ pc = "egg"
  /\ IF sc.flags.quiet
     THEN code' = "Success" /\ pc' = "exited" /\ UNCHANGED out
     ELSE /\ code' \in {"Success", "Generic"}
          /\ Println(<<Line("Plain", "plain", "pills")>>, "exited")
  /\ UNCHANGED <<sc, pool, command, next, open, bar, noise, threads>>

(* The primer of --didactic, then run_command's choice of the command. *)
Primer ==
  /\ pc = "primer"
  /\ IF narrates(reporter)
     THEN Report("Narration", "none", "choose")
     ELSE pc' = "choose" /\ UNCHANGED out
  /\ UNCHANGED <<sc, pool, command, next, open, bar, noise, threads, code>>

End(c) == code' = c
Outcome == IF ci_mode(reporter) THEN "outcome" ELSE "exited"

Choose ==
  /\ pc = "choose"
  /\ \/ /\ sc.command \in DOMAIN Reports
        /\ command' = sc.command /\ pc' = "run" /\ UNCHANGED <<out, code>>
     \/ /\ sc.command \in Shells /\ pc' = "script"
        /\ UNCHANGED <<out, command, code>>
     \/ /\ sc.command = "none" /\ sc.flags.ci /\ pc' = "env"
        /\ UNCHANGED <<out, command, code>>
     \/ /\ sc.command = "none" /\ ~sc.flags.ci
        /\ Report("Error", "no subcommand", Outcome) /\ End("InvalidArgs")
        /\ UNCHANGED command
  /\ UNCHANGED <<sc, pool, next, open, bar, noise, threads>>

-----------------------------------------------------------------------------
(* The variables read, in order. *)
Reads == <<"OPERATION">> \o ReadOrder(sc.env["OPERATION"])

(* resolve_from_env: the operation first, then its variables in order; the *)
(* first that is not accepted ends the run.                                *)
ReadVariable ==
  /\ pc = "env"
  /\ LET name == Reads[next]
     IN  IF ~Accepts(name, sc.env[name])
         THEN /\ Report("Error", name, Outcome) /\ End("InvalidArgs")
              /\ UNCHANGED <<command, next>>
         ELSE IF next < Len(Reads)
         THEN next' = next + 1 /\ UNCHANGED <<pc, out, command, code>>
         ELSE /\ command' = sc.env["OPERATION"] /\ next' = 1 /\ pc' = "run"
              /\ UNCHANGED <<out, code>>
  /\ UNCHANGED <<sc, pool, open, bar, noise, threads>>

(* completions::generate writes past the reporter.  For bash an error of  *)
(* the write is returned and reported; for the others clap_complete        *)
(* unwraps it.                                                             *)
Completions ==
  /\ pc = "script"
  /\ \/ /\ open
        /\ out' = Append(out, Line("Plain", "plain", "script"))
        /\ End("Success") /\ pc' = Outcome
     \/ /\ ~open /\ sc.command = "completions bash"
        /\ Report("Error", "writing completion script", Outcome) /\ End("Io")
     \/ /\ ~open /\ sc.command = "completions zsh"
        /\ pc' = "aborted" /\ UNCHANGED <<out, code>>
  /\ UNCHANGED <<sc, pool, command, next, open, bar, noise, threads>>

-----------------------------------------------------------------------------
(* Whether an entry of the command's reports applies in this run. *)
Applies(when) ==
  CASE when = "always" -> {TRUE}
    [] when = "narrates" -> {narrates(reporter)}
    [] when = "banner" -> {boot_banner(reporter)}
    [] when = "joke" -> {corporate_joke(reporter)}
    [] when = "json" -> {json}
    [] when = "text" -> {~json}
    [] when = "data" -> BOOLEAN                    \* the image is not empty
    [] when = "asked" -> IF sc.command = "none" THEN {FALSE} ELSE BOOLEAN
    [] when = "image" -> {ci_mode(reporter)}
    [] when = "bench" -> {FALSE}

Current == Reports[command][next]
Running == pc = "run" /\ next <= Len(Reports[command])

(* The next report, if it applies.  The ConcurrencyInfo of an image command *)
(* states the mode that was just resolved.                                  *)
Say1 ==
  /\ Running /\ Current.do = "say"
  /\ \E applies \in Applies(Current.when) :
       IF applies THEN Report(Current.kind, "none", "run")
                  ELSE UNCHANGED <<pc, out>>
  /\ IF Current.kind = "ConcurrencyInfo"
     THEN \E a \in TransferArgs :
            threads' = [n |-> resolve(sc.machine, pool, a), args |-> a]
     ELSE UNCHANGED threads
  /\ next' = next + 1
  /\ UNCHANGED <<sc, pool, command, open, bar, noise, code>>

(* A place where the command may end, or goes on. *)
MayEnd ==
  /\ Running /\ Current.do = "end"
  /\ \/ /\ TRUE \in Applies(Current.when)
        /\ End(Current.code)
        /\ IF Current.kind = "none" THEN pc' = Outcome /\ UNCHANGED out
           ELSE Report(Current.kind, "none", Outcome)
     \/ pc' = "run" /\ UNCHANGED <<out, code>>
  /\ next' = next + 1
  /\ UNCHANGED <<sc, pool, command, open, bar, noise, threads>>

(* dispatch_with_progress: lines under --ci, else a bar if it is enabled;  *)
(* bench shows neither under --ci.                                         *)
ShowProgress ==
  /\ Running /\ Current.do = "display"
  /\ IF TRUE \in Applies(Current.when)
     THEN Report("Progress", "none", "run")
     ELSE UNCHANGED <<pc, out>>
  /\ bar' = IF show_progress /\ ~ci_mode(reporter) THEN TRUE ELSE bar
  /\ next' = next + 1
  /\ UNCHANGED <<sc, pool, command, open, noise, threads, code>>

(* A panic, if there is cause: its message goes to standard error past     *)
(* every reporter.                                                         *)
MayPanic ==
  /\ Running /\ Current.do = "panic"
  /\ pc' = IF sc.fatal = Current.when THEN "aborted" ELSE "run"
  /\ next' = next + 1
  /\ UNCHANGED <<sc, pool, command, out, open, bar, noise, threads, code>>

(* Programs that have this one's standard streams print what they like, on *)
(* both: one line stands for all of it.  A closed output is their affair.  *)
RunTools ==
  /\ Running /\ Current.do = "tools"
  /\ \/ UNCHANGED <<out, noise>>
     \/ /\ TRUE \in Applies(Current.when) /\ open
        /\ out' = Append(out, Line("Tool", "plain", "none"))
        /\ noise' \in BOOLEAN
     \/ /\ TRUE \in Applies(Current.when)
        /\ noise' = TRUE /\ UNCHANGED out
  /\ pc' = "run" /\ next' = next + 1
  /\ UNCHANGED <<sc, pool, command, open, bar, threads, code>>

Complete ==
  /\ pc = "run" /\ next = Len(Reports[command]) + 1
  /\ End("Success") /\ pc' = Outcome
  /\ UNCHANGED <<sc, pool, command, next, out, open, bar, noise, threads>>

(* The outcome line of --ci, then process::exit. *)
ReportOutcome ==
  /\ pc = "outcome"
  /\ Report("Outcome", code, "exited")
  /\ UNCHANGED <<sc, pool, command, next, open, bar, noise, threads, code>>

Over == pc \in {"exited", "aborted"} /\ UNCHANGED vars

Next ==
  \/ CloseOutput \/ Start \/ RedPill \/ Primer \/ Choose \/ ReadVariable
  \/ Completions \/ Say1 \/ MayEnd \/ ShowProgress \/ MayPanic \/ RunTools
  \/ Complete \/ ReportOutcome \/ Over

Spec == Init /\ [][Next]_vars

-----------------------------------------------------------------------------
(* Prints past the reporter: the easter egg and the completion script. *)
PrintsDirectly == pc = "egg" \/ \E i \in 1..Len(out) : out[i].kind = "Plain"

Lines(kind) == {i \in 1..Len(out) : out[i].kind = kind}

(* What the program itself prints stays what the flags promise, whatever   *)
(* the command, and whichever of its exits it takes: under --log-format    *)
(* json every line is a JSON object and no bar is drawn, under --ci        *)
(* nothing is redrawn, and under -q nothing is printed, so that a closed   *)
(* standard output cannot end the run, and nothing aborts it but a panic   *)
(* that has its cause (PanicCauses).  The completion script and the easter *)
(* egg do not go through the reporter; the panic's message and the lines   *)
(* of other programs are the subject of QuietIsSilent (lib.rs, event.rs,   *)
(* progress/mod.rs).                                                       *)
StreamsStayClean ==
  PrintsDirectly \/ sc.command \in Shells \/
    LET own == {i \in 1..Len(out) : out[i].kind # "Tool"}
    IN  /\ json => ~bar /\ \A i \in own : out[i].form = "json"
        /\ sc.flags.ci => ~bar
        /\ sc.flags.quiet => own = {} /\ ~bar /\ (pc = "aborted" => sc.fatal # "none")

(* Standard error: a bar, the message of a panic, or another program's.    *)
OnStandardError == bar \/ noise \/ pc = "aborted"

(* lib.rs:41 of -q: no stdout and no stderr, communicate only via the exit *)
(* code.  The panics (align.rs:90, streaming.rs:47 and 49, inspect.rs:69,  *)
(* datagen.rs:40, keygen.rs:27) and the programs that inherit the streams  *)
(* (cryptsetup_compat.rs:222) do not keep to it.                           *)
QuietIsSilent == sc.flags.quiet => out = <<>> /\ ~OnStandardError

(* A --ci log is closed by exactly one Outcome line that states the exit   *)
(* code of the process, on every path to the exit, with every combination  *)
(* of flags; no other log has one (lib.rs run, reporter_setup.rs).         *)
OutcomeClosesLog ==
  pc = "exited" =>
    IF sc.flags.ci /\ ~sc.flags.quiet
    THEN Lines("Outcome") = {Len(out)} /\ out[Len(out)].names = code
    ELSE Lines("Outcome") = {}

(* A run that fails says why: the last line before the outcome is an Error *)
(* or, where a check found what it looks for, its Message, in every mode   *)
(* but -q; and a run that succeeds prints no Error.  The reporters drop    *)
(* events, so the reason must be in one that the chosen reporter prints.   *)
FailureIsExplained ==
  pc \in {"outcome", "exited"} /\ ~sc.flags.quiet =>
    IF code = "Success"
    THEN Lines("Error") = {}
    ELSE LET said == {i \in 1..Len(out) : out[i].kind # "Outcome"}
         IN  /\ said # {}
             /\ out[Len(out) - Cardinality(Lines("Outcome"))].kind
                  \in {"Error", "Message", "Plain"}

(* Standalone --ci: no command runs, so no file is touched, before every   *)
(* variable it reads was found usable; and when one is not, the one error  *)
(* names it, and it is the first (env_config.rs:29-34).                    *)
EnvCheckedFirst ==
  sc.command = "none" /\ sc.flags.ci =>
    LET value(i) == sc.env[Reads[i]]
        faulty == {i \in 1..Len(Reads) :
                     value(i) = "malformed" \/ (i <= 4 /\ ~HasValue(value(i)))}
    IN  /\ command # "none" => faulty = {}
        /\ \A e \in Lines("Error") : \A i \in faulty :
             command = "none" =>
               \E j \in faulty : j <= i /\ out[e].names = Reads[j]

(* A transfer gets at least one thread, no more than were asked for, and   *)
(* without being asked no more than the cgroup quota covers, rounded up to *)
(* whole cores (cgroup.rs, concurrency.rs, lib.rs:88-107).                 *)
WorkersFitQuota ==
  threads # NoThreads =>
    LET a == threads.args
        limit == IF sc.machine.v2.quota > 0 THEN sc.machine.v2 ELSE sc.machine.v1
    IN  /\ threads.n >= 1
        /\ a.pin \/ a.size < a.threshold \/ a.max_workers = 0 => threads.n = 1
        /\ a.max_workers >= 1 => threads.n <= a.max_workers
        /\ a.max_workers < 0 /\ limit.quota > 0 =>
             (threads.n - 1) * limit.period < limit.quota

(* completions.rs:36-40: a standard output that an ordinary pipeline closes *)
(* fails `completions bash` cleanly, rather than panicking.                 *)
CompletionsFailCleanly == sc.command = "completions bash" => pc # "aborted"
=============================================================================
