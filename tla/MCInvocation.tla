---------------------------- MODULE MCInvocation ----------------------------
EXTENDS Invocation

Plain == [quiet |-> FALSE, ci |-> FALSE, governance |-> FALSE, redpill |-> FALSE,
          didactic |-> FALSE, json |-> FALSE]
AllFlags == [DOMAIN Plain -> BOOLEAN]

Commands == DOMAIN Reports \cup Shells \cup {"none"}

Container == [v2 |-> [quota |-> 3, period |-> 2], v1 |-> Absent,
              parallelism |-> 8, host |-> 8]
QuotaFiles == {Absent, Unlimited} \cup [quota : {1, 2, 3, 4, 5}, period : {2}]
Machines == [v2 : QuotaFiles, v1 : QuotaFiles, parallelism : {0, 8}, host : {8}]

GoodEnv == [n \in Names |-> IF n = "OPERATION" THEN "encrypt" ELSE "good"]
Values(n) == (IF n = "OPERATION" THEN {"encrypt", "decrypt"} ELSE {"good"})
             \cup {"unset", "empty", "not_unicode"}
             \cup (IF n \in {"INPUT", "OUTPUT", "KEY_FILE"} THEN {} ELSE {"malformed"})
(* At most two variables beside the operation differ from a good one. *)
Envs ==
  {[GoodEnv EXCEPT !["OPERATION"] = o, ![m] = x, ![n] = y] :
     o \in Values("OPERATION"), m \in Names \ {"OPERATION"},
     n \in Names \ {"OPERATION"}, x \in {"unset", "empty", "not_unicode", "malformed"},
     y \in {"good", "unset", "malformed"}}
Possible == {e \in Envs : \A n \in Names : e[n] \in Values(n)}

Scenario(f, c, e, m, i) ==
  [flags |-> f, command |-> c, fatal |-> "none", env |-> e, machine |-> m, impatient |-> i]

(* A command with something to panic over, its own or another command's.   *)
WithFatal(f, i) ==
  {[Scenario(f, c, GoodEnv, Container, i) EXCEPT !.fatal = x] :
     c \in {"keygen", "inspect", "entropy", "align fix", "bench"}, x \in PanicCauses}

MCScenarios ==
  {Scenario(f, c, GoodEnv, Container, i) : f \in AllFlags, c \in Commands, i \in BOOLEAN}
  \cup UNION {WithFatal(f, i) : f \in AllFlags, i \in BOOLEAN}
  \cup {Scenario([Plain EXCEPT !.ci = TRUE, !.governance = g], "none", e, Container, FALSE) :
          g \in BOOLEAN, e \in Possible}
  \cup {Scenario(Plain, c, GoodEnv, m, FALSE) : c \in {"encrypt", "decrypt"}, m \in Machines}

(* nocap-crypt completions bash | head *)
PipedScript == {Scenario(Plain, "completions bash", GoodEnv, Container, TRUE)}

Quiet == [Plain EXCEPT !.quiet = TRUE]

(* nocap-crypt -q with such a command, and nocap-crypt -q image encrypt,   *)
(* with and without the compatibility check.                               *)
QuietRuns == WithFatal(Quiet, FALSE)
             \cup {Scenario(Quiet, "encrypt", GoodEnv, Container, FALSE)}

MCTransferArgs ==
  [size : {1, 2}, threshold : {2}, pin : BOOLEAN, max_workers : {-1, 0, 3}]
=============================================================================
