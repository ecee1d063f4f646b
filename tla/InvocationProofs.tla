-------------------------- MODULE InvocationProofs --------------------------
(***************************************************************************)
(* For every set of flags, command, environment and machine: what the      *)
(* streams of a run show, how its log ends, what its exit code is          *)
(* explained by, when a command of the environment runs, and how many      *)
(* threads an image gets.                                                  *)
(*                                                                         *)
(* A step of the program is first brought to one of six shapes by what it  *)
(* does to the log, the place and the exit code (Shape): the invariants of *)
(* the log follow from the shape alone, so that what a command reports, in *)
(* which order, matters only through the kinds its script may contain      *)
(* (EntrySet).                                                             *)
(***************************************************************************)
EXTENDS Invocation, FiniteSetTheorems, SequenceTheorems, TLAPS

(* The exit codes of a failure, and all that a line may name.              *)
Failures == {"UnsupportedCipher", "Io", "KeyValidation", "InvalidArgs", "LuksCompat",
             "AlignmentFailed", "EntropyFailed"}
Texts == Names \cup Failures
         \cup {"none", "Success", "Generic", "pills", "script", "no subcommand",
               "writing completion script"}

Whens == {"always", "narrates", "banner", "joke", "json", "text", "data", "asked",
          "image", "bench"}

(* A report that ends nothing is no error and no outcome, one that ends a  *)
(* command with a failure is an error or a message; a panic and other      *)
(* programs report nothing.                                                *)
Said == EventKinds \ {"Error", "Outcome"}

EntrySet ==
  [do : {"say"}, kind : Said, when : Whens, code : {"none"}]
    \cup [do : {"end"}, kind : {"Error", "Message"}, when : Whens, code : Failures]
    \cup [do : {"end"}, kind : {"Message", "none"}, when : Whens, code : {"Success"}]
    \cup [do : {"display"}, kind : {"Progress"}, when : Whens, code : {"none"}]
    \cup [do : {"panic"}, kind : {"none"}, when : PanicCauses, code : {"none"}]
    \cup [do : {"tools"}, kind : {"none"}, when : Whens, code : {"none"}]

(* The form of a line that goes through the reporter.                      *)
Form == IF json THEN "json" ELSE "text"

(* Where a run is until it ends, successfully or not.                      *)
Before == {"start", "egg", "primer", "choose", "env", "run", "script"}

(* Every kind of line, and the lines there may be.                         *)
Unreported == {"Plain", "Tool"}
AllKinds == EventKinds \cup Unreported
LineSet == [kind : AllKinds, form : {"json", "text", "plain"},
            names : Texts]

TypeInv ==
  /\ sc \in Scenarios /\ pc \in Before \cup {"outcome", "exited", "aborted"}
  /\ out \in Seq(LineSet) /\ bar \in BOOLEAN
  /\ code \in {"none", "Success", "Generic"} \cup Failures
  /\ command \in DOMAIN Reports \cup {"none"} /\ next \in Nat \ {0}

(* How the run came to where it is.                                        *)
PlaceInv ==
  /\ pc = "egg" => ~sc.flags.ci
  /\ pc = "script" => sc.command \in Shells
  /\ pc = "env" => sc.command = "none" /\ sc.flags.ci
  /\ pc = "run" => command # "none"

(* The pool is sized once, before anything else, and the threads of a      *)
(* transfer are resolved from it.                                          *)
PoolInv ==
  /\ pc # "start" => pool = effective_core_count(sc.machine)
  /\ \/ threads = NoThreads
     \/ /\ pc # "start"
        /\ \E a \in TransferArgs :
             threads = [n |-> resolve(sc.machine, pool, a), args |-> a]

(* Whatever was reported has the form the flags ask for; under -q the      *)
(* lines are those of other programs, and only a panic with a cause aborts.*)
StreamInv ==
  /\ \A i \in 1 .. Len(out) :
       out[i].kind \in Unreported \/ out[i].form = IF json THEN "json" ELSE "text"
  /\ sc.flags.quiet /\ sc.command \notin Shells =>
       /\ \A i \in 1 .. Len(out) : out[i].kind = "Tool"
       /\ pc = "aborted" => sc.fatal # "none"
  /\ bar => ~sc.flags.quiet /\ ~json /\ ~sc.flags.ci

(* The first n lines say why the run has the exit code it has.             *)
Explains(n) ==
  ~sc.flags.quiet =>
    IF code = "Success"
    THEN \A i \in 1 .. n : out[i].kind # "Error"
    ELSE n >= 1 /\ out[n].kind \in {"Error", "Message", "Plain"}

NoOutcome(n) == \A i \in 1 .. n : out[i].kind # "Outcome"

(* Until a command ends it has reported no error and has no exit code;     *)
(* from then on its code is explained, and under --ci an outcome follows.  *)
EndInv ==
  /\ pc \in Before =>
       code = "none" /\ \A i \in 1 .. Len(out) : out[i].kind \notin {"Error", "Outcome"}
  /\ pc = "outcome" => ci_mode(reporter) /\ NoOutcome(Len(out)) /\ Explains(Len(out))
  /\ pc = "exited" =>
       IF ci_mode(reporter)
       THEN /\ Len(out) >= 1 /\ out[Len(out)].kind = "Outcome" /\ out[Len(out)].names = code
            /\ NoOutcome(Len(out) - 1) /\ Explains(Len(out) - 1)
       ELSE NoOutcome(Len(out)) /\ Explains(Len(out))

Faulty(i) == \/ sc.env[Reads[i]] = "malformed"
             \/ i <= 4 /\ ~HasValue(sc.env[Reads[i]])

(* Without a subcommand every variable before the next one is usable; an   *)
(* error names the next one.                                               *)
EnvInv ==
  sc.command = "none" /\ sc.flags.ci =>
    /\ pc \in {"start", "primer", "choose"} => command = "none" /\ next = 1
    /\ pc = "env" => command = "none" /\ next \in 1 .. Len(Reads)
    /\ command = "none" =>
         /\ \A i \in 1 .. Len(Reads) : i < next => ~Faulty(i)
         /\ \A e \in 1 .. Len(out) : out[e].kind = "Error" =>
              next \in 1 .. Len(Reads) /\ Faulty(next) /\ out[e].names = Reads[next]
    /\ command # "none" => \A i \in 1 .. Len(Reads) : ~Faulty(i)

(* The inductive invariant.                                                *)
Inv == TypeInv /\ PlaceInv /\ PoolInv /\ StreamInv /\ EndInv /\ EnvInv

-----------------------------------------------------------------------------
(* Rounded up, n whole cores are enough for the quota and n - 1 are not.   *)
LEMMA CeilingIsTight ==
  ASSUME NEW q \in Nat \ {0}, NEW p \in Nat \ {0}
  PROVE  /\ (q + p - 1) \div p \in Nat \ {0}
         /\ ((q + p - 1) \div p - 1) * p < q
<1> DEFINE n == (q + p - 1) \div p
           r == (q + p - 1) % p
<1>1. n \in Int /\ r \in 0 .. p - 1 /\ q + p - 1 = n * p + r
  <2>1. q + p - 1 \in Int /\ p \in Int /\ p > 0
    OBVIOUS
  <2> QED BY <2>1
<1> HIDE DEF n, r
<1>2. n * p + r >= p
  BY <1>1
<1>3. n >= 1
  <2> SUFFICES ASSUME n <= 0 PROVE FALSE
    BY <1>1
  <2>1. n * p <= 0
    BY <1>1
  <2> QED BY <1>1, <1>2, <2>1
<1>4. (n - 1) * p = n * p - p
  BY <1>1
<1>5. (n - 1) * p < q
  BY <1>1, <1>4
<1> QED BY <1>1, <1>3, <1>5 DEF n

(* A quota file answers with the least number of cores that cover it, or   *)
(* not at all.                                                             *)
LEMMA QuotaCoversCores ==
  ASSUME NEW f \in QuotaFile
  PROVE  /\ quota_cores(f) \in Nat
         /\ quota_cores(f) = NoCores <=> f.quota <= 0 \/ f.period <= 0
         /\ quota_cores(f) # NoCores =>
              (quota_cores(f) - 1) * f.period < f.quota
<1>0. f.quota \in Int /\ f.period \in Int
  BY DEF QuotaFile
<1>1. CASE f.quota <= 0 \/ f.period <= 0
  BY <1>1 DEF quota_cores, NoCores
<1>2. CASE ~(f.quota <= 0 \/ f.period <= 0)
  <2>1. f.quota \in Nat \ {0} /\ f.period \in Nat \ {0}
    BY <1>0, <1>2
  <2> DEFINE n == (f.quota + f.period - 1) \div f.period
  <2>2. n \in Nat \ {0} /\ (n - 1) * f.period < f.quota
    BY <2>1, CeilingIsTight
  <2>3. quota_cores(f) = AtLeastOne(n)
    BY <1>2 DEF quota_cores
  <2> HIDE DEF n
  <2>4. quota_cores(f) = n
    BY <2>2, <2>3 DEF AtLeastOne
  <2> QED BY <1>2, <2>2, <2>4 DEF NoCores
<1> QED BY <1>1, <1>2

(* The global pool has at least one thread and, under a quota, no whole    *)
(* core more than it.                                                      *)
LEMMA PoolFitsQuota ==
  ASSUME NEW m \in [v2 : QuotaFile, v1 : QuotaFile, parallelism : Nat, host : Nat]
  PROVE  LET n == effective_core_count(m)
             limit == IF m.v2.quota > 0 THEN m.v2 ELSE m.v1
         IN  /\ n \in Nat \ {0}
             /\ limit.quota > 0 => (n - 1) * limit.period < limit.quota
<1> DEFINE n == effective_core_count(m)
           limit == IF m.v2.quota > 0 THEN m.v2 ELSE m.v1
<1>1. /\ m.v2 \in QuotaFile /\ m.v1 \in QuotaFile /\ m.parallelism \in Nat
      /\ limit \in QuotaFile
  OBVIOUS
<1>2. limit.quota \in Int /\ limit.period \in Int
  BY <1>1 DEF QuotaFile
<1>3. n \in Nat \ {0}
  BY <1>1, QuotaCoversCores DEF effective_core_count, AtLeastOne, NoCores
<1>4. ASSUME limit.quota > 0 PROVE (n - 1) * limit.period < limit.quota
  <2>1. CASE limit.period <= 0
    <3>1. n - 1 \in Nat
      BY <1>3
    <3> HIDE DEF n, limit
    <3>2. (n - 1) * limit.period <= 0
      BY <1>2, <2>1, <3>1
    <3> QED BY <1>2, <1>4, <3>1, <3>2
  <2>2. CASE limit.period > 0
    <3>1. quota_cores(limit) # NoCores
      BY <1>1, <1>2, <1>4, <2>2, QuotaCoversCores
    <3>2. n = quota_cores(limit)
      <4>1. CASE m.v2.quota > 0
        BY <3>1, <4>1 DEF effective_core_count
      <4>2. CASE ~(m.v2.quota > 0)
        <5>1. quota_cores(m.v2) = NoCores
          BY <1>1, <4>2, QuotaCoversCores DEF QuotaFile
        <5> QED BY <3>1, <4>2, <5>1 DEF effective_core_count
      <4> QED BY <4>1, <4>2
    <3> QED BY <1>1, <3>1, <3>2, QuotaCoversCores
  <2> QED BY <1>2, <2>1, <2>2
<1> QED BY <1>3, <1>4

-----------------------------------------------------------------------------
(* The places where a command of the program may fail.                     *)
LEMMA FailEntries ==
  /\ Fail("UnsupportedCipher") \in EntrySet /\ Fail("Io") \in EntrySet
  /\ Fail("KeyValidation") \in EntrySet /\ Fail("InvalidArgs") \in EntrySet
  /\ Fail("LuksCompat") \in EntrySet /\ Fail("EntropyFailed") \in EntrySet
BY DEF Fail, Entry, EntrySet, Whens, Failures

(* The other places where one may end, and the displays.                   *)
LEMMA EndEntries ==
  /\ EndIf("asked", "Message", "LuksCompat") \in EntrySet
  /\ EndIf("always", "none", "Success") \in EntrySet
  /\ EndIf("always", "Message", "Success") \in EntrySet
  /\ EndIf("always", "Message", "AlignmentFailed") \in EntrySet
  /\ Display("image") \in EntrySet /\ Display("bench") \in EntrySet
BY DEF EndIf, Display, Entry, EntrySet, Whens, Failures

(* The places where one may panic, and where one runs other programs.      *)
LEMMA OtherEntries ==
  /\ PanicOver("--alignment") \in EntrySet /\ PanicOver("--window-size") \in EntrySet
  /\ PanicOver("--sector-size") \in EntrySet /\ PanicOver("--data-len-mb") \in EntrySet
  /\ PanicOver("randomness") \in EntrySet /\ Tools("asked") \in EntrySet
BY DEF PanicOver, Tools, Entry, EntrySet, Whens, PanicCauses

(* What a command always reports.                                          *)
LEMMA SayEntries ==
  /\ Say("CipherSelected") \in EntrySet /\ Say("HardwareAccelPath") \in EntrySet
  /\ Say("AlignmentStatus") \in EntrySet /\ Say("ConcurrencyInfo") \in EntrySet
  /\ Say("PhaseTiming") \in EntrySet /\ Say("EntropyScore") \in EntrySet
  /\ Say("Message") \in EntrySet
BY DEF Say, Entry, EntrySet, Whens, Said, EventKinds

(* What it reports when the flags or the arguments call for it.            *)
LEMMA SayIfEntries ==
  /\ Narrate \in EntrySet
  /\ SayIf("banner", "Banner") \in EntrySet /\ SayIf("joke", "Message") \in EntrySet
  /\ SayIf("data", "EntropyScore") \in EntrySet /\ SayIf("asked", "Message") \in EntrySet
  /\ SayIf("narrates", "EntropyScore") \in EntrySet /\ SayIf("json", "Message") \in EntrySet
  /\ SayIf("text", "Message") \in EntrySet /\ SayIf("text", "EntropyScore") \in EntrySet
  /\ SayIf("text", "HardwareAccelPath") \in EntrySet
BY DEF Narrate, SayIf, Entry, EntrySet, Whens, Said, EventKinds

(* The scripts that are one sequence.                                      *)
LEMMA ShortScripts ==
  /\ Banner \in Seq(EntrySet) /\ resolve_spec_and_key \in Seq(EntrySet)
  /\ dispatch \in Seq(EntrySet) /\ keygen \in Seq(EntrySet) /\ keycheck \in Seq(EntrySet)
  /\ inspect \in Seq(EntrySet) /\ validate \in Seq(EntrySet) /\ entropy \in Seq(EntrySet)
  /\ align_check \in Seq(EntrySet) /\ align_fix \in Seq(EntrySet) /\ info \in Seq(EntrySet)
BY FailEntries, EndEntries, OtherEntries, SayEntries, SayIfEntries
   DEF Banner, resolve_spec_and_key, dispatch, keygen, keycheck, inspect, validate, entropy,
       align_check, align_fix, info

(* The script of bench, in its parts.                                      *)
LEMMA BenchScript ==
  bench \in Seq(EntrySet)
<1> DEFINE pass == <<Display("bench"), Fail("Io"), PanicOver("--data-len-mb"),
                     Fail("Io"), Say("PhaseTiming"), Narrate>>
<1>1. /\ pass \in Seq(EntrySet)
      /\ <<Fail("UnsupportedCipher"), Narrate, PanicOver("randomness"),
          Fail("InvalidArgs")>> \in Seq(EntrySet)
      /\ <<Say("Message")>> \in Seq(EntrySet)
  BY FailEntries, EndEntries, OtherEntries, SayEntries, SayIfEntries
<1> HIDE DEF pass
<1> QED BY <1>1, ShortScripts DEF bench, pass

(* The scripts of image encrypt and image decrypt, in theirs.              *)
LEMMA ImageScripts ==
  image_encrypt \in Seq(EntrySet) /\ image_decrypt \in Seq(EntrySet)
<1>1. /\ <<Narrate, SayIf("joke", "Message"), Say("HardwareAccelPath"),
       Fail("KeyValidation"), Fail("Io"), Fail("InvalidArgs"),
       Say("AlignmentStatus"), Narrate, Say("ConcurrencyInfo"), Fail("Io")>> \in Seq(EntrySet)
      /\ <<SayIf("data", "EntropyScore"), Narrate, Tools("asked"),
       EndIf("asked", "Message", "LuksCompat"), SayIf("asked", "Message")>> \in Seq(EntrySet)
      /\ <<Fail("KeyValidation"), Fail("Io"), Say("ConcurrencyInfo"), Fail("Io")>> \in Seq(EntrySet)
  BY FailEntries, EndEntries, OtherEntries, SayEntries, SayIfEntries
<1> QED BY <1>1, ShortScripts DEF image_encrypt, image_decrypt

(* So every command reports by such a script; no command is a shell's.     *)
LEMMA ReportsTyped ==
  /\ "none" \notin DOMAIN Reports /\ "encrypt" \in DOMAIN Reports /\ "decrypt" \in DOMAIN Reports
  /\ Shells \cap DOMAIN Reports = {}
  /\ \A c \in DOMAIN Reports : Reports[c] \in Seq(EntrySet)
<1>1. DOMAIN Reports = {"encrypt", "decrypt", "keygen", "keycheck", "inspect", "validate",
          "entropy", "align check", "align fix", "bench", "info"}
  BY DEF Reports
<1>2. ASSUME NEW c \in DOMAIN Reports PROVE Reports[c] \in Seq(EntrySet)
  BY <1>1, <1>2, ShortScripts, BenchScript, ImageScripts DEF Reports
<1> QED BY <1>1, <1>2 DEF Shells

-----------------------------------------------------------------------------
(* The variables that have to be set.                                      *)
Mandatory == {"OPERATION", "INPUT", "OUTPUT", "KEY_FILE"}

(* The first n variables of s are those that have to be set.               *)
RequiredFirst(s, n) ==
  /\ s \in Seq(Names) /\ Len(s) >= n
  /\ \A i \in 1 .. Len(s) : s[i] \in Mandatory <=> i <= n

(* More variables that may be left unset come after them.                  *)
LEMMA OptionalAfter ==
  ASSUME NEW s, NEW n \in Nat, RequiredFirst(s, n), NEW t \in Seq(Names \ Mandatory)
  PROVE  RequiredFirst(s \o t, n)
<1>1. /\ s \o t \in Seq(Names) /\ Len(s \o t) = Len(s) + Len(t)
      /\ \A i \in 1 .. Len(s) : (s \o t)[i] = s[i]
      /\ \A i \in 1 .. Len(t) : (s \o t)[Len(s) + i] = t[i]
  <2>1. s \in Seq(Names) /\ t \in Seq(Names)
    BY DEF RequiredFirst
  <2> QED BY <2>1
<1>2. ASSUME NEW i \in 1 .. Len(s \o t)
      PROVE  (s \o t)[i] \in Mandatory <=> i <= n
  <2>1. CASE i \in 1 .. Len(s)
    BY <1>1, <2>1 DEF RequiredFirst
  <2>2. CASE i \in Len(s) + 1 .. Len(s) + Len(t)
    <3>1. PICK k \in 1 .. Len(t) : i = Len(s) + k
      <4>1. i - Len(s) \in 1 .. Len(t) /\ i = Len(s) + (i - Len(s))
        BY <2>2 DEF RequiredFirst
      <4> QED BY <4>1
    <3>2. t[k] \in Names \ Mandatory
      OBVIOUS
    <3> QED BY <1>1, <3>1, <3>2 DEF RequiredFirst
  <2> QED BY <1>1, <2>1, <2>2 DEF RequiredFirst
<1> QED BY <1>1, <1>2 DEF RequiredFirst

(* Whatever the operation is, the four that have to be set are read first. *)
LEMMA ReadsTyped ==
  ASSUME sc.env["OPERATION"] \in Operations
  PROVE  /\ Reads \in Seq(Names) /\ Len(Reads) \in Nat \ {0}
         /\ Reads[1] = "OPERATION"
         /\ \A i \in 1 .. Len(Reads) : Reads[i] \in Mandatory <=> i <= 4
         /\ sc.env["OPERATION"] \notin {"encrypt", "decrypt"} => Len(Reads) = 1
<1> DEFINE op == sc.env["OPERATION"]
<1> HIDE DEF op
<1>1. Reads = <<"OPERATION">> \o ReadOrder(op) /\ op \in Operations
  BY DEF Reads, op
<1>2. ASSUME op \in {"encrypt", "decrypt"} PROVE RequiredFirst(ReadOrder(op), 3)
  <2>1. RequiredFirst(Required, 3)
    BY DEF RequiredFirst, Required, Names, Mandatory
  <2>2. /\ Key \in Seq(Names \ Mandatory) /\ Align \in Seq(Names \ Mandatory)
        /\ Workers \in Seq(Names \ Mandatory)
    BY DEF Key, Align, Workers, Names, Mandatory
  <2>3. RequiredFirst(Required \o Key, 3)
    BY <2>1, <2>2, OptionalAfter
  <2>4. RequiredFirst(Required \o Key \o Align, 3)
    BY <2>2, <2>3, OptionalAfter
  <2>5. RequiredFirst(Required \o Key \o Align \o Workers, 3)
    BY <2>2, <2>4, OptionalAfter
  <2>6. RequiredFirst(Required \o Key \o Workers, 3)
    BY <2>2, <2>3, OptionalAfter
  <2> QED BY <1>2, <2>5, <2>6 DEF ReadOrder
<1>3. CASE op \in {"encrypt", "decrypt"}
  <2> DEFINE r == ReadOrder(op)
  <2> HIDE DEF r
  <2>1. r \in Seq(Names) /\ Len(r) \in Nat /\ \A i \in 1 .. Len(r) : r[i] \in Mandatory <=> i <= 3
    BY <1>2, <1>3 DEF RequiredFirst, r
  <2>2. "OPERATION" \in Names /\ "OPERATION" \in Mandatory
    BY DEF Names, Mandatory
  <2>3. /\ Reads \in Seq(Names) /\ Len(Reads) = Len(r) + 1 /\ Reads[1] = "OPERATION"
        /\ \A i \in 1 .. Len(r) : Reads[i + 1] = r[i]
    BY <1>1, <2>1, <2>2 DEF r
  <2>4. ASSUME NEW i \in 1 .. Len(Reads) PROVE Reads[i] \in Mandatory <=> i <= 4
    <3>1. CASE i = 1
      BY <2>2, <2>3, <3>1
    <3>2. CASE i # 1
      <4>1. i - 1 \in 1 .. Len(r) /\ Reads[i] = r[i - 1]
        BY <2>1, <2>3, <3>2
      <4> QED BY <2>1, <4>1
    <3> QED BY <3>1, <3>2
  <2> QED BY <1>3, <2>1, <2>3, <2>4 DEF op
<1>4. CASE op \notin {"encrypt", "decrypt"}
  <2>1. ReadOrder(op) = <<>>
    BY <1>4 DEF ReadOrder
  <2>2. Reads = <<"OPERATION">>
    BY <1>1, <2>1
  <2> QED BY <1>4, <2>2 DEF Names, Mandatory, op
<1> QED BY <1>3, <1>4

(* What the program accepts is what is not faulty.                         *)
LEMMA UsableIsAccepted ==
  ASSUME sc.env["OPERATION"] \in Operations, NEW i \in 1 .. Len(Reads)
  PROVE  Accepts(Reads[i], sc.env[Reads[i]]) <=>
           ~(\/ sc.env[Reads[i]] = "malformed"
             \/ i <= 4 /\ ~HasValue(sc.env[Reads[i]]))
BY ReadsTyped DEF Accepts, HasValue, Mandatory

-----------------------------------------------------------------------------
(* What is assumed of a scenario.                                          *)
LEMMA FlagsKnown ==
  ASSUME sc \in Scenarios
  PROVE  /\ sc.flags.quiet \in BOOLEAN /\ sc.flags.ci \in BOOLEAN /\ sc.flags.json \in BOOLEAN
         /\ sc.flags.governance \in BOOLEAN /\ sc.flags.didactic \in BOOLEAN
         /\ sc.flags.redpill \in BOOLEAN
         /\ sc.env["OPERATION"] \in Operations
BY InvocationAssumption DEF FlagSets

(* Each reporter drops what its flag promises and never a failure.         *)
LEMMA ReporterFacts ==
  ASSUME sc \in Scenarios
  PROVE  /\ ci_mode(reporter) <=> sc.flags.ci /\ ~sc.flags.quiet
         /\ sc.flags.quiet => Dropped(reporter, json) = EventKinds
         /\ ~sc.flags.quiet =>
              "Error" \notin Dropped(reporter, json) /\ "Message" \notin Dropped(reporter, json)
         /\ ci_mode(reporter) => "Outcome" \notin Dropped(reporter, json)
         /\ "Plain" \notin Dropped(reporter, json) /\ "Tool" \notin Dropped(reporter, json)
<1> DEFINE f == sc.flags
<1>1. /\ f.quiet \in BOOLEAN /\ f.ci \in BOOLEAN /\ f.governance \in BOOLEAN
      /\ f.didactic \in BOOLEAN /\ json \in BOOLEAN
  BY FlagsKnown DEF json
<1> HIDE DEF f
<1>2. reporter = build_reporter(f)
  BY DEF reporter, f
<1>3. CASE f.quiet
  <2>1. reporter = "Silent"
    BY <1>1, <1>2, <1>3 DEF build_reporter
  <2> QED BY <1>3, <2>1 DEF ci_mode, Dropped, EventKinds, f
<1>4. CASE ~f.quiet /\ f.ci
  <2>1. reporter = "Ci"
    BY <1>1, <1>2, <1>4 DEF build_reporter
  <2> QED BY <1>4, <2>1 DEF ci_mode, Dropped, f
<1>5. CASE ~f.quiet /\ ~f.ci
  <2>1. reporter \in {"Corporate", "Didactic", "Verbose"}
    BY <1>1, <1>2, <1>5 DEF build_reporter
  <2> QED BY <1>5, <2>1 DEF ci_mode, Dropped, f
<1> QED BY <1>1, <1>3, <1>4, <1>5

(* A report adds its line, is dropped, or meets a closed standard output.  *)
LEMMA ReportEffect ==
  ASSUME out \in Seq(LineSet), NEW kind, NEW names, NEW then, Report(kind, names, then)
  PROVE  \/ pc' = then /\ out' = out /\ kind \in Dropped(reporter, json)
         \/ /\ pc' = then /\ kind \notin Dropped(reporter, json)
            /\ out' = Append(out, Line(kind, Form, names))
         \/ pc' = "aborted" /\ out' = out /\ kind \notin Dropped(reporter, json)
<1> DEFINE d == Dropped(reporter, json)
           l == Line(kind, Form, names)
           r == Rendered(reporter, json, kind, names)
<1>1. r = IF kind \in d THEN <<>> ELSE <<l>>
  BY DEF Rendered, Form
<1>2. Println(r, then)
  BY DEF Report
<1> HIDE DEF d, l, r
<1>3. CASE kind \in d
  <2>1. r = <<>> /\ out \o r = out
    BY <1>1, <1>3
  <2>2. pc' = then /\ out' = out
    BY <1>2, <2>1 DEF Println
  <2> QED BY <1>3, <2>2 DEF d
<1>4. CASE kind \notin d
  <2>1. r = <<l>> /\ r # <<>>
    BY <1>1, <1>4
  <2>2. \A s \in Seq(LineSet) : s \o <<l>> = Append(s, l)
    OBVIOUS
  <2>3. out \o r = Append(out, l)
    BY <2>1, <2>2
  <2>4. \/ pc' = then /\ out' = Append(out, l)
        \/ pc' = "aborted" /\ out' = out
    BY <1>2, <2>1, <2>3 DEF Println
  <2> QED BY <1>4, <2>4 DEF d, l
<1> QED BY <1>3, <1>4

(* The line of an event of kind k, or of a print past the reporter.        *)
Printed(k, n) == Line(k, IF k \in Unreported THEN "plain" ELSE Form, n)

(* At most one line is added, of a kind among K that the reporter prints. *)
Adds(K) ==
  \/ out' = out
  \/ \E k \in K, n \in Texts :
       /\ k \notin Dropped(reporter, json)
       /\ k = "Plain" => ~sc.flags.quiet \/ sc.command \in Shells
       /\ out' = Append(out, Printed(k, n))

(* The six shapes of a step.                                               *)
Stays == pc' = pc /\ out' = out /\ code' = code
GoesOn == pc \in Before /\ pc' \in Before /\ code' = code /\ Adds(Said \cup {"Tool"})
Aborts == /\ pc' = "aborted" /\ out' = out
          /\ ~sc.flags.quiet \/ sc.command \in Shells \/ sc.fatal # "none"
          /\ code' \in {"none", "Success", "Generic"} \cup Failures
Succeeds == pc \in Before /\ pc' = Outcome /\ code' = "Success" /\ Adds(Said \cup {"Plain"})
FailsWith ==
  /\ pc \in Before /\ pc' = Outcome /\ code' \in {"Generic"} \cup Failures
  /\ Adds({"Error", "Message", "Plain"})
  /\ ~sc.flags.quiet => out' # out
Closes == /\ pc = "outcome" /\ pc' = "exited" /\ code' = code
          /\ out' = Append(out, Printed("Outcome", code))

Shape == Stays \/ GoesOn \/ Aborts \/ Succeeds \/ FailsWith \/ Closes

(* A report of a kind among K, as a shape sees it.                         *)
LEMMA ReportAdds ==
  ASSUME sc \in Scenarios, out \in Seq(LineSet), NEW K \in SUBSET EventKinds, NEW kind \in K,
         NEW names \in Texts, NEW then, Report(kind, names, then)
  PROVE  \/ pc' = then /\ Adds(K) /\ (kind \notin Dropped(reporter, json) => out' # out)
         \/ pc' = "aborted" /\ out' = out /\ ~sc.flags.quiet
<1>1. kind \in EventKinds /\ kind \notin Unreported /\ kind # "Plain"
  BY DEF EventKinds, Unreported
<1>2. sc.flags.quiet => kind \in Dropped(reporter, json)
  BY <1>1, ReporterFacts
<1>3. Printed(kind, names) = Line(kind, Form, names)
  BY <1>1 DEF Printed
<1>4. \A l : Append(out, l) # out
  <2> SUFFICES ASSUME NEW l, Append(out, l) = out PROVE FALSE
    OBVIOUS
  <2>1. Len(Append(out, l)) = Len(out) + 1 /\ Len(out) \in Nat
    OBVIOUS
  <2> QED BY <2>1
<1> QED BY <1>1, <1>2, <1>3, <1>4, ReportEffect DEF Adds

(* A print past the reporter adds its line or meets a closed output.       *)
LEMMA PlainLine ==
  ASSUME out \in Seq(LineSet), NEW n, NEW then, Println(<<Line("Plain", "plain", n)>>, then)
  PROVE  \/ pc' = then /\ out' = Append(out, Printed("Plain", n)) /\ out' # out
         \/ pc' = "aborted" /\ out' = out
<1> DEFINE l == Line("Plain", "plain", n)
<1>1. Printed("Plain", n) = l
  BY DEF Printed, Unreported
<1> HIDE DEF l
<1>2. <<l>> # <<>>
  OBVIOUS
<1>3. out \o <<l>> = Append(out, l) /\ Append(out, l) # out
  OBVIOUS
<1> QED BY <1>1, <1>2, <1>3 DEF Println, l

(* A report of the reason for a failure, with its code, is a FailsWith.    *)
LEMMA ErrorFails ==
  ASSUME sc \in Scenarios, out \in Seq(LineSet), pc \in Before,
         code \in {"none", "Success", "Generic"} \cup Failures,
         NEW k \in {"Error", "Message"}, NEW n \in Texts, NEW c \in Failures,
         Report(k, n, Outcome), code' = c
  PROVE  Shape
<1>1. {"Error", "Message"} \in SUBSET EventKinds
  BY DEF EventKinds
<1>2. \/ /\ pc' = Outcome /\ Adds({"Error", "Message"})
         /\ k \notin Dropped(reporter, json) => out' # out
      \/ pc' = "aborted" /\ out' = out /\ ~sc.flags.quiet
  BY <1>1, ReportAdds
<1>3. ~sc.flags.quiet => k \notin Dropped(reporter, json)
  BY ReporterFacts
<1>4. Adds({"Error", "Message"}) => Adds({"Error", "Message", "Plain"})
  BY DEF Adds
<1> QED BY <1>2, <1>3, <1>4 DEF Shape, FailsWith, Aborts

(* Where the environment is read there is a variable to read.              *)
LEMMA EnvPlace ==
  ASSUME Inv, pc = "env"
  PROVE  next \in 1 .. Len(Reads) /\ Reads[next] \in Names /\ sc.command = "none" /\ sc.flags.ci
<1> USE DEF Inv, TypeInv
<1>1. sc.command = "none" /\ sc.flags.ci
  BY DEF PlaceInv
<1>2. next \in 1 .. Len(Reads)
  BY <1>1 DEF EnvInv
<1> QED BY <1>1, <1>2, FlagsKnown, ReadsTyped

(* A command at work is at an entry of its script.                         *)
LEMMA CurrentEntry ==
  ASSUME Inv, Running
  PROVE  /\ Current \in EntrySet /\ command \in DOMAIN Reports
         /\ Current.do = "say" => Current.kind \in Said
         /\ Current.do = "panic" => Current.when # "none"
<1>1. /\ command \in DOMAIN Reports /\ next \in 1 .. Len(Reports[command])
      /\ Reports[command] \in Seq(EntrySet)
  BY ReportsTyped DEF Running, PlaceInv, Inv, TypeInv
<1>2. Current \in EntrySet
  BY <1>1 DEF Current
<1> QED BY <1>1, <1>2 DEF EntrySet, PanicCauses

(* What each action does to the log, the step and the exit code.           *)
LEMMA StepShape == Inv /\ Next => Shape
<1> SUFFICES ASSUME Inv, Next PROVE Shape
  OBVIOUS
<1> USE DEF Inv, TypeInv
<1>0. /\ sc \in Scenarios /\ out \in Seq(LineSet)
      /\ sc.flags.quiet \in BOOLEAN /\ sc.flags.ci \in BOOLEAN
      /\ Said \in SUBSET EventKinds /\ {"Narration", "Progress"} \subseteq Said
      /\ "none" \in Texts /\ {"Error"} \in SUBSET EventKinds
      /\ {"Error", "Message"} \in SUBSET EventKinds
      /\ Adds(Said) => Adds(Said \cup {"Tool"})
  BY FlagsKnown DEF Said, EventKinds, Texts, Adds
<1>1. CASE CloseOutput \/ Over
  BY <1>1 DEF CloseOutput, Over, vars, Shape, Stays
<1>2. CASE Start
  <2>1. pc \in Before /\ pc' \in Before /\ code' = code /\ out' = out
    BY <1>2 DEF Start, Before
  <2> QED BY <2>1 DEF Shape, GoesOn, Adds
<1>3. CASE RedPill
  <2>1. Outcome = "exited" /\ pc \in Before
    BY <1>0, <1>3, ReporterFacts DEF RedPill, Outcome, PlaceInv, Before
  <2>2. CASE sc.flags.quiet
    BY <1>3, <2>1, <2>2 DEF RedPill, Shape, Succeeds, Adds
  <2>3. CASE ~sc.flags.quiet
    <3>1. /\ code' \in {"Success", "Generic"} /\ "pills" \in Texts
          /\ \/ pc' = "exited" /\ out' = Append(out, Printed("Plain", "pills")) /\ out' # out
             \/ pc' = "aborted" /\ out' = out
      BY <1>0, <1>3, <2>3, PlainLine DEF RedPill, Texts
    <3>2. CASE pc' = "aborted" /\ out' = out
      BY <2>3, <3>1, <3>2 DEF Shape, Aborts
    <3>3. CASE pc' = "exited" /\ out' = Append(out, Printed("Plain", "pills")) /\ out' # out
      <4>1. Adds({"Plain"})
        BY <1>0, <2>3, <3>1, <3>3, ReporterFacts DEF Adds
      <4>2. Adds(Said \cup {"Plain"}) /\ Adds({"Error", "Message", "Plain"})
        BY <4>1 DEF Adds
      <4> QED BY <2>1, <2>3, <3>1, <3>3, <4>2 DEF Shape, Succeeds, FailsWith
    <3> QED BY <3>1, <3>2, <3>3
  <2> QED BY <2>2, <2>3
<1>4. CASE Primer
  <2>1. pc \in Before /\ code' = code /\ "choose" \in Before
    BY <1>4 DEF Primer, Before
  <2>2. \/ Report("Narration", "none", "choose")
        \/ pc' = "choose" /\ out' = out
    BY <1>4 DEF Primer
  <2>3. CASE pc' = "choose" /\ out' = out
    BY <2>1, <2>3 DEF Shape, GoesOn, Adds
  <2>4. CASE Report("Narration", "none", "choose")
    <3>1. \/ pc' = "choose" /\ Adds(Said)
          \/ pc' = "aborted" /\ out' = out /\ ~sc.flags.quiet
      BY <1>0, <2>4, ReportAdds
    <3> QED BY <1>0, <2>1, <3>1 DEF Shape, GoesOn, Aborts
  <2> QED BY <2>2, <2>3, <2>4
<1>5. CASE Choose
  <2>1. pc \in Before /\ {"run", "script", "env"} \subseteq Before
    BY <1>5 DEF Choose, Before
  <2>2. CASE pc' \in {"run", "script", "env"} /\ out' = out /\ code' = code
    BY <2>1, <2>2 DEF Shape, GoesOn, Adds
  <2>3. CASE Report("Error", "no subcommand", Outcome) /\ code' = "InvalidArgs"
    BY <1>0, <2>1, <2>3, ErrorFails DEF Texts, Failures
  <2> QED BY <1>5, <2>2, <2>3 DEF Choose, End
<1>6. CASE ReadVariable
  <2>1. pc \in Before /\ {"run", "env"} \subseteq Before
    BY <1>6 DEF ReadVariable, Before
  <2>2. CASE pc' \in {"run", "env"} /\ out' = out /\ code' = code
    BY <2>1, <2>2 DEF Shape, GoesOn, Adds
  <2>3. CASE Report("Error", Reads[next], Outcome) /\ code' = "InvalidArgs"
    <3>1. Reads[next] \in Texts
      BY <1>0, <1>6, EnvPlace DEF ReadVariable, Texts
    <3> QED BY <1>0, <2>1, <2>3, <3>1, ErrorFails DEF Failures
  <2>4. pc = "env"
    BY <1>6 DEF ReadVariable
  <2> QED BY <1>6, <2>2, <2>3, <2>4 DEF ReadVariable, End
<1>7. CASE Completions
  <2>1. pc \in Before /\ sc.command \in Shells
    BY <1>7 DEF Completions, Before, PlaceInv
  <2>2. CASE /\ out' = Append(out, Line("Plain", "plain", "script"))
             /\ code' = "Success" /\ pc' = Outcome
    <3>1. out' = Append(out, Printed("Plain", "script")) /\ "script" \in Texts
      BY <2>2 DEF Printed, Texts, Unreported
    <3>2. Adds(Said \cup {"Plain"})
      BY <1>0, <2>1, <3>1, ReporterFacts DEF Adds
    <3> QED BY <2>1, <2>2, <3>2 DEF Shape, Succeeds
  <2>3. CASE Report("Error", "writing completion script", Outcome) /\ code' = "Io"
    BY <1>0, <2>1, <2>3, ErrorFails DEF Texts, Failures
  <2>4. CASE pc' = "aborted" /\ out' = out /\ code' = code
    BY <2>1, <2>4 DEF Shape, Aborts
  <2> QED BY <1>7, <2>2, <2>3, <2>4 DEF Completions, End
<1>8. CASE Say1 \/ ShowProgress
  <2>1. pc \in Before /\ code' = code /\ "run" \in Before
    BY <1>8 DEF Say1, ShowProgress, Running, Before
  <2>2. CASE pc' = pc /\ out' = out
    BY <2>1, <2>2 DEF Shape, GoesOn, Adds
  <2>3. ASSUME NEW k \in Said, Report(k, "none", "run") PROVE Shape
    <3>1. \/ pc' = "run" /\ Adds(Said)
          \/ pc' = "aborted" /\ out' = out /\ ~sc.flags.quiet
      BY <1>0, <2>3, ReportAdds
    <3> QED BY <1>0, <2>1, <3>1 DEF Shape, GoesOn, Aborts
  <2>4. CASE Say1
    <3>1. Current.kind \in Said
      BY <2>4, CurrentEntry DEF Say1
    <3> QED BY <2>2, <2>3, <2>4, <3>1 DEF Say1
  <2>5. CASE ShowProgress
    BY <1>0, <2>2, <2>3, <2>5 DEF ShowProgress
  <2> QED BY <1>8, <2>4, <2>5
<1>9. CASE MayEnd
  <2>1. pc = "run" /\ pc \in Before /\ Current \in EntrySet /\ Current.do = "end"
    BY <1>9, CurrentEntry DEF MayEnd, Running, Before
  <2>2. CASE pc' = "run" /\ out' = out /\ code' = code
    BY <2>1, <2>2 DEF Shape, GoesOn, Adds
  <2>3. CASE Current.kind = "none" /\ pc' = Outcome /\ out' = out /\ code' = Current.code
    <3>1. Current.code = "Success"
      BY <2>1, <2>3 DEF EntrySet
    <3> QED BY <2>1, <2>3, <3>1 DEF Shape, Succeeds, Adds
  <2>4. CASE /\ Current.kind # "none" /\ Report(Current.kind, "none", Outcome)
             /\ code' = Current.code
    <3>1. CASE Current.code = "Success"
      <4>1. Current.kind = "Message" /\ "Message" \in Said
        BY <2>1, <2>4, <3>1 DEF EntrySet, Failures, Said, EventKinds
      <4>2. \/ pc' = Outcome /\ Adds(Said)
            \/ pc' = "aborted" /\ out' = out /\ ~sc.flags.quiet
        BY <1>0, <2>4, <4>1, ReportAdds
      <4> QED BY <2>1, <2>4, <3>1, <4>2 DEF Shape, Succeeds, Aborts, Adds
    <3>2. CASE Current.code # "Success"
      <4>1. Current.kind \in {"Error", "Message"} /\ Current.code \in Failures
        BY <2>1, <2>4, <3>2 DEF EntrySet
      <4> QED BY <1>0, <2>1, <2>4, <4>1, ErrorFails
    <3> QED BY <3>1, <3>2
  <2> QED BY <1>9, <2>1, <2>2, <2>3, <2>4 DEF MayEnd, End
<1>10. CASE Complete
  <2>1. pc \in Before
    BY <1>10 DEF Complete, Before
  <2> QED BY <1>10, <2>1 DEF Complete, End, Shape, Succeeds, Adds
<1>11. CASE ReportOutcome
  <2>1. /\ pc = "outcome" /\ code' = code /\ ci_mode(reporter)
        /\ Report("Outcome", code, "exited")
    BY <1>11 DEF ReportOutcome, EndInv
  <2>2. "Outcome" \notin Dropped(reporter, json) /\ ~sc.flags.quiet
    BY <1>0, <2>1, ReporterFacts
  <2>3. \/ pc' = "exited" /\ out' = Append(out, Line("Outcome", Form, code))
        \/ pc' = "aborted" /\ out' = out
    BY <1>0, <2>1, <2>2, ReportEffect
  <2> QED BY <2>1, <2>2, <2>3 DEF Shape, Closes, Aborts, Printed, Unreported
<1>12. CASE MayPanic
  <2>1. /\ pc \in Before /\ "run" \in Before /\ Current.when # "none"
        /\ pc' = IF sc.fatal = Current.when THEN "aborted" ELSE "run"
        /\ out' = out /\ code' = code
    BY <1>12, CurrentEntry DEF MayPanic, Running, Before
  <2>2. CASE sc.fatal = Current.when
    BY <2>1, <2>2 DEF Shape, Aborts
  <2>3. CASE sc.fatal # Current.when
    BY <2>1, <2>3 DEF Shape, GoesOn, Adds
  <2> QED BY <2>2, <2>3
<1>13. CASE RunTools
  <2>1. /\ pc \in Before /\ pc' \in Before /\ code' = code
        /\ out' = out \/ out' = Append(out, Line("Tool", "plain", "none"))
    BY <1>13 DEF RunTools, Running, Before
  <2>2. Line("Tool", "plain", "none") = Printed("Tool", "none")
    BY DEF Printed, Unreported
  <2>3. Adds(Said \cup {"Tool"})
    BY <1>0, <2>1, <2>2, ReporterFacts DEF Adds
  <2> QED BY <2>1, <2>3 DEF Shape, GoesOn
<1> QED BY <1>1, <1>2, <1>3, <1>4, <1>5, <1>6, <1>7, <1>8, <1>9, <1>10, <1>11, <1>12, <1>13
        DEF Next

(* The scenario is fixed, and with it all that is derived from it.         *)
LEMMA ScenarioFixed ==
  ASSUME [Next]_vars
  PROVE  /\ sc' = sc /\ reporter' = reporter /\ json' = json /\ Form' = Form
         /\ Outcome' = Outcome /\ Reads' = Reads
         /\ \A i : Faulty(i)' = Faulty(i)
<1>1. sc' = sc
  BY DEF Next, vars, CloseOutput, Start, RedPill, Primer, Choose, ReadVariable,
         Completions, Say1, MayEnd, ShowProgress, MayPanic, RunTools, Complete,
         ReportOutcome, Over
<1> QED BY <1>1 DEF reporter, json, Form, Outcome, Reads, Faulty

(* A line has its kind, its form and what it names.                        *)
LEMMA PrintedTyped ==
  ASSUME NEW k \in AllKinds, NEW n \in Texts
  PROVE  /\ Printed(k, n) \in LineSet /\ Printed(k, n).kind = k /\ Printed(k, n).names = n
         /\ k \notin Unreported => Printed(k, n).form = Form
BY DEF Printed, Line, LineSet, Form

(* A line added is the last one.                                           *)
LEMMA Appended ==
  ASSUME out \in Seq(LineSet), NEW l \in LineSet, out' = Append(out, l)
  PROVE  /\ out' \in Seq(LineSet) /\ Len(out) \in Nat /\ Len(out') = Len(out) + 1
         /\ \A i \in 1 .. Len(out) : out'[i] = out[i]
         /\ out'[Len(out')] = l
OBVIOUS

(* The line added is of an allowed kind, printed, and in the right form.   *)
LEMMA Grows ==
  ASSUME out \in Seq(LineSet), NEW K \in SUBSET AllKinds, Adds(K), out' # out
  PROVE  /\ out' \in Seq(LineSet) /\ Len(out) \in Nat /\ Len(out') = Len(out) + 1
         /\ \A i \in 1 .. Len(out) : out'[i] = out[i]
         /\ out'[Len(out')].kind \in K
         /\ out'[Len(out')].kind \notin Dropped(reporter, json)
         /\ out'[Len(out')].kind = "Plain" => ~sc.flags.quiet \/ sc.command \in Shells
         /\ out'[Len(out')].kind \notin Unreported => out'[Len(out')].form = Form
<1>1. PICK k \in K, n \in Texts :
        /\ k \notin Dropped(reporter, json)
        /\ k = "Plain" => ~sc.flags.quiet \/ sc.command \in Shells
        /\ out' = Append(out, Printed(k, n))
  BY DEF Adds
<1>2. k \in AllKinds
  OBVIOUS
<1>3. /\ Printed(k, n) \in LineSet /\ Printed(k, n).kind = k
      /\ k \notin Unreported => Printed(k, n).form = Form
  BY <1>2, PrintedTyped
<1> QED BY <1>1, <1>3, Appended

(* A step adds at most one line.                                           *)
LEMMA ShapeAdds ==
  ASSUME Inv, Shape
  PROVE  /\ out' = out \/ Adds(AllKinds)
         /\ pc' \in Before \cup {"outcome", "exited", "aborted"}
         /\ code' \in {"none", "Success", "Generic"} \cup Failures
<1> USE DEF Inv, TypeInv
<1>1. CASE Stays
  BY <1>1 DEF Stays
<1>2. CASE GoesOn
  BY <1>2 DEF GoesOn, Adds, AllKinds, Unreported, Said
<1>3. CASE Aborts
  BY <1>3 DEF Aborts
<1>4. CASE Succeeds
  BY <1>4 DEF Succeeds, Adds, AllKinds, Unreported, Said, Outcome
<1>5. CASE FailsWith
  BY <1>5 DEF FailsWith, Adds, AllKinds, Unreported, EventKinds, Outcome
<1>6. CASE Closes
  <2>1. ci_mode(reporter) /\ "Outcome" \notin Dropped(reporter, json)
    BY <1>6, ReporterFacts DEF Closes, EndInv
  <2>2. "Outcome" \in AllKinds /\ code \in Texts
    BY DEF AllKinds, EventKinds, Texts
  <2> QED BY <1>6, <2>1, <2>2 DEF Closes, Adds
<1> QED BY <1>1, <1>2, <1>3, <1>4, <1>5, <1>6 DEF Shape

(* The log stays a sequence of lines.                                      *)
LEMMA OutTyped == ASSUME Inv, Shape PROVE out' \in Seq(LineSet)
<1>1. CASE out' = out
  BY <1>1 DEF Inv, TypeInv
<1>2. CASE out' # out
  BY <1>2, ShapeAdds, Grows DEF Inv, TypeInv
<1> QED BY <1>1, <1>2

(* The part of StreamInv that is about the log.                            *)
StreamOut ==
  /\ \A i \in 1 .. Len(out) :
       out[i].kind \in Unreported \/ out[i].form = IF json THEN "json" ELSE "text"
  /\ sc.flags.quiet /\ sc.command \notin Shells =>
       /\ \A i \in 1 .. Len(out) : out[i].kind = "Tool"
       /\ pc = "aborted" => sc.fatal # "none"

(* No shape of a step adds a line of another form, or one under -q.        *)
LEMMA StreamOutStep ==
  ASSUME Inv, Shape, sc' = sc, json' = json PROVE StreamOut'
<1> USE DEF Inv, TypeInv, StreamInv
<1>1. out' # out =>
        /\ Len(out) \in Nat /\ Len(out') = Len(out) + 1
        /\ \A i \in 1 .. Len(out) : out'[i] = out[i]
        /\ out'[Len(out')].kind \in AllKinds
        /\ out'[Len(out')].kind \notin Dropped(reporter, json)
        /\ out'[Len(out')].kind = "Plain" => ~sc.flags.quiet \/ sc.command \in Shells
        /\ out'[Len(out')].kind \notin Unreported => out'[Len(out')].form = Form
  BY ShapeAdds, Grows
<1>2. \A i \in 1 .. Len(out') : out'[i].kind \in Unreported \/ out'[i].form = Form
  <2>1. CASE out' = out
    BY <2>1 DEF Form
  <2>2. CASE out' # out
    <3> SUFFICES ASSUME NEW i \in 1 .. Len(out')
                 PROVE  out'[i].kind \in Unreported \/ out'[i].form = Form
      OBVIOUS
    <3>1. i \in 1 .. Len(out) \/ i = Len(out')
      BY <1>1, <2>2
    <3> QED BY <1>1, <2>2, <3>1 DEF Form
  <2> QED BY <2>1, <2>2
<1>3. ASSUME sc.flags.quiet, sc.command \notin Shells
      PROVE  /\ \A i \in 1 .. Len(out') : out'[i].kind = "Tool"
             /\ pc' = "aborted" => sc.fatal # "none"
  <2>1. out' # out => out'[Len(out')].kind = "Tool"
    BY <1>1, <1>3, ReporterFacts DEF AllKinds, Unreported
  <2>2. ASSUME NEW i \in 1 .. Len(out') PROVE out'[i].kind = "Tool"
    <3>1. CASE out' = out
      BY <1>3, <3>1
    <3>2. CASE out' # out
      <4>1. i \in 1 .. Len(out) \/ i = Len(out')
        BY <1>1, <3>2
      <4> QED BY <1>1, <1>3, <2>1, <3>2, <4>1
    <3> QED BY <3>1, <3>2
  <2>3. pc' = "aborted" => sc.fatal # "none"
    BY <1>3 DEF Shape, Stays, GoesOn, Aborts, Succeeds, FailsWith, Closes, Before, Outcome
  <2> QED BY <2>2, <2>3
<1> QED BY <1>2, <1>3 DEF StreamOut, Form

(* A line more changes nothing that is said of the lines before it.        *)
LEMMA KindsGrow ==
  ASSUME out \in Seq(LineSet), NEW K \in SUBSET AllKinds, Adds(K)
  PROVE  /\ Len(out) \in Nat /\ Len(out') \in {Len(out), Len(out) + 1}
         /\ \A i \in 1 .. Len(out) : out'[i] = out[i]
         /\ \A i \in 1 .. Len(out') : i > Len(out) => out'[i].kind \in K
         /\ out' # out => Len(out') >= 1 /\ out'[Len(out')].kind \in K
<1>1. CASE out' = out
  BY <1>1
<1>2. CASE out' # out
  <2>1. /\ Len(out) \in Nat /\ Len(out') = Len(out) + 1
        /\ \A i \in 1 .. Len(out) : out'[i] = out[i]
        /\ out'[Len(out')].kind \in K
    BY <1>2, Grows
  <2>2. \A i \in 1 .. Len(out') : i > Len(out) => i = Len(out')
    BY <2>1
  <2> QED BY <2>1, <2>2
<1> QED BY <1>1, <1>2

(* The exit code is explained by the step that sets it, and what explains  *)
(* it is still there after the outcome line.                               *)
LEMMA EndStep ==
  ASSUME Inv, Shape, sc' = sc, reporter' = reporter
  PROVE  EndInv'
<1> USE DEF Inv, TypeInv
<1>0. /\ out \in Seq(LineSet) /\ Len(out) \in Nat
      /\ Said \cup {"Tool"} \in SUBSET AllKinds /\ Said \cup {"Plain"} \in SUBSET AllKinds
      /\ {"Error", "Message", "Plain"} \in SUBSET AllKinds
      /\ ci_mode(reporter)' = ci_mode(reporter)
      /\ "outcome" \notin Before /\ "exited" \notin Before /\ "aborted" \notin Before
  BY DEF Said, AllKinds, Unreported, EventKinds, ci_mode, Before
<1>1. CASE Stays
  BY <1>0, <1>1 DEF Stays, EndInv, NoOutcome, Explains
<1>2. CASE GoesOn
  <2>1. /\ \A i \in 1 .. Len(out) : out'[i] = out[i]
        /\ \A i \in 1 .. Len(out') : i > Len(out) => out'[i].kind \in Said \cup {"Tool"}
        /\ Len(out') \in Nat
    BY <1>0, <1>2, KindsGrow DEF GoesOn
  <2>2. \A i \in 1 .. Len(out') : out'[i].kind \notin {"Error", "Outcome"}
    BY <1>0, <1>2, <2>1 DEF EndInv, GoesOn, Said
  <2>3. pc' \in Before /\ code' = "none"
    BY <1>2 DEF GoesOn, EndInv
  <2> QED BY <1>0, <2>2, <2>3 DEF EndInv
<1>3. CASE Aborts
  BY <1>0, <1>3 DEF Aborts, EndInv
<1>4. CASE Succeeds
  <2>1. /\ \A i \in 1 .. Len(out) : out'[i] = out[i]
        /\ \A i \in 1 .. Len(out') : i > Len(out) => out'[i].kind \in Said \cup {"Plain"}
        /\ Len(out') \in Nat
    BY <1>0, <1>4, KindsGrow DEF Succeeds
  <2>2. \A i \in 1 .. Len(out') : out'[i].kind \notin {"Error", "Outcome"}
    BY <1>0, <1>4, <2>1 DEF EndInv, Succeeds, Said
  <2>3. /\ pc' = IF ci_mode(reporter) THEN "outcome" ELSE "exited"
        /\ code' = "Success"
    BY <1>4 DEF Succeeds, Outcome
  <2> QED BY <1>0, <2>2, <2>3 DEF EndInv, NoOutcome, Explains
<1>5. CASE FailsWith
  <2>1. /\ \A i \in 1 .. Len(out) : out'[i] = out[i]
        /\ \A i \in 1 .. Len(out') :
             i > Len(out) => out'[i].kind \in {"Error", "Message", "Plain"}
        /\ out' # out => Len(out') >= 1 /\ out'[Len(out')].kind \in {"Error", "Message", "Plain"}
        /\ Len(out') \in Nat
    BY <1>0, <1>5, KindsGrow DEF FailsWith
  <2>2. \A i \in 1 .. Len(out') : out'[i].kind # "Outcome"
    BY <1>0, <1>5, <2>1 DEF EndInv, FailsWith
  <2>3. /\ pc' = IF ci_mode(reporter) THEN "outcome" ELSE "exited"
        /\ code' # "Success" /\ (~sc.flags.quiet => out' # out)
    BY <1>5 DEF FailsWith, Outcome, Failures
  <2>4. Explains(Len(out))'
    BY <2>1, <2>3 DEF Explains
  <2> QED BY <1>0, <2>2, <2>3, <2>4 DEF EndInv, NoOutcome
<1>6. CASE Closes
  <2>1. /\ ci_mode(reporter) /\ NoOutcome(Len(out)) /\ Explains(Len(out))
        /\ pc' = "exited" /\ code' = code
    BY <1>6 DEF Closes, EndInv
  <2>2. /\ Printed("Outcome", code) \in LineSet
        /\ Printed("Outcome", code).kind = "Outcome" /\ Printed("Outcome", code).names = code
    BY PrintedTyped DEF AllKinds, EventKinds, Texts
  <2>3. /\ Len(out') = Len(out) + 1 /\ Len(out') >= 1 /\ Len(out') - 1 = Len(out)
        /\ \A i \in 1 .. Len(out) : out'[i] = out[i]
        /\ out'[Len(out')].kind = "Outcome" /\ out'[Len(out')].names = code
    BY <1>0, <1>6, <2>2, Appended DEF Closes
  <2>4. \A i \in 1 .. Len(out) : out'[i].kind # "Outcome"
    BY <2>1, <2>3 DEF NoOutcome
  <2>5. Explains(Len(out) - 1)'
    <3>1. CASE code = "Success"
      BY <1>0, <2>1, <2>3, <3>1 DEF Explains
    <3>2. CASE code # "Success"
      <4>1. ~sc.flags.quiet => Len(out) >= 1 /\ out[Len(out)].kind \in {"Error", "Message", "Plain"}
        BY <2>1, <3>2 DEF Explains
      <4> QED BY <1>0, <2>1, <2>3, <3>2, <4>1 DEF Explains
    <3> QED BY <3>1, <3>2
  <2> QED BY <1>0, <2>1, <2>3, <2>4, <2>5 DEF EndInv, NoOutcome
<1> QED BY <1>1, <1>2, <1>3, <1>4, <1>5, <1>6 DEF Shape

(* A report goes on to the step it was given, or aborts.                   *)
LEMMA ReportsTo ==
  ASSUME NEW k, NEW n, NEW then, Report(k, n, then)
  PROVE  pc' \in {then, "aborted"}
BY DEF Report, Println

(* The variables all read, the operation is one of the two.                *)
LEMMA OperationRuns ==
  ASSUME Inv, ReadVariable, pc' = "run"
  PROVE  /\ sc.env["OPERATION"] \in DOMAIN Reports
         /\ next = Len(Reads) /\ Accepts(Reads[next], sc.env[Reads[next]])
<1>1. /\ pc = "env" /\ next \in 1 .. Len(Reads) /\ sc \in Scenarios
      /\ sc.env["OPERATION"] \in Operations /\ sc.command = "none" /\ sc.flags.ci
  BY EnvPlace, FlagsKnown DEF ReadVariable, Inv, TypeInv
<1>2. ~Report("Error", Reads[next], Outcome)
  BY ReportsTo DEF Outcome
<1>3. /\ Accepts(Reads[next], sc.env[Reads[next]]) /\ ~(next < Len(Reads))
  BY <1>1, <1>2 DEF ReadVariable
<1>4. next = Len(Reads) /\ Reads[1] = "OPERATION" /\ Len(Reads) \in Nat \ {0}
  BY <1>1, <1>3, ReadsTyped
<1>5. sc.env["OPERATION"] \in {"encrypt", "decrypt"}
  <2> SUFFICES ASSUME sc.env["OPERATION"] \notin {"encrypt", "decrypt"} PROVE FALSE
    OBVIOUS
  <2>1. Len(Reads) = 1
    BY <1>1, ReadsTyped
  <2>2. Accepts("OPERATION", sc.env["OPERATION"])
    BY <1>3, <1>4, <2>1
  <2> QED BY <1>1, <2>2 DEF Accepts, HasValue, Operations
<1> QED BY <1>3, <1>4, <1>5, ReportsTyped

(* What a command leaves alone while it runs.                              *)
InCommand == Say1 \/ MayEnd \/ ShowProgress \/ MayPanic \/ RunTools \/ Complete
Elsewhere == CloseOutput \/ RedPill \/ Primer \/ Completions \/ ReportOutcome \/ Over

(* Where the steps of a command, and those outside of one, lead.           *)
LEMMA WhereTo ==
  /\ InCommand => pc = "run" /\ pc' \in {"run", "outcome", "exited", "aborted"}
  /\ Elsewhere => pc' \in {pc, "choose", "outcome", "exited", "aborted"}
  /\ Elsewhere /\ pc' = "choose" => pc \in {"primer", "choose"}
<1>1. Outcome \in {"outcome", "exited"}
  BY DEF Outcome
<1>2. InCommand => pc = "run" /\ pc' \in {"run", "outcome", "exited", "aborted"}
  <2>1. ASSUME Say1 PROVE pc = "run" /\ pc' \in {"run", "aborted"}
    BY <2>1, ReportsTo DEF Say1, Running
  <2>2. ASSUME MayEnd PROVE pc = "run" /\ pc' \in {"run", "aborted", Outcome}
    BY <2>2, ReportsTo DEF MayEnd, Running
  <2>3. ASSUME ShowProgress PROVE pc = "run" /\ pc' \in {"run", "aborted"}
    BY <2>3, ReportsTo DEF ShowProgress, Running
  <2>4. ASSUME Complete PROVE pc = "run" /\ pc' = Outcome
    BY <2>4 DEF Complete
  <2>5. ASSUME MayPanic \/ RunTools PROVE pc = "run" /\ pc' \in {"run", "aborted"}
    BY <2>5 DEF MayPanic, RunTools, Running
  <2> QED BY <1>1, <2>1, <2>2, <2>3, <2>4, <2>5 DEF InCommand
<1>3. /\ Elsewhere => pc' \in {pc, "choose", "outcome", "exited", "aborted"}
      /\ Elsewhere /\ pc' = "choose" => pc \in {"primer", "choose"}
  <2>1. ASSUME CloseOutput \/ Over PROVE pc' = pc
    BY <2>1 DEF CloseOutput, Over, vars
  <2>2. ASSUME RedPill PROVE pc' \in {"exited", "aborted"}
    BY <2>2 DEF RedPill, Println
  <2>3. ASSUME Primer PROVE pc = "primer" /\ pc' \in {"choose", "aborted"}
    BY <2>3, ReportsTo DEF Primer
  <2>4. ASSUME Completions PROVE pc' \in {Outcome, "aborted"}
    BY <2>4, ReportsTo DEF Completions
  <2>5. ASSUME ReportOutcome PROVE pc' \in {"exited", "aborted"}
    BY <2>5, ReportsTo DEF ReportOutcome
  <2> QED BY <1>1, <2>1, <2>2, <2>3, <2>4, <2>5 DEF Elsewhere
<1> QED BY <1>2, <1>3

(* The part of StreamInv that is about the bar.                            *)
BarInv == bar => ~sc.flags.quiet /\ ~json /\ ~sc.flags.ci

(* The places, the command and the bar, action by action.                  *)
LEMMA ControlStep ==
  ASSUME Inv, Next, sc' = sc, json' = json
  PROVE  /\ bar' \in BOOLEAN /\ BarInv' /\ PlaceInv'
         /\ command' \in DOMAIN Reports \cup {"none"} /\ next' \in Nat \ {0}
<1> USE DEF Inv, TypeInv, PlaceInv
<1>0. /\ sc.flags.quiet \in BOOLEAN /\ sc.flags.ci \in BOOLEAN /\ json \in BOOLEAN
      /\ bar \in BOOLEAN /\ BarInv /\ "none" \notin DOMAIN Reports
  BY ReportsTyped, FlagsKnown DEF StreamInv, BarInv, json
<1>1. CASE InCommand
  <2>1. pc = "run" /\ pc' \in {"run", "outcome", "exited", "aborted"}
    BY <1>1, WhereTo
  <2>2. command' = command /\ next' \in {next, next + 1}
    BY <1>1 DEF InCommand, Say1, MayEnd, ShowProgress, MayPanic, RunTools, Complete
  <2>3. bar' = bar \/ (bar' = TRUE /\ show_progress /\ ~ci_mode(reporter))
    BY <1>1 DEF InCommand, Say1, MayEnd, ShowProgress, MayPanic, RunTools, Complete
  <2>4. show_progress /\ ~ci_mode(reporter) => ~sc.flags.quiet /\ ~json /\ ~sc.flags.ci
    BY <1>0, ReporterFacts DEF show_progress
  <2>5. bar' \in BOOLEAN /\ BarInv'
    <3>1. CASE bar' = bar
      BY <1>0, <3>1 DEF BarInv
    <3>2. CASE bar' = TRUE /\ show_progress /\ ~ci_mode(reporter)
      BY <1>0, <2>4, <3>2 DEF BarInv
    <3> QED BY <2>3, <3>1, <3>2
  <2> QED BY <2>1, <2>2, <2>5
<1>2. CASE Elsewhere
  <2>1. bar' = bar /\ command' = command /\ next' = next
    BY <1>2 DEF Elsewhere, CloseOutput, RedPill, Primer, Completions, ReportOutcome, Over, vars
  <2>2. pc' \in {pc, "choose", "outcome", "exited", "aborted"}
    BY <1>2, WhereTo
  <2> QED BY <1>0, <2>1, <2>2 DEF BarInv
<1>3. CASE Start
  <2>1. /\ bar' = bar /\ command' = command /\ next' = next /\ pc' \in {"egg", "primer"}
        /\ pc' = "egg" => ~sc.flags.ci
    BY <1>3 DEF Start
  <2> QED BY <1>0, <2>1 DEF BarInv
<1>4. CASE Choose
  <2>1. bar' = bar /\ next' = next
    BY <1>4 DEF Choose
  <2>2. \/ command' = sc.command /\ sc.command \in DOMAIN Reports /\ pc' = "run"
        \/ command' = command /\ sc.command \in Shells /\ pc' = "script"
        \/ command' = command /\ sc.command = "none" /\ sc.flags.ci /\ pc' = "env"
        \/ command' = command /\ Report("Error", "no subcommand", Outcome)
    BY <1>4 DEF Choose
  <2>3. Report("Error", "no subcommand", Outcome) =>
          pc' \in {"outcome", "exited", "aborted"}
    BY ReportsTo DEF Outcome
  <2> QED BY <1>0, <2>1, <2>2, <2>3 DEF BarInv
<1>5. CASE ReadVariable
  <2>1. bar' = bar /\ pc = "env" /\ sc.command = "none" /\ sc.flags.ci
    BY <1>5 DEF ReadVariable
  <2>2. \/ Report("Error", Reads[next], Outcome) /\ command' = command /\ next' = next
        \/ next' = next + 1 /\ pc' = pc /\ command' = command
        \/ command' = sc.env["OPERATION"] /\ next' = 1 /\ pc' = "run"
    BY <1>5 DEF ReadVariable
  <2>3. CASE Report("Error", Reads[next], Outcome) /\ command' = command /\ next' = next
    <3>1. pc' \in {"outcome", "exited", "aborted"}
      BY <2>3, ReportsTo DEF Outcome
    <3> QED BY <1>0, <2>1, <2>3, <3>1 DEF BarInv
  <2>4. CASE next' = next + 1 /\ pc' = pc /\ command' = command
    BY <1>0, <2>1, <2>4 DEF BarInv
  <2>5. CASE command' = sc.env["OPERATION"] /\ next' = 1 /\ pc' = "run"
    <3>1. sc.env["OPERATION"] \in DOMAIN Reports
      BY <1>5, <2>5, OperationRuns
    <3> QED BY <1>0, <2>1, <2>5, <3>1 DEF BarInv
  <2> QED BY <2>2, <2>3, <2>4, <2>5
<1> QED BY <1>1, <1>2, <1>3, <1>4, <1>5 DEF Next, InCommand, Elsewhere

(* The pool keeps its size, and a mode is resolved from it.                *)
LEMMA PoolStep == ASSUME Inv, Next, sc' = sc PROVE PoolInv'
<1> USE DEF Inv, PoolInv
<1>1. CASE Start
  BY <1>1 DEF Start
<1>2. CASE Say1
  <2>1. /\ pool' = pool /\ pc # "start" /\ pc' # "start"
        /\ \/ threads' = threads
           \/ \E a \in TransferArgs :
                threads' = [n |-> resolve(sc.machine, pool, a), args |-> a]
    BY <1>2, WhereTo DEF Say1, InCommand
  <2> QED BY <2>1
<1>3. CASE Next /\ ~Start /\ ~Say1
  <2>1. pool' = pool /\ threads' = threads
    BY <1>3 DEF Next, CloseOutput, RedPill, Primer, Choose, ReadVariable, Completions,
            MayEnd, ShowProgress, MayPanic, RunTools, Complete, ReportOutcome, Over, vars
  <2>2. pc # "start" => pc' # "start"
    <3>1. CASE InCommand \/ Elsewhere
      BY <3>1, WhereTo
    <3>2. \A n : Report("Error", n, Outcome) => pc' # "start"
      BY ReportsTo DEF Outcome
    <3>3. CASE Choose
      BY <3>2, <3>3 DEF Choose
    <3>4. CASE ReadVariable
      BY <3>2, <3>4 DEF ReadVariable
    <3> QED BY <1>3, <3>1, <3>3, <3>4 DEF Next, InCommand, Elsewhere
  <2>3. CASE CloseOutput \/ Over
    BY <2>1, <2>3 DEF CloseOutput, Over, vars
  <2>4. CASE ~(CloseOutput \/ Over)
    <3>1. pc # "start"
      BY <1>3, <2>4 DEF Next, RedPill, Primer, Choose, ReadVariable, Completions, MayEnd,
              Running, ShowProgress, MayPanic, RunTools, Complete, ReportOutcome
    <3> QED BY <2>1, <2>2, <3>1
  <2> QED BY <2>3, <2>4
<1> QED BY <1>1, <1>2, <1>3

(* Only a line of kind Error is an error.                                  *)
LEMMA NoNewError ==
  ASSUME out \in Seq(LineSet), NEW K \in SUBSET (AllKinds \ {"Error"}), Adds(K),
         NEW e \in 1 .. Len(out'), out'[e].kind = "Error"
  PROVE  e \in 1 .. Len(out) /\ out'[e] = out[e]
<1>1. K \in SUBSET AllKinds
  OBVIOUS
<1>2. /\ \A i \in 1 .. Len(out) : out'[i] = out[i]
      /\ \A i \in 1 .. Len(out') : i > Len(out) => out'[i].kind \in K
      /\ Len(out) \in Nat
  BY <1>1, KindsGrow
<1>3. ~(e > Len(out))
  BY <1>2
<1> QED BY <1>2, <1>3

(* EnvInv where there is no subcommand.                                    *)
EnvBody ==
  /\ pc \in {"start", "primer", "choose"} => command = "none" /\ next = 1
  /\ pc = "env" => command = "none" /\ next \in 1 .. Len(Reads)
  /\ command = "none" =>
       /\ \A i \in 1 .. Len(Reads) : i < next => ~Faulty(i)
       /\ \A e \in 1 .. Len(out) : out[e].kind = "Error" =>
            next \in 1 .. Len(Reads) /\ Faulty(next) /\ out[e].names = Reads[next]
  /\ command # "none" => \A i \in 1 .. Len(Reads) : ~Faulty(i)

(* A variable is passed only when it is usable, and reported only when not.*)
LEMMA EnvStep ==
  ASSUME Inv, Next, sc' = sc, Reads' = Reads, \A i : Faulty(i)' = Faulty(i)
  PROVE  EnvInv'
<1> USE DEF Inv, TypeInv
<1> SUFFICES ASSUME sc.command = "none", sc.flags.ci PROVE EnvBody'
  BY DEF EnvInv, EnvBody
<1>0. EnvBody /\ "none" \notin Shells /\ "none" \notin DOMAIN Reports
  BY ReportsTyped DEF EnvInv, EnvBody, Shells
<1>1. CASE InCommand
  <2>1. pc = "run" /\ pc' \in {"run", "outcome", "exited", "aborted"} /\ command # "none"
    BY <1>1, WhereTo DEF PlaceInv
  <2>2. command' = command
    BY <1>1 DEF InCommand, Say1, MayEnd, ShowProgress, MayPanic, RunTools, Complete
  <2> QED BY <1>0, <2>1, <2>2 DEF EnvBody
<1>2. CASE Elsewhere
  <2>1. /\ pc' \in {pc, "choose", "outcome", "exited", "aborted"}
        /\ pc' = "choose" => pc \in {"primer", "choose"}
        /\ command' = command /\ next' = next
    BY <1>2, WhereTo DEF Elsewhere, CloseOutput, RedPill, Primer, Completions, ReportOutcome,
                         Over, vars
  <2>2. pc # "egg" /\ pc # "script"
    BY <1>0 DEF PlaceInv
  <2>3. Adds(AllKinds \ {"Error"})
    <3>1. CASE CloseOutput \/ Over
      BY <3>1 DEF CloseOutput, Over, vars, Adds
    <3>2. CASE Primer
      <4>1. {"Narration"} \in SUBSET EventKinds /\ "none" \in Texts
        BY DEF EventKinds, Texts
      <4>2. out' = out \/ Adds({"Narration"})
        BY <3>2, <4>1, ReportAdds DEF Primer
      <4> QED BY <4>2 DEF Adds, AllKinds, EventKinds
    <3>3. CASE ReportOutcome
      <4>1. {"Outcome"} \in SUBSET EventKinds /\ code \in Texts
        BY DEF EventKinds, Texts
      <4>2. out' = out \/ Adds({"Outcome"})
        BY <3>3, <4>1, ReportAdds DEF ReportOutcome
      <4> QED BY <4>2 DEF Adds, AllKinds, EventKinds
    <3> QED BY <1>2, <2>2, <3>1, <3>2, <3>3 DEF Elsewhere, RedPill, Completions
  <2>4. \A e \in 1 .. Len(out') :
          out'[e].kind = "Error" => e \in 1 .. Len(out) /\ out'[e] = out[e]
    BY <2>3, NoNewError
  <2> QED BY <1>0, <2>1, <2>4 DEF EnvBody
<1>3. CASE Start
  <2>1. /\ pc = "start" /\ pc' \in {"egg", "primer"}
        /\ command' = command /\ next' = next /\ out' = out
    BY <1>3 DEF Start
  <2> QED BY <1>0, <2>1 DEF EnvBody
<1>4. CASE Choose
  <2>1. /\ pc = "choose" /\ pc' = "env" /\ command' = command /\ next' = next /\ out' = out
    BY <1>0, <1>4 DEF Choose
  <2>2. Len(Reads) \in Nat \ {0}
    BY FlagsKnown, ReadsTyped
  <2> QED BY <1>0, <2>1, <2>2 DEF EnvBody
<1>5. CASE ReadVariable
  <2>1. /\ pc = "env" /\ next \in 1 .. Len(Reads) /\ Reads[next] \in Names /\ command = "none"
        /\ Len(Reads) \in Nat
    BY <1>0, <1>5, EnvPlace, FlagsKnown, ReadsTyped DEF ReadVariable, EnvBody
  <2>2. Accepts(Reads[next], sc.env[Reads[next]]) <=> ~Faulty(next)
    BY <2>1, FlagsKnown, UsableIsAccepted DEF Faulty
  <2>3. CASE ~Accepts(Reads[next], sc.env[Reads[next]])
    <3>1. /\ Report("Error", Reads[next], Outcome) /\ command' = command /\ next' = next
      BY <1>5, <2>3 DEF ReadVariable
    <3>2. pc' \in {"outcome", "exited", "aborted"}
      BY <3>1, ReportsTo DEF Outcome
    <3>3. \A e \in 1 .. Len(out) : out[e].kind # "Error"
      BY <2>1 DEF EndInv, Before
    <3>4. \/ out' = out
          \/ out' = Append(out, Line("Error", Form, Reads[next]))
      BY <3>1, ReportEffect
    <3>5. Line("Error", Form, Reads[next]) \in LineSet
      BY <2>1, PrintedTyped DEF Printed, AllKinds, Unreported, EventKinds, Texts
    <3>6. \A e \in 1 .. Len(out') : out'[e].kind = "Error" => out'[e].names = Reads[next]
      <4>1. CASE out' = out
        BY <3>3, <4>1
      <4>2. CASE out' = Append(out, Line("Error", Form, Reads[next]))
        <5>1. /\ Len(out) \in Nat /\ Len(out') = Len(out) + 1
              /\ \A i \in 1 .. Len(out) : out'[i] = out[i]
              /\ out'[Len(out')] = Line("Error", Form, Reads[next])
          BY <3>5, <4>2, Appended
        <5> QED BY <3>3, <5>1 DEF Line
      <4> QED BY <3>4, <4>1, <4>2
    <3> QED BY <1>0, <2>1, <2>2, <2>3, <3>1, <3>2, <3>6 DEF EnvBody
  <2>4. CASE Accepts(Reads[next], sc.env[Reads[next]]) /\ next < Len(Reads)
    <3>1. next' = next + 1 /\ pc' = pc /\ out' = out /\ command' = command
      BY <1>5, <2>4 DEF ReadVariable
    <3>2. \A i \in 1 .. Len(Reads) : i < next' => ~Faulty(i)
      BY <1>0, <2>1, <2>2, <2>4, <3>1 DEF EnvBody
    <3>3. \A e \in 1 .. Len(out) : out[e].kind # "Error"
      BY <2>1 DEF EndInv, Before
    <3> QED BY <2>1, <2>4, <3>1, <3>2, <3>3 DEF EnvBody
  <2>5. CASE Accepts(Reads[next], sc.env[Reads[next]]) /\ ~(next < Len(Reads))
    <3>1. pc' = "run" /\ command' = sc.env["OPERATION"]
      BY <1>5, <2>5 DEF ReadVariable
    <3>2. command' # "none"
      BY <1>0, <1>5, <3>1, OperationRuns
    <3>3. \A i \in 1 .. Len(Reads) : ~Faulty(i)
      BY <1>0, <2>1, <2>2, <2>5 DEF EnvBody
    <3> QED BY <3>1, <3>2, <3>3 DEF EnvBody
  <2> QED BY <2>3, <2>4, <2>5
<1> QED BY <1>1, <1>2, <1>3, <1>4, <1>5 DEF Next, InCommand, Elsewhere

-----------------------------------------------------------------------------
(* Before main nothing was printed, read or resolved.                      *)
LEMMA InitInv == Init => Inv
<1> SUFFICES ASSUME Init PROVE Inv
  OBVIOUS
<1> USE DEF Init
<1>1. Len(out) = 0 /\ out \in Seq(LineSet)
  OBVIOUS
<1>2. TypeInv
  <2>1. bar \in BOOLEAN
    OBVIOUS
  <2> QED BY <1>1, <2>1 DEF TypeInv, Before
<1>3. PlaceInv /\ PoolInv
  BY DEF PlaceInv, PoolInv
<1>4. StreamInv
  <2>1. ~bar
    OBVIOUS
  <2> QED BY <1>1, <2>1 DEF StreamInv
<1>5. EndInv
  BY <1>1 DEF EndInv
<1>6. EnvInv
  <2>1. Len(Reads) \in Nat
    BY FlagsKnown, ReadsTyped
  <2> QED BY <1>1, <2>1 DEF EnvInv
<1> QED BY <1>2, <1>3, <1>4, <1>5, <1>6 DEF Inv

(* Every step of the program keeps the invariant.                          *)
LEMMA StepInv == Inv /\ [Next]_vars => Inv'
<1> SUFFICES ASSUME Inv, [Next]_vars PROVE Inv'
  OBVIOUS
<1>1. CASE Next
  <2>1. Shape
    BY <1>1, StepShape
  <2>2. /\ sc' = sc /\ reporter' = reporter /\ json' = json
        /\ Reads' = Reads /\ \A i : Faulty(i)' = Faulty(i)
    BY ScenarioFixed
  <2>3. TypeInv' /\ PlaceInv' /\ BarInv'
    BY <1>1, <2>1, <2>2, OutTyped, ShapeAdds, ControlStep DEF TypeInv, Inv
  <2>4. StreamInv'
    BY <2>1, <2>2, <2>3, StreamOutStep DEF StreamInv, StreamOut, BarInv
  <2>5. PoolInv' /\ EndInv' /\ EnvInv'
    BY <1>1, <2>1, <2>2, PoolStep, EndStep, EnvStep
  <2> QED BY <2>3, <2>4, <2>5 DEF Inv
<1>2. CASE UNCHANGED vars
  BY <1>2 DEF vars, Inv, TypeInv, PlaceInv, PoolInv, StreamInv, EndInv, EnvInv, json, reporter,
              Explains, NoOutcome, Reads, Faulty
<1> QED BY <1>1, <1>2

(* So it holds at every instant of every run.                              *)
LEMMA Invariance == Spec => []Inv
BY InitInv, StepInv, PTL DEF Spec

-----------------------------------------------------------------------------
(* What the program itself prints: under --log-format json only JSON, no   *)
(* bar under --ci, and nothing under -q, where only a panic that has its   *)
(* cause aborts, on whatever path the run ends.                            *)
THEOREM StreamsAreClean == Spec => []StreamsStayClean
<1>1. Inv => StreamsStayClean
  <2> DEFINE own == {i \in 1..Len(out) : out[i].kind # "Tool"}
  <2> SUFFICES ASSUME Inv, ~PrintsDirectly, sc.command \notin Shells
               PROVE  /\ json => ~bar /\ \A i \in own : out[i].form = "json"
                      /\ sc.flags.ci => ~bar
                      /\ sc.flags.quiet =>
                           own = {} /\ ~bar /\ (pc = "aborted" => sc.fatal # "none")
    BY DEF StreamsStayClean
  <2> QED BY DEF Inv, StreamInv, PrintsDirectly, Unreported
<1> QED BY <1>1, Invariance, PTL

(* A --ci log ends with one outcome line that has the exit code, and no    *)
(* other log has one.                                                      *)
THEOREM OutcomeIsLast == Spec => []OutcomeClosesLog
<1>1. Inv => OutcomeClosesLog
  <2> SUFFICES ASSUME Inv, pc = "exited" PROVE OutcomeClosesLog
    BY DEF OutcomeClosesLog
  <2>1. /\ ci_mode(reporter) <=> sc.flags.ci /\ ~sc.flags.quiet
        /\ Len(out) \in Nat
    BY ReporterFacts DEF Inv, TypeInv
  <2>2. CASE ci_mode(reporter)
    <3>1. /\ Len(out) \in 1 .. Len(out) /\ out[Len(out)].kind = "Outcome"
          /\ out[Len(out)].names = code /\ NoOutcome(Len(out) - 1)
      BY <2>1, <2>2 DEF Inv, EndInv
    <3>2. \A i \in 1 .. Len(out) : i = Len(out) \/ i \in 1 .. Len(out) - 1
      BY <2>1
    <3>3. Lines("Outcome") = {Len(out)}
      BY <3>1, <3>2 DEF NoOutcome, Lines
    <3> QED BY <2>1, <2>2, <3>1, <3>3 DEF OutcomeClosesLog
  <2>3. CASE ~ci_mode(reporter)
    <3>1. Lines("Outcome") = {}
      BY <2>3 DEF Inv, EndInv, NoOutcome, Lines
    <3> QED BY <2>1, <2>3, <3>1 DEF OutcomeClosesLog
  <2> QED BY <2>2, <2>3
<1> QED BY <1>1, Invariance, PTL

(* Whatever command fails, wherever, the chosen reporter prints why, and   *)
(* a success is never preceded by an error.                                *)
THEOREM FailuresAreExplained == Spec => []FailureIsExplained
<1>1. Inv => FailureIsExplained
  <2> SUFFICES ASSUME Inv, pc \in {"outcome", "exited"}, ~sc.flags.quiet
               PROVE  FailureIsExplained
    BY DEF FailureIsExplained
  <2> DEFINE said == {i \in 1 .. Len(out) : out[i].kind # "Outcome"}
             last == Len(out) - Cardinality(Lines("Outcome"))
  <2>1. /\ Len(out) \in Nat
        /\ \A i \in 1 .. Len(out) : i = Len(out) \/ i \in 1 .. Len(out) - 1
    BY DEF Inv, TypeInv
  <2>2. last \in {Len(out), Len(out) - 1} /\ Explains(last)
        /\ \A i \in 1 .. Len(out) : i \in 1 .. last \/ out[i].kind = "Outcome"
    <3>1. CASE NoOutcome(Len(out)) /\ Explains(Len(out))
      <4>1. Lines("Outcome") = {}
        BY <3>1 DEF NoOutcome, Lines
      <4>2. last = Len(out)
        BY <2>1, <4>1, FS_EmptySet
      <4> QED BY <3>1, <4>2
    <3>2. CASE /\ Len(out) >= 1 /\ out[Len(out)].kind = "Outcome"
               /\ NoOutcome(Len(out) - 1) /\ Explains(Len(out) - 1)
      <4>1. Lines("Outcome") = {Len(out)}
        BY <2>1, <3>2 DEF NoOutcome, Lines
      <4>2. last = Len(out) - 1
        BY <2>1, <4>1, FS_Singleton
      <4> QED BY <2>1, <3>2, <4>2
    <3> QED BY <3>1, <3>2 DEF Inv, EndInv
  <2> HIDE DEF last
  <2>3. CASE code = "Success"
    <3>1. \A i \in 1 .. Len(out) : out[i].kind # "Error"
      BY <2>2, <2>3 DEF Explains
    <3> QED BY <2>3, <3>1 DEF FailureIsExplained, Lines
  <2>4. CASE code # "Success"
    <3>1. last >= 1 /\ out[last].kind \in {"Error", "Message", "Plain"}
      BY <2>2, <2>4 DEF Explains
    <3>2. last \in said
      BY <2>1, <2>2, <3>1
    <3> QED BY <2>4, <3>1, <3>2 DEF FailureIsExplained, last
  <2> QED BY <2>3, <2>4
<1> QED BY <1>1, Invariance, PTL

(* No command of the environment starts before all its variables were      *)
(* found usable, and the error names the first that is not.                *)
THEOREM UsableBeforeRun == Spec => []EnvCheckedFirst
<1>1. Inv => EnvCheckedFirst
  <2> SUFFICES ASSUME Inv, sc.command = "none", sc.flags.ci PROVE EnvCheckedFirst
    BY DEF EnvCheckedFirst
  <2> DEFINE faulty == {i \in 1 .. Len(Reads) : Faulty(i)}
  <2>1. command # "none" => faulty = {}
    BY DEF Inv, EnvInv
  <2>2. ASSUME NEW e \in Lines("Error"), NEW i \in faulty, command = "none"
        PROVE  \E j \in faulty : j <= i /\ out[e].names = Reads[j]
    <3>1. e \in 1 .. Len(out) /\ out[e].kind = "Error"
      BY DEF Lines
    <3>2. next \in faulty /\ out[e].names = Reads[next]
      BY <2>2, <3>1 DEF Inv, EnvInv
    <3>3. ~(i < next)
      BY <2>2 DEF Inv, EnvInv
    <3>4. Len(Reads) \in Nat
      BY FlagsKnown, ReadsTyped DEF Inv, TypeInv
    <3> QED BY <3>2, <3>3, <3>4
  <2> QED BY <2>1, <2>2 DEF EnvCheckedFirst, Faulty
<1> QED BY <1>1, Invariance, PTL

(* A transfer has at least one thread, no more than were asked for, and    *)
(* unasked no whole core more than the quota of the container.             *)
THEOREM ThreadsFit == Spec => []WorkersFitQuota
<1>1. Inv => WorkersFitQuota
  <2> SUFFICES ASSUME Inv, threads # NoThreads PROVE WorkersFitQuota
    BY DEF WorkersFitQuota
  <2> DEFINE limit == IF sc.machine.v2.quota > 0 THEN sc.machine.v2 ELSE sc.machine.v1
             a == threads.args
  <2>1. sc.machine \in [v2 : QuotaFile, v1 : QuotaFile, parallelism : Nat, host : Nat]
    BY InvocationAssumption DEF Inv, TypeInv
  <2>2. pool \in Nat \ {0} /\ (limit.quota > 0 => (pool - 1) * limit.period < limit.quota)
    BY <2>1, PoolFitsQuota DEF Inv, PoolInv
  <2>3. a \in TransferArgs /\ threads.n = resolve(sc.machine, pool, a)
    BY DEF Inv, PoolInv
  <2>4. /\ a.pin \in BOOLEAN /\ a.size \in Nat /\ a.threshold \in Nat
        /\ a.max_workers \in Int
    BY <2>3, InvocationAssumption
  <2>5. limit.quota \in Int /\ limit.period \in Int
    BY <2>1 DEF QuotaFile
  <2> HIDE DEF limit, a
  <2>6. CASE a.pin \/ a.size < a.threshold
    <3>1. threads.n = 1
      BY <2>3, <2>6 DEF resolve
    <3>2. limit.quota > 0 => (threads.n - 1) * limit.period < limit.quota
      BY <2>5, <3>1
    <3> QED BY <2>4, <3>1, <3>2 DEF WorkersFitQuota, a, limit
  <2>7. CASE ~(a.pin \/ a.size < a.threshold) /\ a.max_workers >= 0
    <3>1. threads.n = AtLeastOne(a.max_workers)
      BY <2>3, <2>4, <2>7 DEF resolve, Threads, AtLeastOne
    <3> QED BY <2>4, <2>7, <3>1 DEF WorkersFitQuota, AtLeastOne, a
  <2>8. CASE ~(a.pin \/ a.size < a.threshold) /\ a.max_workers < 0
    <3>1. threads.n = pool
      BY <2>2, <2>3, <2>4, <2>8 DEF resolve, Threads
    <3> QED BY <2>2, <2>4, <2>8, <3>1 DEF WorkersFitQuota, a, limit
  <2> QED BY <2>4, <2>6, <2>7, <2>8
<1> QED BY <1>1, Invariance, PTL

=============================================================================
