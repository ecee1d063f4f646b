------------------------------ MODULE Reporting ------------------------------
(***************************************************************************)
(* What reaches standard output: the reporter chosen by the global flags,  *)
(* the events each reporter drops, and what each command reports, in       *)
(* order, with the places where it may end.  Texts are left out: a line is *)
(* the kind of the event it shows, the form it has, and what it names (the *)
(* exit code of an Outcome, the environment variable of an Error).         *)
(***************************************************************************)
EXTENDS Sequences

EventKinds ==
  {"CipherSelected", "HardwareAccelPath", "ConcurrencyInfo", "AlignmentStatus",
   "PhaseTiming", "EntropyScore", "Progress", "Outcome", "Narration", "Banner",
   "Message", "Error"}

\* Mutant: --governance is looked at before --ci.
GovernanceFirst(f) ==
  CASE f.quiet -> "Silent"
    [] ~f.quiet /\ f.governance -> "Corporate"
    [] ~f.quiet /\ ~f.governance /\ f.ci -> "Ci"
    [] ~f.quiet /\ ~f.governance /\ ~f.ci -> IF f.didactic THEN "Didactic" ELSE "Verbose"

(* -q over --ci over --governance over --didactic over the default. *)
build_reporter(f) ==
  CASE f.quiet -> "Silent"
    [] ~f.quiet /\ f.ci -> "Ci"
    [] ~f.quiet /\ ~f.ci /\ f.governance -> "Corporate"
    [] ~f.quiet /\ ~f.ci /\ ~f.governance /\ f.didactic -> "Didactic"
    [] ~(f.quiet \/ f.ci \/ f.governance \/ f.didactic) -> "Verbose"

ci_mode(r) == r = "Ci"
narrates(r) == r = "Didactic"
boot_banner(r) == r \in {"Corporate", "Verbose"}
corporate_joke(r) == r = "Corporate"

\* Mutant: Corporate drops messages, the others nothing.
DroppedWithMessages(r, json) ==
  IF r = "Silent" THEN EventKinds ELSE IF r = "Corporate" THEN {"Message"} ELSE {}

(* The events a reporter does not print. *)
Dropped(r, json) ==
  CASE r = "Silent" -> EventKinds
    [] r = "Ci" -> {"Narration", "Banner"}
    [] r = "Corporate" -> {"HardwareAccelPath", "ConcurrencyInfo", "AlignmentStatus",
                           "Narration", "Progress", "Outcome"}
    [] r = "Didactic" -> IF json THEN {"Narration"} ELSE {}
    [] r = "Verbose" -> {"Narration"}

Line(kind, form, names) == [kind |-> kind, form |-> form, names |-> names]

(* The lines an event becomes: one or none. *)
Rendered(r, json, kind, names) ==
  IF kind \in Dropped(r, json)
  THEN <<>>
  ELSE <<Line(kind, IF json THEN "json" ELSE "text", names)>>

-----------------------------------------------------------------------------
(***************************************************************************)
(* The reports of a command.  An entry either reports an event, when the   *)
(* reporter or the arguments call for it, or is a place where the command  *)
(* may end with a code, having reported why, where it may panic, or where  *)
(* it runs other programs.                                                 *)
(***************************************************************************)
Entry(do, kind, when, code) == [do |-> do, kind |-> kind, when |-> when, code |-> code]
Say(kind) == Entry("say", kind, "always", "none")
SayIf(when, kind) == Entry("say", kind, when, "none")
Narrate == SayIf("narrates", "Narration")
Fail(code) == Entry("end", "Error", "always", code)
EndIf(when, kind, code) == Entry("end", kind, when, code)
Display(who) == Entry("display", "Progress", who, "none")

(* What a command panics over: the value of an argument - zero where it    *)
(* divides by it or asserts that it is not, more than fits in memory for a *)
(* buffer - or a system that has no random bytes for a key.                *)
PanicCauses ==
  {"--alignment", "--window-size", "--sector-size", "--data-len-mb", "randomness"}
PanicOver(cause) == Entry("panic", "none", cause, "none")

(* cryptsetup open and close and losetup -d inherit the standard streams.  *)
Tools(when) == Entry("tools", "none", when, "none")

Banner == <<SayIf("banner", "Banner")>>

resolve_spec_and_key ==
  <<Fail("UnsupportedCipher"), Fail("Io"), Fail("KeyValidation"),
    Narrate, Say("CipherSelected")>>

dispatch == <<Narrate, Display("image"), Fail("Io"), Say("PhaseTiming")>>

image_encrypt ==
  Banner \o resolve_spec_and_key
  \o <<Narrate, SayIf("joke", "Message"), Say("HardwareAccelPath"),
       Fail("KeyValidation"), Fail("Io"), Fail("InvalidArgs"),
       Say("AlignmentStatus"), Narrate, Say("ConcurrencyInfo"), Fail("Io")>>
  \o dispatch
  \o <<SayIf("data", "EntropyScore"), Narrate, Tools("asked"),
       EndIf("asked", "Message", "LuksCompat"), SayIf("asked", "Message")>>

image_decrypt ==
  Banner \o resolve_spec_and_key
  \o <<Fail("KeyValidation"), Fail("Io"), Say("ConcurrencyInfo"), Fail("Io")>>
  \o dispatch

keygen ==
  <<Fail("UnsupportedCipher"), PanicOver("randomness"), Fail("Io"),
    Say("CipherSelected"), Narrate, Say("Message"), SayIf("narrates", "EntropyScore"), Narrate>>

keycheck ==
  <<Fail("UnsupportedCipher"), Fail("Io"), Fail("KeyValidation"),
    Say("CipherSelected"), Say("EntropyScore"), Say("Message"), Narrate,
    Say("Message"), SayIf("asked", "Message")>>

(* A file that cannot be opened, then one that cannot be read. *)
inspect ==
  <<Narrate, Fail("Io"), PanicOver("--window-size"), Fail("Io"),
    PanicOver("--sector-size"), SayIf("json", "Message"), SayIf("text", "Message"),
    SayIf("text", "EntropyScore"), Narrate, SayIf("text", "Message")>>

validate ==
  <<Narrate, Fail("Io"), Fail("UnsupportedCipher"), Say("Message"), Fail("LuksCompat"),
    EndIf("always", "none", "Success"), Fail("Io"), Fail("KeyValidation"),
    EndIf("always", "Message", "Success"), Fail("Io"), Fail("LuksCompat"), Say("Message")>>

entropy ==
  <<Fail("Io"), PanicOver("--window-size"), Fail("Io"), Say("EntropyScore"), Narrate,
    Say("Message"), Fail("EntropyFailed")>>

align_check ==
  <<Fail("Io"), Say("AlignmentStatus"), Narrate,
    EndIf("always", "Message", "AlignmentFailed"), Say("Message")>>

align_fix ==
  <<Fail("Io"), PanicOver("--alignment"), EndIf("always", "Message", "Success"),
    Fail("Io"), Say("Message")>>

(* Two worker counts: one pass after another was reported.  A pass makes   *)
(* its directory, then its data. *)
bench ==
  LET pass == <<Display("bench"), Fail("Io"), PanicOver("--data-len-mb"),
                Fail("Io"), Say("PhaseTiming"), Narrate>>
  IN  Banner \o <<Fail("UnsupportedCipher"), Narrate, PanicOver("randomness"),
                    Fail("InvalidArgs")>>
      \o pass \o pass \o <<Say("Message")>>

info ==
  <<SayIf("json", "Message"), SayIf("text", "HardwareAccelPath"), SayIf("text", "Message")>>

Reports ==
  [c \in {"encrypt", "decrypt", "keygen", "keycheck", "inspect", "validate",
          "entropy", "align check", "align fix", "bench", "info"} |->
     CASE c = "encrypt" -> image_encrypt
       [] c = "decrypt" -> image_decrypt
       [] c = "keygen" -> keygen
       [] c = "keycheck" -> keycheck
       [] c = "inspect" -> inspect
       [] c = "validate" -> validate
       [] c = "entropy" -> entropy
       [] c = "align check" -> align_check
       [] c = "align fix" -> align_fix
       [] c = "bench" -> bench
       [] c = "info" -> info]
=============================================================================
