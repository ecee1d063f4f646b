---------------------------- MODULE KeyCommands ----------------------------
(***************************************************************************)
(* A key file on its way: runs of keygen write it (KeyFile) while a        *)
(* command reads the same path, turns it into a key and builds an engine   *)
(* (CipherKeys).  Neither locks the file: a reader may come between any    *)
(* two pieces of a write, and a run with --force may truncate the file     *)
(* under it.  A command may as well be given a key from elsewhere, in any  *)
(* of the formats.                                                         *)
(***************************************************************************)
EXTENDS Integers, Sequences

CONSTANTS Runs, MaxUnits,              \* KeyFile
          RunsWithReader,              \* the runs that are started beside a reader
          Sizes, NoSize, Alphabet,     \* CipherKeys
          MaxWords, MaxText            \* words of a key from elsewhere, and as text

ASSUME KeyCommandsAssumption ==
  /\ Runs \subseteq 1 .. 9 /\ RunsWithReader \subseteq Runs
  /\ MaxUnits \in 1 .. 9
  /\ NoSize \notin Nat /\ Sizes \subseteq Nat \cup {NoSize}
  /\ 0 \in Alphabet /\ Alphabet \subseteq Nat /\ MaxWords \in Nat /\ MaxText \in 0 .. MaxWords

VARIABLES
  need, force, exists, contents, stage, pos, last, overlapped, clobbered,
  reading,    \* the command reads the path that keygen writes
  own,        \* the words of a key from elsewhere
  look, command, mode, size, format, data, key, bits, pc,
  cut         \* the file was truncated while it was being read

Keygen == INSTANCE KeyFile WITH key <- contents, pc <- stage

(* A unit of 32 bytes is four words, unlike those of any other unit of any *)
(* key; bytes never written are zero.                                      *)
WordOf(r, i) == IF r = Keygen!Hole THEN 0 ELSE 100 + 1000 * r + i
Written == [i \in 1 .. 4 * Len(contents) |-> WordOf(contents[((i - 1) \div 4) + 1], i)]

Keys == INSTANCE CipherKeys WITH
          file <- IF reading THEN Written ELSE own,
          present <- ~reading \/ exists

fileVars  == <<need, force, exists, contents, stage, pos, last, overlapped, clobbered>>
readVars  == <<look, command, mode, size, format, data, key, bits, pc>>
vars      == <<fileVars, readVars, reading, own, cut>>

WordsUpTo(n) == UNION {[1 .. m -> Alphabet] : m \in 0 .. n}

(* Runs of keygen alone, with a reader, or a key from elsewhere.           *)
Init ==
  /\ cut = FALSE
  /\ \/ /\ reading = FALSE /\ own = <<>>
        /\ Keygen!Init /\ Keys!KeysIdle
     \/ /\ reading = TRUE /\ own = <<>> /\ look = "binary"
        /\ Keygen!InitWith(RunsWithReader)
        /\ Keys!InitWith(Keys!Loading, {"auto"})
     \/ /\ reading = FALSE /\ Keygen!InitWith({}) /\ ~exists
        /\ \/ Keys!InitWith(Keys!Loading, Keys!Formats)
              /\ \/ own \in WordsUpTo(MaxWords) /\ look = "binary"
                 \/ own \in WordsUpTo(MaxText) \ {<<>>} /\ look \in {"hex", "base64"}
           \/ Keys!InitWith(Keys!Commands \ Keys!Loading, {"auto"})
              /\ own = <<>> /\ look = "binary"

(* No run of keygen, and no command.                                       *)
KeyCommandsIdle ==
  /\ cut = FALSE /\ reading = FALSE /\ own = <<>>
  /\ Keygen!InitWith({}) /\ ~exists /\ Keys!KeysIdle

Generates == Keygen!Step
             /\ cut' = (cut \/ (pc = "read" /\ Len(contents') < Len(contents)))
             /\ UNCHANGED <<readVars, reading, own>>

Loads == Keys!KeysNext /\ UNCHANGED <<fileVars, reading, own, cut>>

Over == Keygen!Ended /\ Keys!KeysOver /\ UNCHANGED vars

Next == Generates \/ Loads \/ Over

Spec == Init /\ [][Next]_vars

-----------------------------------------------------------------------------
(* As long as runs of keygen do not overlap the file never mixes two keys  *)
(* (KeyFile).                                                              *)
NeverMixed == Keygen!NeverMixed

(* A run that says it has written its key has left exactly that (KeyFile). *)
WrittenIsWhole == Keygen!WrittenIsWhole

(* No command line brings an unsupported spec to the engine (CipherKeys).  *)
UnreachableIsUnreachable == Keys!UnreachableIsUnreachable

(* No key that is a shorter word repeated is accepted (CipherKeys).        *)
NoRepeatedWord == Keys!NoRepeatedWord

(* A key that is ready to use has the bits its algorithm takes, in every   *)
(* format the file may have been taken for (CipherKeys).                   *)
MaterialIsExact == Keys!MaterialIsExact

(* A command may meet a key half-written, or what a killed keygen has left *)
(* of one.  It still never works with anything but one run's whole key, if *)
(* the runs did not overlap, the file was not truncated while it was read  *)
(* and the runs write keys of the length the command takes: no shorter     *)
(* file is filled up (keyload.rs:66-70, keygen.rs:43-57).                  *)
UsedKeyIsWhole ==
  LET runs == {r \in Runs : stage[r] # "refused"}
      len  == Keys!Required(mode, bits)
  IN  reading /\ pc = "ready" /\ ~overlapped /\ ~cut /\ (\A r \in runs : 4 * need[r] = len) =>
        \E r \in {Keygen!Earlier} \cup runs : key = [i \in 1 .. len |-> WordOf(r, i)]
=============================================================================
