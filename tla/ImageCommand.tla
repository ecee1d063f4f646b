---------------------------- MODULE ImageCommand ----------------------------
(***************************************************************************)
(* The commands image encrypt and image decrypt, one after another on the  *)
(* same files: resolve the cipher, load and validate the key, stat the     *)
(* input, compute the output size, open both files, transfer, check the    *)
(* result against cryptsetup if asked to, exit.                            *)
(*                                                                         *)
(* The transfer is that of Transfer without its threads: ranges are read   *)
(* in any order, each at once, and written sector by sector, any number of *)
(* them at a time; an error or a kill leaves of each range in flight a     *)
(* beginning, with perhaps a torn sector behind it.  Another program may   *)
(* truncate the input between any two of these steps.                      *)
(***************************************************************************)
EXTENDS FiniteSets, SectorCipher, SectorRanges

CONSTANTS
  Sessions,     \* the sequences of commands to consider
  U64Max        \* largest u64; set_len takes lengths up to half of it

CommandType == [op : {"encrypt", "decrypt"}, input : {"img", "enc", "dec"},
                output : {"img", "enc", "dec"}, specOk : BOOLEAN,
                key : {"valid", "invalid", "unreadable"},
                align : Nat, extra : Nat, compat : BOOLEAN]

(* A session: max commands out of commands, on an image of one of lens     *)
(* bytes; the output does not exist before, or holds stale old bytes.      *)
ASSUME ImageCommandAssumption ==
  /\ U64Max \in Nat
  /\ \A s \in Sessions :
       /\ s.max \in Nat
       /\ s.lens \subseteq 0 .. U64Max \div 2 /\ s.stale \in 0 .. U64Max \div 2
       /\ \A c \in s.commands : c \in CommandType

VARIABLES
  session,   \* the commands that may come, and the files they start from
  files,     \* per path: does it exist, its length, and its sectors
  cmd, pc,   \* command line and step of the running command
  inLen,     \* length of the input, from stat
  outSize,   \* length given to create_sparse_output
  unread,    \* ranges of the transfer that no thread has read yet
  buf,       \* sectors read and not yet written, as they will be written
  code,      \* exit code
  started,   \* commands started
  before,    \* files when the command started
  shrunk     \* the input was truncated since then

transferVars == <<unread, buf>>
vars == <<session, files, cmd, pc, inLen, outSize, transferVars, code, started, before,
          shrunk>>

Paths   == {"img", "enc", "dec"}
OffMax  == U64Max \div 2
Sectors == 0 .. TotalSectors(OffMax) - 1
Codes   == {"Success", "InvalidArgs", "KeyValidation", "LuksCompat", "Io",
            "UnsupportedCipher"}

Commands    == session.commands
InputLens   == session.lens
MaxCommands == session.max

Absent == [exists |-> FALSE, len |-> 0, at |-> [s \in Sectors |-> Zero]]
Image(n) == [exists |-> TRUE, len |-> n,
             at |-> [s \in Sectors |-> IF s * SectorSize < n
                                       THEN Fresh("data", s) ELSE Zero]]
Stale == [exists |-> TRUE, len |-> session.stale,
          at |-> [s \in Sectors |-> IF s * SectorSize < session.stale
                                    THEN Fresh("old", s) ELSE Zero]]

(* The first n bytes of a sector with content c, zeros behind them.        *)
Kept(c, n) ==
  IF c.ops # <<>> /\ c.ops[Len(c.ops)] = [op |-> "cut", arg |-> <<n, 0>>]
  THEN c ELSE Padded(c, n, SectorSize)

Resized(f, n) ==
  [exists |-> TRUE, len |-> n,
   at |-> [s \in Sectors |-> Kept(f.at[s], Least(f.len, n) - s * SectorSize)]]

Init ==
  /\ session \in Sessions
  /\ \E n \in InputLens, old \in {Absent, Stale} :
       files = [p \in Paths |-> CASE p = "img" -> Image(n)
                                  [] p = "enc" -> old
                                  [] OTHER     -> Absent]
  /\ cmd = (CHOOSE c \in Commands : TRUE)
  /\ pc = "idle" /\ inLen = 0 /\ outSize = 0 /\ unread = {} /\ buf = <<>> /\ code = "none"
  /\ started = 0 /\ before = files /\ shrunk = FALSE

Begin ==
  /\ pc \in {"idle", "exited", "killed"} /\ started < MaxCommands
  /\ cmd' \in Commands
  /\ pc' = "spec" /\ started' = started + 1 /\ before' = files
  /\ inLen' = 0 /\ outSize' = 0 /\ code' = "none" /\ shrunk' = FALSE
  /\ UNCHANGED <<session, files, transferVars>>

-----------------------------------------------------------------------------
At(step) == pc = step /\ UNCHANGED <<session, cmd, started, before, shrunk>>

Goto(step) == pc' = step /\ UNCHANGED code
Exit(c)    == pc' = "exited" /\ code' = c

ResolveSpec ==
  /\ At("spec")
  /\ IF cmd.specOk THEN Goto("key") ELSE Exit("UnsupportedCipher")
  /\ UNCHANGED <<files, inLen, outSize, transferVars>>

(* load_key_file, validate_key and SectorEngine::new.                      *)
LoadKey ==
  /\ At("key")
  /\ CASE cmd.key = "unreadable" -> Exit("Io")
       [] cmd.key = "invalid"    -> Exit("KeyValidation")
       [] OTHER                  -> Goto("stat")
  /\ UNCHANGED <<files, inLen, outSize, transferVars>>

Stat ==
  /\ At("stat")
  /\ \/ /\ files[cmd.input].exists
        /\ inLen' = files[cmd.input].len
        /\ IF cmd.op = "encrypt" THEN Goto("size") /\ UNCHANGED outSize
           ELSE Goto("open_in") /\ outSize' = inLen'
     \/ Exit("Io") /\ UNCHANGED <<inLen, outSize>>
  /\ UNCHANGED <<files, transferVars>>

(* aligned_output_size, with its checked_add and checked_mul.              *)
Blocks == DivCeil(inLen, cmd.align) + cmd.extra

\* Mutant: the size wraps as a release build's arithmetic does.
SizeWrapping ==
  /\ At("size")
  /\ IF cmd.align = 0
     THEN Exit("InvalidArgs") /\ UNCHANGED outSize
     ELSE Goto("open_in") /\ outSize' = (Blocks * cmd.align) % (U64Max + 1)
  /\ UNCHANGED <<files, inLen, transferVars>>

\* Mutant: the output is created before its size is known to be valid.
SizeAfterCreate ==
  /\ At("size")
  /\ IF cmd.align = 0 \/ Blocks > U64Max \/ Blocks * cmd.align > U64Max
     THEN /\ Exit("InvalidArgs") /\ UNCHANGED outSize
          /\ files' = [files EXCEPT ![cmd.output] = Resized(@, inLen)]
     ELSE Goto("open_in") /\ outSize' = Blocks * cmd.align /\ UNCHANGED files
  /\ UNCHANGED <<inLen, transferVars>>

Size ==
  /\ At("size")
  /\ IF cmd.align = 0 \/ Blocks > U64Max \/ Blocks * cmd.align > U64Max
     THEN Exit("InvalidArgs") /\ UNCHANGED outSize
     ELSE Goto("open_in") /\ outSize' = Blocks * cmd.align
  /\ UNCHANGED <<files, inLen, transferVars>>

OpenInput ==
  /\ At("open_in")
  /\ \/ files[cmd.input].exists /\ Goto("open_out")
     \/ Exit("Io")
  /\ UNCHANGED <<files, inLen, outSize, transferVars>>

\* Mutant: the ranges cover the input only.
TotalOfInput == TotalSectors(inLen)

(* Sectors of the ranges: the padding too is put through the cipher.       *)
Total == TotalSectors(outSize)

(* create_sparse_output: the file is opened or created, then set_len.      *)
OpenOutput ==
  /\ At("open_out")
  /\ \/ /\ outSize <= OffMax
        /\ files' = [files EXCEPT ![cmd.output] = Resized(@, outSize)]
        /\ unread' = RangeIds(Total) /\ Goto("transfer")
     \/ /\ files' = [files EXCEPT ![cmd.output].exists = TRUE] \/ UNCHANGED files
        /\ Exit("Io") /\ UNCHANGED unread
  /\ UNCHANGED <<inLen, outSize, buf>>

-----------------------------------------------------------------------------
\* Mutant: decrypt calls encrypt_range.
DirEncrypts == "enc"

Dir == IF cmd.op = "encrypt" THEN "enc" ELSE "dec"

\* Mutant: a read stops at the end of the file and leaves the zeros.
ReadableShort(k) == TRUE

(* A read beyond the end of the input is an error; nothing is read beyond  *)
(* the input's length.                                                     *)
Readable(k) ==
  \A s \in SectorsOf(Total, k) :
    s * SectorSize < inLen =>
      Least((s + 1) * SectorSize, inLen) <= files[cmd.input].len

Produced(s) == Crypt(Dir, s, Kept(files[cmd.input].at[s], inLen - s * SectorSize))

(* process_one_range, up to its write.                                     *)
ReadRange ==
  /\ At("transfer")
  /\ \E k \in unread :
       /\ Readable(k)
       /\ unread' = unread \ {k}
       /\ buf' = [s \in DOMAIN buf \cup SectorsOf(Total, k) |->
                    IF s \in DOMAIN buf THEN buf[s] ELSE Produced(s)]
  /\ UNCHANGED <<files, pc, inLen, outSize, code>>

(* The sector each range in flight is at.                                  *)
InTurn == {s \in DOMAIN buf :
            \A t \in DOMAIN buf : t \div ChunkSectors = s \div ChunkSectors => s <= t}

WriteSector ==
  /\ At("transfer")
  /\ \E s \in InTurn :
       /\ files' = [files EXCEPT ![cmd.output].len = Greatest(@, (s + 1) * SectorSize),
                                 ![cmd.output].at[s] = buf[s]]
       /\ buf' = [t \in DOMAIN buf \ {s} |-> buf[t]]
  /\ UNCHANGED <<pc, inLen, outSize, unread, code>>

(* Every range has been written: process_ranges returns Ok.                *)
Transferred ==
  /\ At("transfer") /\ unread = {} /\ DOMAIN buf = {}
  /\ IF cmd.op = "encrypt" /\ cmd.compat THEN Goto("compat") ELSE Exit("Success")
  /\ UNCHANGED <<files, inLen, outSize, transferVars>>

(* The writes in flight stop, some of them inside a sector, which may be   *)
(* beyond the end of the file.                                             *)
Ends(torn) ==
  {files[cmd.output].len}
    \cup {s * SectorSize + written : s \in torn, written \in 1 .. SectorSize - 1}

Spoilt(f, torn, len) ==
  [f EXCEPT !.len = len,
            !.at = [s \in Sectors |-> IF s \in torn THEN Fresh("torn", s) ELSE f.at[s]]]

Stop ==
  /\ \E torn \in SUBSET InTurn : \E len \in Ends(torn) :
       /\ files[cmd.output].len <= len /\ \A s \in torn : s * SectorSize < len
       /\ files' = [files EXCEPT ![cmd.output] = Spoilt(@, torn, len)]
  /\ unread' = {} /\ buf' = <<>>

(* A read, a write, or the building of the pool fails.                     *)
TransferFails ==
  /\ At("transfer") /\ (unread # {} \/ DOMAIN buf # {} \/ Total = 0)
  /\ Stop /\ Exit("Io")
  /\ UNCHANGED <<inLen, outSize>>

(* Only a mismatch fails the command; the output is complete by then.      *)
Compat ==
  /\ At("compat")
  /\ Exit("Success") \/ Exit("LuksCompat")
  /\ UNCHANGED <<files, inLen, outSize, transferVars>>

Kill ==
  /\ pc \notin {"idle", "exited", "killed"} /\ At(pc)
  /\ IF pc = "transfer" THEN Stop ELSE UNCHANGED <<files, transferVars>>
  /\ pc' = "killed"
  /\ UNCHANGED <<inLen, outSize, code>>

(* Another program truncates the input.                                    *)
Shrink ==
  /\ pc \in {"open_in", "open_out", "transfer"} /\ ~shrunk
  /\ \E n \in 0 .. files[cmd.input].len - 1 :
       files' = [files EXCEPT ![cmd.input] = Resized(@, n)]
  /\ shrunk' = TRUE
  /\ UNCHANGED <<session, cmd, pc, inLen, outSize, transferVars, code, started, before>>

Over == pc \in {"exited", "killed"} /\ started = MaxCommands /\ UNCHANGED vars

Next == \/ Begin \/ ResolveSpec \/ LoadKey \/ Stat \/ Size \/ OpenInput
        \/ OpenOutput \/ ReadRange \/ WriteSector \/ Transferred \/ TransferFails
        \/ Compat \/ Kill \/ Shrink \/ Over

Spec == Init /\ [][Next]_vars

-----------------------------------------------------------------------------
Completed   == pc = "exited" /\ code \in {"Success", "LuksCompat"}
Source      == before[cmd.input]
PromisedLen == IF cmd.op = "decrypt" THEN Source.len
               ELSE (DivCeil(Source.len, cmd.align) + cmd.extra) * cmd.align

(* In place, set_len gives an input that became shorter its length back.   *)
ReadAsStated == Completed /\ (shrunk => cmd.input # cmd.output)

(* Whatever the output held, and however many commands failed or were      *)
(* killed over it before, and even if an input that is not the output      *)
(* became shorter after its stat, a command that exits with Success or     *)
(* LuksCompat has put the input as it was and its padding through the      *)
(* cipher once, each sector under its own number, and left nothing else in *)
(* the file.                                                               *)
CompleteOnSuccess ==
  ReadAsStated =>
    /\ files[cmd.output].len = TotalSectors(PromisedLen) * SectorSize
    /\ \A s \in 0 .. TotalSectors(PromisedLen) - 1 :
         files[cmd.output].at[s] =
           Crypt(Dir, s, Kept(Source.at[s], Source.len - s * SectorSize))

(* A command touches no file but its output, and not even that before its  *)
(* arguments and its key have been accepted.                               *)
OnlyOutputChanges ==
  /\ \A p \in Paths \ {cmd.output} :
       started > 0 /\ ~(shrunk /\ p = cmd.input) => files[p] = before[p]
  /\ code \in {"UnsupportedCipher", "KeyValidation", "InvalidArgs"} /\ ~shrunk =>
       files = before

(* The size set on the output is never below the input's, so a command     *)
(* whose output is also its input truncates nothing.                       *)
NothingCutOff == pc = "transfer" => outSize >= inLen

IsCiphertextOf(f, n) ==
  /\ f.exists /\ f.len % SectorSize = 0 /\ f.len >= n
  /\ \A s \in 0 .. TotalSectors(f.len) - 1 :
       f.at[s] = Crypt("enc", s, Kept(Image(n).at[s], n - s * SectorSize))

(* What encrypt made of an image, decrypt gives back: the image, and zeros *)
(* where the padding was.                                                  *)
RoundTrip ==
  ReadAsStated /\ cmd.op = "decrypt" =>
    \A n \in InputLens : IsCiphertextOf(Source, n) =>
      /\ files[cmd.output].len = Source.len
      /\ \A s \in 0 .. TotalSectors(Source.len) - 1 :
           files[cmd.output].at[s] =
             Kept(Image(n).at[s], n - s * SectorSize)

(* Event::AlignmentStatus: aligned: true for align_block_size.             *)
OutputAligned ==
  Completed /\ cmd.op = "encrypt" => files[cmd.output].len % cmd.align = 0

=============================================================================
