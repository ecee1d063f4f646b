---------------------------- MODULE FileCommands ----------------------------
(***************************************************************************)
(* The commands that look at one file which other programs may be writing: *)
(* align check and align fix, validate, and entropy.  A behaviour runs one *)
(* of them; align, which changes the file, also against itself.            *)
(***************************************************************************)
EXTENDS Integers, Sequences

CONSTANTS AlignRuns, U64Max, Alignments, MaxAppends,       \* AlignFix
          IvWord, HeadSectors, ExtSector, MaxVolume,       \* VolumeChecks
          Bytes, MaxStream, WindowSizes, Thresholds        \* EntropyScan

ASSUME FileCommandsAssumption ==
  /\ U64Max \in Nat \ {0} /\ MaxAppends \in Nat
  /\ Alignments \subseteq 0 .. U64Max
  /\ {HeadSectors, ExtSector, MaxVolume} \subseteq Nat /\ ExtSector < HeadSectors
  /\ MaxStream \in Nat /\ WindowSizes \subseteq Nat \ {0} /\ Thresholds \subseteq Nat

VARIABLES running,    \* the command
          file_length, last_data, kind, alignment, file_size, align_pc, appends,
          overtaken, fixed,
          magic, length, odd, fits, keyed, volume_size, head, step, seen, shrunk,
          stream, window_size, threshold, taken, buf, windows, scan

Align  == INSTANCE AlignFix WITH Runs <- AlignRuns, length <- file_length, data <- last_data,
                               size <- file_size, pc <- align_pc
Checks == INSTANCE VolumeChecks WITH size <- volume_size
Scan   == INSTANCE EntropyScan

alignVars == <<file_length, last_data, kind, alignment, file_size, align_pc, appends,
               overtaken, fixed>>
checkVars == <<magic, length, odd, fits, keyed, volume_size, head, step, seen, shrunk>>
scanVars  == <<stream, window_size, threshold, taken, buf, windows, scan>>
filesVars == <<running, alignVars, checkVars, scanVars>>

FilesInit ==
  /\ \/ running = "align" /\ Align!Init /\ Checks!ChecksIdle /\ Scan!ScanIdle
     \/ running = "validate" /\ Align!Idle /\ Checks!ChecksInit /\ Scan!ScanIdle
     \/ running = "entropy" /\ Align!Idle /\ Checks!ChecksIdle /\ Scan!ScanInit

(* None of them runs.                                                      *)
FilesIdle == running = "none" /\ Align!Idle /\ Checks!ChecksIdle /\ Scan!ScanIdle

AlignStep    == running = "align" /\ Align!Next
                /\ UNCHANGED <<running, checkVars, scanVars>>
ValidateStep == running = "validate" /\ Checks!ChecksNext
                /\ UNCHANGED <<running, alignVars, scanVars>>
EntropyStep  == running = "entropy" /\ Scan!ScanNext
                /\ UNCHANGED <<running, alignVars, checkVars>>

FilesNext == AlignStep \/ ValidateStep \/ EntropyStep

FilesSpec == FilesInit /\ [][FilesNext]_filesVars

-----------------------------------------------------------------------------
(* After a fix a check with the same alignment passes, whatever other runs *)
(* measured before (AlignFix).                                             *)
FixThenCheckPasses == Align!FixThenCheckPasses

(* The last byte written by the other program is cut off only if it came   *)
(* in the window of a fix: no rounding, not even one at the top of u64,    *)
(* and no fix with another alignment takes data away (cmd/align.rs:79-127).*)
CutsOnlyWhatOvertook == [][last_data' < last_data => overtaken]_filesVars

(* What the round trip of validate says of the volume is so (VolumeChecks). *)
VerdictIsRight == Checks!VerdictIsRight

(* The windows tile the stream, however its reads fall (EntropyScan).      *)
WindowsTile == Scan!WindowsTile

(* entropy --threshold passes exactly the streams none of whose aligned    *)
(* stretches is below the threshold (EntropyScan).                         *)
GateIsRight == Scan!GateIsRight
=============================================================================
