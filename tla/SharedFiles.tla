---------------------------- MODULE SharedFiles ----------------------------
(***************************************************************************)
(* The commands over files that somebody else may be writing: a volume or  *)
(* a stream (FileCommands), and the key file (KeyCommands).  No command    *)
(* locks a file.  No property is about both kinds of file, so a behaviour  *)
(* runs one or the other.                                                  *)
(***************************************************************************)
EXTENDS FileCommands, KeyCommands

SharedInit ==
  \/ FilesInit /\ KeyCommandsIdle
  \/ FilesIdle /\ Init

FileStep == running # "none" /\ FilesNext /\ UNCHANGED vars
KeyStep  == running = "none" /\ Next /\ UNCHANGED filesVars

SharedNext == FileStep \/ KeyStep

SharedSpec == SharedInit /\ [][SharedNext]_<<filesVars, vars>>
=============================================================================
