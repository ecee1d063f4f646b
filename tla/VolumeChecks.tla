---------------------------- MODULE VolumeChecks ----------------------------
(***************************************************************************)
(* validate: does a file look like a headerless volume, and does a key     *)
(* decrypt its first sectors to a file system?  The file is opened only    *)
(* after its length was taken; another program may truncate it meanwhile.  *)
(*                                                                         *)
(* The volume is the encryption of an image, with the key and cipher given *)
(* to the command or with others: under the right ones an encryption and a *)
(* decryption cancel, under others the sectors stay noise.  That noise     *)
(* might have a magic number by chance is left out.                        *)
(***************************************************************************)
EXTENDS SectorCipher

CONSTANTS HeadSectors,  \* sectors that are looked at (8)
          ExtSector,    \* the sector with the ext superblock's magic (2)
          MaxVolume     \* sectors of the largest volume

VARIABLES
  magic,      \* what the image was: "squashfs", "ext" or "other"
  length,     \* whole sectors of the file, ...
  odd,        \* ... and whether a part of a sector follows
  fits,       \* the volume was made with the key and cipher of the command
  keyed,      \* --key-file is given
  size,       \* the file_size of the stat: sectors and rest
  head,       \* the sectors read
  step,       \* "stat", "structure", "key", "open", "read", or the exit code
  seen,       \* ghost: the reason of an exit
  shrunk      \* ghost: the file was truncated during the command

checkVars == <<magic, length, odd, fits, keyed, size, head, step, seen, shrunk>>

Nothing == [s \in {} |-> Zero]

ChecksInit ==
  /\ magic \in {"squashfs", "ext", "other"}
  /\ length \in 0 .. MaxVolume /\ odd \in BOOLEAN
  /\ fits \in BOOLEAN /\ keyed \in BOOLEAN
  /\ size = <<0, FALSE>> /\ head = Nothing
  /\ step = "stat" /\ seen = "none" /\ shrunk = FALSE

ChecksIdle ==
  /\ magic = "other" /\ length = 0 /\ odd = FALSE /\ fits = FALSE /\ keyed = FALSE
  /\ size = <<0, FALSE>> /\ head = Nothing
  /\ step = "idle" /\ seen = "none" /\ shrunk = FALSE

-----------------------------------------------------------------------------
Exit(code, why) == step' = code /\ seen' = why
Fixed == UNCHANGED <<magic, fits, keyed>>
FileFixed == UNCHANGED <<length, odd, shrunk>>

(* The sector s of the volume, for a command whose key fits or does not.   *)
Volume(s) ==
  IF fits THEN Crypt("enc", s, Fresh("data", s)) ELSE Fresh("torn", s)

StatFile ==
  /\ step = "stat"
  /\ \/ size' = <<length, odd>> /\ step' = "structure" /\ UNCHANGED seen
     \/ Exit("Io", "stat") /\ UNCHANGED size
  /\ UNCHANGED head /\ Fixed /\ FileFixed

(* The cipher specification, then validate_plain_structural.               *)
Structure ==
  /\ step = "structure"
  /\ \/ Exit("UnsupportedCipher", "spec")
     \/ size[2] /\ Exit("LuksCompat", "structure")
     \/ ~size[2] /\ ~keyed /\ Exit("Success", "structure")
     \/ ~size[2] /\ keyed /\ step' = "key" /\ UNCHANGED seen
  /\ UNCHANGED <<size, head>> /\ Fixed /\ FileFixed

\* Mutant: one sector, where the squashfs magic is.
OneSector == IF size[1] < 1 THEN 0 ELSE 1

head_sectors == IF size[1] < HeadSectors THEN size[1] ELSE HeadSectors

(* The key file and the engine; then nothing to look at, or the file.      *)
Key ==
  /\ step = "key"
  /\ \/ Exit("Io", "key file")
     \/ ~fits /\ Exit("KeyValidation", "engine")
     \/ head_sectors = 0 /\ Exit("Success", "too short")
     \/ head_sectors > 0 /\ step' = "read" /\ UNCHANGED seen
     \/ head_sectors > 0 /\ Exit("Io", "open")
  /\ UNCHANGED <<size, head>> /\ Fixed /\ FileFixed

(* read_at_exact(0): all the head, or an error.                            *)
ReadHead ==
  /\ step = "read"
  /\ \/ /\ head_sectors <= length
        /\ head' = [s \in 0 .. head_sectors - 1 |-> Volume(s)]
        /\ step' = "magic" /\ UNCHANGED seen
     \/ Exit("Io", "read") /\ UNCHANGED head
  /\ UNCHANGED size /\ Fixed /\ FileFixed

(* detect_fs_magic on the decrypted head.                                  *)
HasMagic(plain) ==
  \/ magic = "squashfs" /\ plain[0] = Fresh("data", 0)
  \/ /\ magic = "ext" /\ ExtSector \in DOMAIN plain
     /\ plain[ExtSector] = Fresh("data", ExtSector)

Magic ==
  /\ step = "magic"
  /\ IF HasMagic(CryptRange("dec", head))
     THEN Exit("Success", "magic") ELSE Exit("LuksCompat", "no magic")
  /\ UNCHANGED <<size, head>> /\ Fixed /\ FileFixed

Running == step \in {"stat", "structure", "key", "read", "magic"}

(* Another program truncates the file.                                     *)
Truncate ==
  /\ Running /\ length > 0
  /\ length' \in 0 .. length - 1 /\ odd' \in BOOLEAN /\ shrunk' = TRUE
  /\ UNCHANGED <<size, head, step, seen>> /\ Fixed

ChecksOver ==
  /\ step \in {"Success", "Io", "UnsupportedCipher", "LuksCompat", "KeyValidation"}
  /\ UNCHANGED checkVars

ChecksNext ==
  \/ StatFile \/ Structure \/ Key \/ ReadHead \/ Magic \/ Truncate \/ ChecksOver

-----------------------------------------------------------------------------
(* What the round trip says is so: a detected file system means that the   *)
(* volume is one made with this key and cipher, and, of a file that nobody *)
(* truncated, a missing one means that it is not, or that its image had no *)
(* known magic number within the file.  In particular a truncated file is  *)
(* never vouched for by zeroes read in the place of its sectors            *)
(* (cmd/validate.rs:113-176).                                              *)
VerdictIsRight ==
  LET mountable == /\ fits /\ ~odd
                   /\ \/ magic = "squashfs" /\ length > 0
                      \/ magic = "ext" /\ length > ExtSector
  IN  /\ seen = "magic" => fits /\ magic # "other"
      /\ ~shrunk /\ seen = "magic" => mountable
      /\ ~shrunk /\ seen \in {"no magic", "structure"} /\ step = "LuksCompat" => ~mountable
=============================================================================
