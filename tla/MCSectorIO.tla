----------------------------- MODULE MCSectorIO -----------------------------
(* A unit is 256 bytes of a device whose alignment is 1024: a sector is 2  *)
(* units, a chunk and the alignment are 4.                                 *)
EXTENDS SectorIO

MCCalls(offsets, lens) ==
  {c \in [op : {"read", "write"}, offset : offsets, len : lens, size : 6 .. 10] :
     /\ c.offset + c.len <= 10
     /\ c.op = "write" => c.offset + c.len <= c.size}

(* process_one_range of encrypt and decrypt: whole sectors are written,    *)
(* the read of the last range may end within one.                          *)
ImageCalls == {c \in MCCalls({0, 4, 8}, 1 .. 4) : c.op = "write" => c.len % 2 = 0}

(* They are calls that O_DIRECT is proved to take (SectorIOProofs).        *)
ASSUME ImageCallsFitPages == PageCalls
=============================================================================
