------------------------------ MODULE SectorIO ------------------------------
(***************************************************************************)
(* One read_at_exact or write_at_exact of a SectorFile: the loop over      *)
(* short transfers, and the read_at or write_at of each turn, which for a  *)
(* file opened with O_DIRECT goes through an aligned scratch buffer or, for*)
(* a write whose length is not aligned, through a second ordinary handle.  *)
(*                                                                         *)
(* The kernel is external: it refuses a direct transfer whose offset or    *)
(* length is not a multiple of the device's logical block, may transfer    *)
(* less than it is asked for (whole blocks if direct), and may fail after  *)
(* persisting part of a write.  Bytes are counted in any convenient unit.  *)
(***************************************************************************)
EXTENDS Integers

CONSTANTS
  DIRECT_IO_ALIGNMENT,  \* 4096 bytes
  Blocks,               \* logical blocks of the devices considered
  Calls,                \* the calls considered
  MaxFile               \* no file is longer

CallType == [op : {"read", "write"}, offset : Nat, len : Nat, size : Nat]

ASSUME SectorIOAssumption ==
  /\ DIRECT_IO_ALIGNMENT \in Nat \ {0} /\ MaxFile \in Nat
  /\ \A b \in Blocks : b \in Nat \ {0} /\ DIRECT_IO_ALIGNMENT % b = 0
  /\ \A c \in Calls : /\ c \in CallType
                      /\ c.size <= MaxFile /\ c.offset + c.len <= MaxFile

(* What process_one_range asks for with chunks of 4096 bytes: every range  *)
(* starts at a multiple of the alignment, and no write is longer than one. *)
PageCalls ==
  \A c \in Calls : /\ c.offset % DIRECT_IO_ALIGNMENT = 0
                   /\ c.op = "write" => c.len <= DIRECT_IO_ALIGNMENT

VARIABLES
  call,      \* operation, offset, length, and size of the file before it
  direct,    \* direct_io_active
  block,     \* logical block of the device
  size,      \* size of the file now
  file,      \* per byte of the file: index in buf it was written from, or -1
  buf,       \* per byte of buf: offset in the file it was read from, or -1
  moved,     \* bytes the loop has consumed
  result     \* none, ok, eof, zero (WriteZero), einval, err

vars == <<call, direct, block, size, file, buf, moved, result>>

Untouched == -1
Bytes     == 0 .. MaxFile - 1
At        == call.offset + moved
Left      == call.len - moved

Least(a, b)    == IF a <= b THEN a ELSE b
Greatest(a, b) == IF a >= b THEN a ELSE b
NextMultiple(n, m) == ((n + m - 1) \div m) * m

(* open_read and open_write: O_DIRECT where the file system takes it.      *)
Init ==
  /\ call \in Calls /\ direct \in BOOLEAN /\ block \in Blocks
  /\ size = call.size
  /\ file = [p \in Bytes |-> Untouched] /\ buf = [i \in Bytes |-> Untouched]
  /\ moved = 0 /\ result = "none"

Accepts(isDirect, at, len) ==
  isDirect => at % block = 0 /\ len % block = 0

Running(op) == call.op = op /\ result = "none"

Return(r) ==
  /\ result' = r
  /\ UNCHANGED <<call, direct, block, size, file, buf, moved>>

-----------------------------------------------------------------------------
(* What read_at returns of the n bytes the kernel has given.               *)
Consumed(n) == Least(n, Left)

(* read_at with the length it asks the kernel for.                         *)
ReadAsking(len) ==
  /\ Running("read") /\ Left > 0
  /\ \/ ~Accepts(direct, At, len) /\ Return("einval")
     \/ Accepts(direct, At, len) /\ Return("err")
     \/ At >= size /\ Return("eof")
     \/ /\ Accepts(direct, At, len)
        /\ \E n \in 1 .. Least(len, size - At) :
             /\ direct => n % block = 0 \/ At + n = size
             /\ LET m == Consumed(n)
                IN  /\ moved' = moved + m
                    /\ buf' = [i \in Bytes |-> IF moved <= i /\ i < moved + m
                                               THEN At + i - moved ELSE buf[i]]
        /\ UNCHANGED <<call, direct, block, size, file, result>>

\* Mutant: the caller's buffer is taken for full when the file ends.
ReadAtStopsShort ==
  \/ ReadAsking(IF direct THEN NextMultiple(Left, DIRECT_IO_ALIGNMENT) ELSE Left)
  \/ Running("read") /\ Left > 0 /\ At >= size /\ Return("ok")

ReadAt ==
  ReadAsking(IF direct THEN NextMultiple(Left, DIRECT_IO_ALIGNMENT) ELSE Left)

-----------------------------------------------------------------------------
Written(from, n) ==
  [p \in Bytes |-> IF At <= p /\ p < At + n THEN from + p - At ELSE file[p]]

(* write_at of len bytes, through the O_DIRECT handle or an ordinary one;  *)
(* opening the ordinary one may fail too.                                  *)
WriteVia(isDirect, len) ==
  /\ Running("write") /\ Left > 0
  /\ \/ ~Accepts(isDirect, At, len) /\ Return("einval")
     \/ Return("zero")
     \/ \E n \in 0 .. len :
          /\ Accepts(isDirect, At, len)
          /\ isDirect => n % block = 0
          /\ file' = Written(moved, n)
          /\ size' = IF n = 0 THEN size ELSE Greatest(size, At + n)
          /\ \/ result' = "err" /\ UNCHANGED moved
             \/ n > 0 /\ moved' = moved + Consumed(n) /\ UNCHANGED result
          /\ UNCHANGED <<call, direct, block, buf>>

LengthAligned == Left % DIRECT_IO_ALIGNMENT = 0

\* Mutant: a short tail is padded up to the alignment, as a read is.
WriteAtPadded ==
  WriteVia(direct, IF direct THEN NextMultiple(Left, DIRECT_IO_ALIGNMENT) ELSE Left)

\* Mutant: a short tail goes to the O_DIRECT handle as it is.
WriteAtUnrounded == WriteVia(direct, Left)

WriteAt == WriteVia(direct /\ LengthAligned, Left)

-----------------------------------------------------------------------------
Done == result = "none" /\ Left = 0 /\ Return("ok")

Returned == result # "none" /\ UNCHANGED vars

Next == ReadAt \/ WriteAt \/ Done \/ Returned

Spec == Init /\ [][Next]_vars

-----------------------------------------------------------------------------
(* Whatever transfers were short, a read that returns Ok has put every     *)
(* byte of the file in its place, and a file that ends within the buffer   *)
(* is an error.                                                            *)
ReadExact ==
  call.op = "read" /\ result = "ok" =>
    /\ call.len > 0 => call.offset + call.len <= size
    /\ \A i \in 0 .. call.len - 1 : buf[i] = call.offset + i

(* Whatever transfers were short, refused or failed, a write has left a    *)
(* prefix of the buffer in its place and nothing anywhere else, all of it  *)
(* if it returns Ok, and has not made the file longer than its set length. *)
WriteExact ==
  call.op = "write" =>
    /\ call.offset + call.len <= call.size => size = call.size
    /\ \E n \in 0 .. call.len :
         /\ \A p \in Bytes :
              file[p] = IF call.offset <= p /\ p < call.offset + n
                        THEN p - call.offset ELSE Untouched
         /\ result = "ok" => n = call.len

(* No transfer is refused for its alignment, whatever the device's block,  *)
(* except where the file has ended and there is nothing to transfer.       *)
DirectAccepted == result = "einval" => At >= size

=============================================================================
