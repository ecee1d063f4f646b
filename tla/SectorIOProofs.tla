--------------------------- MODULE SectorIOProofs ---------------------------
(***************************************************************************)
(* For every file, length, alignment, device block and sequence of short   *)
(* transfers: read_at_exact and write_at_exact move exactly the bytes they *)
(* are asked to move, and O_DIRECT refuses none of the image commands'     *)
(* transfers.                                                              *)
(*                                                                         *)
(* The invariant is that of a loop: the bytes below moved are in place,    *)
(* and while it goes on nothing else is.  For O_DIRECT it adds where a     *)
(* short read may stop: at a block, at the end of the file, or when done.  *)
(***************************************************************************)
EXTENDS SectorIO, TLAPS

TypeOK ==
  /\ call \in Calls /\ direct \in BOOLEAN /\ block \in Blocks
  /\ size \in Nat /\ moved \in 0 .. call.len
  /\ DOMAIN file = Bytes /\ DOMAIN buf = Bytes

(* The first n bytes of the buffer are in the file, and no other.          *)
Prefix(n) ==
  \A p \in Bytes : file[p] = IF call.offset <= p /\ p < call.offset + n
                             THEN p - call.offset ELSE Untouched

ReadInv ==
  call.op = "read" =>
    /\ \A i \in 0 .. moved - 1 : buf[i] = call.offset + i
    /\ moved > 0 => At <= size
    /\ PageCalls /\ direct => At % block = 0 \/ At >= size \/ Left = 0

WriteInv ==
  call.op = "write" =>
    /\ call.offset + call.len <= call.size => size = call.size
    /\ result \in {"none", "ok"} => Prefix(moved)
    /\ \E n \in 0 .. call.len : Prefix(n)

ResultInv ==
  /\ result = "ok" => Left = 0
  /\ PageCalls => DirectAccepted

Inv == TypeOK /\ ReadInv /\ WriteInv /\ ResultInv

-----------------------------------------------------------------------------
(* A call considered is one of natural numbers, inside the longest file.   *)
LEMMA CallFacts ==
  ASSUME call \in Calls, block \in Blocks
  PROVE  /\ call.op \in {"read", "write"}
         /\ call.offset \in Nat /\ call.len \in Nat /\ call.size \in Nat
         /\ call.offset + call.len <= MaxFile /\ MaxFile \in Nat
         /\ 0 .. call.len - 1 \subseteq Bytes
         /\ DIRECT_IO_ALIGNMENT \in Nat \ {0} /\ block \in Nat \ {0}
         /\ DIRECT_IO_ALIGNMENT % block = 0
<1>1. /\ call \in CallType /\ call.offset + call.len <= MaxFile
      /\ MaxFile \in Nat /\ DIRECT_IO_ALIGNMENT \in Nat \ {0}
      /\ block \in Nat \ {0} /\ DIRECT_IO_ALIGNMENT % block = 0
  BY SectorIOAssumption
<1> QED BY <1>1 DEF CallType, Bytes

(* What it is to be a multiple.                                            *)
LEMMA IsMultiple ==
  ASSUME NEW a \in Nat, NEW b \in Nat \ {0}
  PROVE  a % b = 0 <=> \E q \in Nat : a = q * b
<1>1. a = b * (a \div b) + (a % b) /\ a \div b \in Nat
  OBVIOUS
<1>2. ASSUME NEW q \in Nat, a = q * b PROVE a % b = 0
  BY <1>2
<1>3. a % b = 0 => a = (a \div b) * b
  BY <1>1
<1> QED BY <1>1, <1>2, <1>3

(* A sum of multiples is a multiple.                                       *)
LEMMA SumOfMultiples ==
  ASSUME NEW m \in Nat, NEW n \in Nat, NEW b \in Nat \ {0}, m % b = 0, n % b = 0
  PROVE  (m + n) % b = 0
<1>1. PICK q \in Nat : m = q * b
  BY IsMultiple
<1>2. PICK r \in Nat : n = r * b
  BY IsMultiple
<1>3. m + n = (q + r) * b /\ q + r \in Nat /\ m + n \in Nat
  BY <1>1, <1>2
<1> QED BY <1>3, IsMultiple

(* So is a multiple of a multiple.                                         *)
LEMMA MultipleOfMultiple ==
  ASSUME NEW n \in Nat, NEW a \in Nat \ {0}, NEW b \in Nat \ {0}, n % a = 0, a % b = 0
  PROVE  n % b = 0
<1>1. PICK q \in Nat : n = q * a
  BY IsMultiple
<1>2. PICK r \in Nat : a = r * b
  BY IsMultiple
<1>3. n = (q * r) * b /\ q * r \in Nat
  BY <1>1, <1>2
<1> QED BY <1>3, IsMultiple

(* The length a direct read asks the kernel for is a multiple of the       *)
(* alignment, and so of the block, and not less than what is left.         *)
LEMMA NextMultipleFits ==
  ASSUME NEW n \in Nat, NEW a \in Nat \ {0}, NEW b \in Nat \ {0}, a % b = 0
  PROVE  NextMultiple(n, a) \in Nat /\ NextMultiple(n, a) % b = 0
<1> DEFINE q == (n + a - 1) \div a
<1>1. q \in Nat
  OBVIOUS
<1>2. NextMultiple(n, a) = q * a
  BY DEF NextMultiple
<1> HIDE DEF q
<1>3. q * a \in Nat /\ (q * a) % a = 0
  BY <1>1, IsMultiple
<1> QED BY <1>2, <1>3, MultipleOfMultiple

-----------------------------------------------------------------------------
(* Before the first transfer nothing has been moved.                       *)
LEMMA InitInv == Init => Inv
<1> SUFFICES ASSUME Init PROVE Inv
  OBVIOUS
<1>1. /\ call \in Calls /\ direct \in BOOLEAN /\ block \in Blocks
      /\ moved = 0 /\ result = "none" /\ size = call.size
      /\ file = [p \in Bytes |-> Untouched] /\ buf = [i \in Bytes |-> Untouched]
  BY DEF Init
<1>2. TypeOK
  BY <1>1, CallFacts DEF TypeOK
<1>3. Prefix(0)
  BY <1>1, CallFacts DEF Prefix, Bytes
<1>4. PageCalls => At % block = 0
  <2>1. PageCalls => call.offset % DIRECT_IO_ALIGNMENT = 0
    BY <1>1 DEF PageCalls
  <2>2. At = call.offset /\ At \in Nat
    BY <1>1, CallFacts DEF At
  <2>3. /\ DIRECT_IO_ALIGNMENT \in Nat \ {0} /\ block \in Nat \ {0}
        /\ DIRECT_IO_ALIGNMENT % block = 0
    BY <1>1, CallFacts
  <2> QED BY <2>1, <2>2, <2>3, MultipleOfMultiple
<1>5. ReadInv
  BY <1>1, <1>4 DEF ReadInv
<1>6. WriteInv
  BY <1>1, <1>3, CallFacts DEF WriteInv
<1> QED BY <1>1, <1>2, <1>5, <1>6 DEF Inv, ResultInv, DirectAccepted

(* A step that only returns keeps what is known of the bytes.              *)
LEMMA ReturnInv ==
  ASSUME Inv, NEW r, Return(r), result = "none", r = "ok" => Left = 0,
         r = "einval" /\ PageCalls => At >= size
  PROVE  Inv'
<1>1. /\ result' = r /\ call' = call /\ direct' = direct /\ block' = block
      /\ size' = size /\ file' = file /\ buf' = buf /\ moved' = moved
      /\ At' = At /\ Left' = Left /\ Bytes' = Bytes
  BY DEF Return, At, Left, Bytes
<1>2. TypeOK'
  BY <1>1 DEF Inv, TypeOK
<1>3. ReadInv'
  BY <1>1 DEF Inv, ReadInv, PageCalls
<1>4. \A n : Prefix(n)' <=> Prefix(n)
  BY <1>1 DEF Prefix
<1>5. WriteInv'
  BY <1>1, <1>4 DEF Inv, WriteInv
<1>6. ResultInv'
  BY <1>1 DEF ResultInv, DirectAccepted, PageCalls
<1> QED BY <1>2, <1>3, <1>5, <1>6 DEF Inv

(* A direct read of an image command is refused only at the end of file.   *)
LEMMA ReadAccepted ==
  ASSUME Inv, PageCalls, Running("read"), Left > 0, NEW len \in Nat,
         direct => len % block = 0, ~Accepts(direct, At, len)
  PROVE  At >= size
BY DEF Running, Accepts, Inv, ReadInv

(* One read: what came goes behind what was there, and stops at a block or *)
(* at the end of the file.                                                 *)
LEMMA ReadAskingInv ==
  ASSUME Inv, NEW len \in Nat, direct => len % block = 0, ReadAsking(len)
  PROVE  Inv'
<1>1. /\ call.op = "read" /\ result = "none" /\ Left > 0
  BY DEF ReadAsking, Running
<1>2. CASE ~Accepts(direct, At, len) /\ Return("einval")
  BY <1>1, <1>2, ReadAccepted, ReturnInv DEF ReadAsking
<1>3. CASE Return("err") \/ Return("eof")
  BY <1>1, <1>3, ReturnInv
<1>4. CASE /\ \E n \in 1 .. Least(len, size - At) :
                /\ direct => n % block = 0 \/ At + n = size
                /\ LET m == Consumed(n)
                   IN  /\ moved' = moved + m
                       /\ buf' = [i \in Bytes |-> IF moved <= i /\ i < moved + m
                                                  THEN At + i - moved ELSE buf[i]]
           /\ UNCHANGED <<call, direct, block, size, file, result>>
  <2>1. PICK n \in 1 .. Least(len, size - At) :
          /\ direct => n % block = 0 \/ At + n = size
          /\ moved' = moved + Consumed(n)
          /\ buf' = [i \in Bytes |-> IF moved <= i /\ i < moved + Consumed(n)
                                     THEN At + i - moved ELSE buf[i]]
    BY <1>4
  <2>0. PICK m : /\ m = Consumed(n)
                 /\ moved' = moved + m
                 /\ buf' = [i \in Bytes |-> IF moved <= i /\ i < moved + m
                                            THEN At + i - moved ELSE buf[i]]
    BY <2>1
  <2>2. /\ call.offset \in Nat /\ call.len \in Nat /\ size \in Nat
        /\ moved \in 0 .. call.len /\ block \in Nat \ {0}
        /\ 0 .. call.len - 1 \subseteq Bytes
    BY CallFacts DEF Inv, TypeOK
  <2>3. /\ n \in Nat \ {0} /\ At \in Nat /\ At + n <= size /\ Left \in Nat
        /\ m \in Nat \ {0} /\ m <= n /\ m <= Left /\ (m = n \/ m = Left)
    BY <1>1, <2>0, <2>1, <2>2 DEF Least, Consumed, At, Left
  <2>4. /\ call' = call /\ direct' = direct /\ block' = block /\ size' = size
        /\ file' = file /\ result' = result /\ moved' = moved + m
        /\ At' = At + m /\ Left' = Left - m /\ Bytes' = Bytes
    <3>1. /\ call' = call /\ direct' = direct /\ block' = block /\ size' = size
          /\ file' = file /\ result' = result
      BY <1>4
    <3>2. At' = call.offset + (moved + m) /\ Left' = call.len - (moved + m)
      BY <2>0, <3>1 DEF At, Left
    <3>3. At' = At + m /\ Left' = Left - m
      BY <2>2, <2>3, <3>2 DEF At, Left
    <3> QED BY <2>0, <3>1, <3>3 DEF Bytes
  <2>5. TypeOK'
    <3>1. moved + m \in 0 .. call.len
      BY <2>2, <2>3 DEF Left
    <3> QED BY <2>0, <2>4, <3>1 DEF Inv, TypeOK
  <2>6. \A i \in 0 .. moved' - 1 : buf'[i] = call.offset + i
    <3> SUFFICES ASSUME NEW i \in 0 .. moved' - 1 PROVE buf'[i] = call.offset + i
      OBVIOUS
    <3>0. i \in 0 .. moved + m - 1
      BY <2>2, <2>3, <2>4
    <3>1. i \in Bytes /\ i \in Nat
      BY <2>2, <2>3, <3>0 DEF Left
    <3>2. CASE i < moved
      <4>1. i \in 0 .. moved - 1
        BY <2>2, <3>1, <3>2
      <4> QED BY <1>1, <2>0, <2>2, <3>1, <3>2, <4>1 DEF Inv, ReadInv
    <3>3. CASE moved <= i
      BY <2>0, <2>2, <2>3, <3>0, <3>1, <3>3 DEF At
    <3> QED BY <2>2, <3>1, <3>2, <3>3
  <2>7. At' <= size'
    BY <2>2, <2>3, <2>4
  <2>8. ASSUME PageCalls, direct
        PROVE  (At + m) % block = 0 \/ At + m >= size \/ Left - m = 0
    <3>1. At % block = 0
      BY <1>1, <2>2, <2>3, <2>8 DEF Inv, ReadInv
    <3>2. CASE m = Left
      BY <2>3, <3>2
    <3>3. CASE m = n /\ n % block = 0
      BY <2>2, <2>3, <3>1, <3>3, SumOfMultiples
    <3>4. CASE m = n /\ At + n = size
      BY <2>2, <2>3, <3>4
    <3> QED BY <2>1, <2>3, <2>8, <3>2, <3>3, <3>4
  <2>9. ReadInv'
    BY <2>4, <2>6, <2>7, <2>8 DEF ReadInv, PageCalls
  <2>10. WriteInv' /\ ResultInv'
    BY <1>1, <2>4 DEF WriteInv, ResultInv, DirectAccepted
  <2> QED BY <2>5, <2>9, <2>10 DEF Inv
<1> QED BY <1>2, <1>3, <1>4 DEF ReadAsking

(* So does the loop's read, which asks for whole pages.                    *)
LEMMA ReadAtInv == ASSUME Inv, ReadAt PROVE Inv'
<1>1. Left > 0 /\ call \in Calls /\ block \in Blocks /\ moved \in 0 .. call.len
  BY DEF ReadAt, ReadAsking, Inv, TypeOK
<1>2. /\ Left \in Nat /\ DIRECT_IO_ALIGNMENT \in Nat \ {0} /\ block \in Nat \ {0}
      /\ DIRECT_IO_ALIGNMENT % block = 0
  BY <1>1, CallFacts DEF Left
<1> DEFINE len == IF direct THEN NextMultiple(Left, DIRECT_IO_ALIGNMENT) ELSE Left
<1>3. len \in Nat /\ (direct => len % block = 0)
  BY <1>2, NextMultipleFits
<1>4. ReadAsking(len)
  BY DEF ReadAt
<1> HIDE DEF len
<1> QED BY <1>3, <1>4, ReadAskingInv

-----------------------------------------------------------------------------
(* A write that goes on is refused by no device: it starts at the offset   *)
(* of the call whenever it goes to the O_DIRECT handle.                    *)
LEMMA WriteAccepted ==
  ASSUME Inv, PageCalls, call.op = "write", Left > 0
  PROVE  Accepts(direct /\ LengthAligned, At, Left)
<1> DEFINE a == DIRECT_IO_ALIGNMENT
<1>1. /\ call \in Calls /\ a \in Nat \ {0} /\ block \in Nat \ {0} /\ a % block = 0
      /\ call.offset \in Nat /\ call.len \in Nat /\ moved \in 0 .. call.len
  BY CallFacts DEF Inv, TypeOK
<1>2. call.offset % a = 0 /\ call.len <= a
  BY <1>1 DEF PageCalls
<1>3. Left \in Nat \ {0} /\ Left <= a
  BY <1>1, <1>2 DEF Left
<1>4. ASSUME LengthAligned PROVE Left = a /\ At = call.offset
  <2>1. Left % a = 0
    BY <1>4 DEF LengthAligned
  <2>2. Left = a
    <3> SUFFICES ASSUME Left < a PROVE FALSE
      BY <1>1, <1>3
    <3>1. Left % a = Left
      BY <1>1, <1>3
    <3> QED BY <1>3, <2>1, <3>1
  <2> QED BY <1>1, <1>2, <2>2 DEF Left, At
<1>5. ASSUME LengthAligned PROVE At % block = 0 /\ Left % block = 0
  BY <1>1, <1>2, <1>4, <1>5, MultipleOfMultiple
<1> QED BY <1>5 DEF Accepts

(* n more bytes written at the loop's position lengthen the prefix by n.   *)
LEMMA PrefixGrows ==
  ASSUME Inv, Prefix(moved), NEW n \in 0 .. Left, NEW k, k = moved + n,
         call' = call, file' = Written(moved, n)
  PROVE  Prefix(k)'
<1>1. /\ call.offset \in Nat /\ call.len \in Nat /\ moved \in 0 .. call.len
      /\ MaxFile \in Nat
  BY CallFacts DEF Inv, TypeOK
<1>2. Bytes' = Bytes /\ Bytes \subseteq Nat
  BY <1>1 DEF Bytes
<1>3. SUFFICES ASSUME NEW p \in Bytes
               PROVE  file'[p] = IF call.offset <= p /\ p < call.offset + k
                                 THEN p - call.offset ELSE Untouched
  BY <1>2 DEF Prefix
<1>4. file'[p] = IF At <= p /\ p < At + n THEN moved + p - At ELSE file[p]
  BY DEF Written
<1>5. file[p] = IF call.offset <= p /\ p < call.offset + moved
                THEN p - call.offset ELSE Untouched
  BY DEF Prefix
<1>6. p \in Nat /\ n \in Nat /\ k \in Nat
  BY <1>1, <1>2 DEF Left
<1> QED BY <1>1, <1>4, <1>5, <1>6 DEF At

(* One write: the loop's position follows the bytes, unless it fails.      *)
LEMMA WriteAtInv == ASSUME Inv, WriteAt PROVE Inv'
<1> DEFINE via == direct /\ LengthAligned
<1>1. call.op = "write" /\ result = "none" /\ Left > 0
  BY DEF WriteAt, WriteVia, Running
<1>2. /\ call.offset \in Nat /\ call.len \in Nat /\ size \in Nat
      /\ moved \in 0 .. call.len /\ Left \in 0 .. call.len
      /\ Prefix(moved) /\ MaxFile \in Nat
      /\ call.offset + call.len <= call.size => size = call.size
  BY <1>1, CallFacts DEF Inv, TypeOK, WriteInv, Left
<1>3. CASE ~Accepts(via, At, Left) /\ Return("einval")
  BY <1>1, <1>3, WriteAccepted, ReturnInv
<1>4. CASE Return("zero")
  BY <1>1, <1>4, ReturnInv
<1>5. ASSUME NEW n \in 0 .. Left, file' = Written(moved, n),
             size' = IF n = 0 THEN size ELSE Greatest(size, At + n),
             \/ result' = "err" /\ UNCHANGED moved
             \/ n > 0 /\ moved' = moved + Consumed(n) /\ UNCHANGED result,
             UNCHANGED <<call, direct, block, buf>>
      PROVE  Inv'
  <2>1. n \in Nat /\ Consumed(n) = n /\ moved + n \in 0 .. call.len
    BY <1>2, <1>5 DEF Consumed, Least, Left
  <2>2. PICK k \in 0 .. call.len : k = moved + n
    BY <2>1
  <2>3. Prefix(k)'
    BY <1>2, <1>5, <2>2, PrefixGrows
  <2>4. size' \in Nat /\ (call.offset + call.len <= call.size => size' = call.size)
    BY <1>2, <1>5, <2>1, CallFacts DEF Greatest, At, Inv, TypeOK
  <2>5. TypeOK'
    BY <1>2, <1>5, <2>1, <2>4 DEF Inv, TypeOK, Written, Bytes
  <2>6. ReadInv' /\ ResultInv'
    BY <1>1, <1>5 DEF ReadInv, ResultInv, DirectAccepted
  <2>7. result' \in {"none", "ok"} => Prefix(moved)'
    <3>1. CASE result' = "err"
      BY <3>1
    <3>2. CASE moved' = moved + n
      BY <2>2, <2>3, <3>2 DEF Prefix
    <3> QED BY <1>5, <2>1, <3>1, <3>2
  <2>8. WriteInv'
    BY <1>5, <2>3, <2>4, <2>7 DEF WriteInv
  <2> QED BY <2>5, <2>6, <2>8 DEF Inv
<1> QED BY <1>3, <1>4, <1>5 DEF WriteAt, WriteVia

(* Every step of a call keeps the invariant.                               *)
LEMMA StepInv == Inv /\ [Next]_vars => Inv'
<1> SUFFICES ASSUME Inv, [Next]_vars PROVE Inv'
  OBVIOUS
<1>1. CASE Done
  BY <1>1, ReturnInv DEF Done
<1>2. CASE UNCHANGED vars
  BY <1>2 DEF vars, Inv, TypeOK, ReadInv, WriteInv, ResultInv, Prefix, DirectAccepted,
              At, Left, Bytes, PageCalls
<1> QED BY <1>1, <1>2, ReadAtInv, WriteAtInv DEF Next, Returned

(* So the invariant holds at every instant of every call.                  *)
LEMMA Invariance == Spec => []Inv
BY InitInv, StepInv, PTL DEF Spec

-----------------------------------------------------------------------------
(* A read that returns Ok has put every byte in its place, and did not     *)
(* take the end of the file for a full buffer.                             *)
THEOREM ReadIsExact == Spec => []ReadExact
<1>1. Inv => ReadExact
  <2> SUFFICES ASSUME Inv, call.op = "read", result = "ok"
               PROVE  /\ call.len > 0 => call.offset + call.len <= size
                      /\ \A i \in 0 .. call.len - 1 : buf[i] = call.offset + i
    BY DEF ReadExact
  <2>1. moved = call.len
    BY CallFacts DEF Inv, TypeOK, ResultInv, Left
  <2> QED BY <2>1 DEF Inv, ReadInv, At
<1> QED BY <1>1, Invariance, PTL

(* A write leaves a prefix of the buffer in its place and nothing else, all*)
(* of it if it returns Ok, and a file no longer than it was set.           *)
THEOREM WriteIsExact == Spec => []WriteExact
<1>1. Inv => WriteExact
  <2> SUFFICES ASSUME Inv, call.op = "write"
               PROVE  /\ call.offset + call.len <= call.size => size = call.size
                      /\ \E n \in 0 .. call.len : Prefix(n) /\ (result = "ok" => n = call.len)
    BY DEF WriteExact, Prefix
  <2>1. call.offset + call.len <= call.size => size = call.size
    BY DEF Inv, WriteInv
  <2>2. CASE result = "ok"
    <3>1. moved = call.len /\ moved \in 0 .. call.len
      BY <2>2, CallFacts DEF Inv, TypeOK, ResultInv, Left
    <3> QED BY <2>1, <2>2, <3>1 DEF Inv, WriteInv
  <2>3. CASE result # "ok"
    BY <2>1, <2>3 DEF Inv, WriteInv
  <2> QED BY <2>2, <2>3
<1> QED BY <1>1, Invariance, PTL

(* O_DIRECT refuses no transfer of a call that starts at a multiple of the *)
(* alignment and writes at most that much, whatever the device's block and *)
(* the short transfers before, except at the end of the file.              *)
THEOREM NoneRefused == ASSUME PageCalls PROVE Spec => []DirectAccepted
<1>1. Inv => DirectAccepted
  BY DEF Inv, ResultInv
<1> QED BY <1>1, Invariance, PTL

=============================================================================
