--------------------------- MODULE MCImageCommand ---------------------------
(***************************************************************************)
(* Three kinds of session on small files: two-byte sectors, a u64 of four  *)
(* bits.                                                                   *)
(***************************************************************************)
EXTENDS ImageCommand

Line(op, in, out, align, extra) ==
  [op |-> op, input |-> in, output |-> out, specOk |-> TRUE, key |-> "valid",
   align |-> align, extra |-> extra, compat |-> FALSE]

Encrypt(align, extra) == Line("encrypt", "img", "enc", align, extra)

(* There and back, over files that earlier commands have spoilt.           *)
RetryCommands == {Encrypt(4, 0), [Encrypt(1, 1) EXCEPT !.compat = TRUE],
                  Line("decrypt", "enc", "dec", 0, 0)}

(* The output is the input.                                                *)
InPlaceCommands == {Line("encrypt", "img", "img", 2, 0),
                    Line("encrypt", "img", "img", 2, 1),
                    Line("decrypt", "img", "img", 0, 0)}

(* Every argument a user may get wrong, on a small u64.                    *)
ArgumentCommands ==
  {Encrypt(a, x) : a \in 0 .. 5, x \in {0, 1, 4, 12, 15}}
    \cup {[Encrypt(4, 1) EXCEPT !.specOk = FALSE],
          [Encrypt(4, 1) EXCEPT !.key = "invalid"],
          [Encrypt(4, 1) EXCEPT !.key = "unreadable"],
          Line("decrypt", "img", "enc", 0, 0), Line("decrypt", "dec", "enc", 0, 0)}

MCSessions ==
  {[commands |-> RetryCommands, lens |-> {1, 3}, stale |-> 4, max |-> 3],
   [commands |-> InPlaceCommands, lens |-> {0, 3, 4}, stale |-> 0, max |-> 2],
   [commands |-> ArgumentCommands, lens |-> {0, 3, 4, 5}, stale |-> 7, max |-> 1]}
=============================================================================
