--------------------------- MODULE AtomicTransfer ---------------------------
(***************************************************************************)
(* What a caller may rely on from process_ranges, with no threads, ranges  *)
(* or buffers: every covered sector is replaced by its goal at most once,  *)
(* in some order; Ok is returned only when all of them are; an error may   *)
(* leave any of them undone and spoil the one it happened in.              *)
(***************************************************************************)
VARIABLES goal,     \* the content each covered sector must get
          out,      \* the output file
          broken,   \* some part of the transfer has failed
          status    \* running, ok, err

Spoilt(s) == [base |-> "torn", at |-> s, ops |-> <<>>]

Init == /\ DOMAIN goal \subseteq DOMAIN out
        /\ broken = FALSE
        /\ status = "running"

Produce(s) == /\ status = "running"
              /\ out[s] # goal[s]
              /\ out' = [out EXCEPT ![s] = goal[s]]
              /\ UNCHANGED <<goal, broken, status>>

Break(s) == /\ status = "running"
            /\ out[s] # goal[s]
            /\ out' \in {out, [out EXCEPT ![s] = Spoilt(s)]}
            /\ broken' = TRUE
            /\ UNCHANGED <<goal, status>>

Succeed == /\ status = "running" /\ ~broken
           /\ \A s \in DOMAIN goal : out[s] = goal[s]
           /\ status' = "ok"
           /\ UNCHANGED <<goal, out, broken>>

Fail == /\ status = "running"
        /\ status' = "err"
        /\ UNCHANGED <<goal, out, broken>>

Next == (\E s \in DOMAIN goal : Produce(s) \/ Break(s)) \/ Succeed \/ Fail

Spec == Init /\ [][Next]_<<goal, out, broken, status>>

=============================================================================
