----------------------------- MODULE WorkerPool -----------------------------
(***************************************************************************)
(* How many threads work on an image: the core count under a cgroup quota, *)
(* which sizes the global pool at start-up, and the mode resolve chooses.  *)
(* A quota file is Absent, or holds a quota and a period; Unlimited stands *)
(* for "max" (v2) and -1 (v1).  Rayon takes a size of zero for "as many as *)
(* the host has".                                                          *)
(***************************************************************************)
EXTENDS Integers

Absent == [quota |-> -2, period |-> 0]
Unlimited == [quota |-> -1, period |-> 1]
NoCores == 0

AtLeastOne(n) == IF n < 1 THEN 1 ELSE n

\* Mutant: rounded down, which makes less than a core none at all.
quota_cores_floor(f) ==
  IF f.quota <= 0 \/ f.period <= 0 THEN NoCores ELSE f.quota \div f.period

(* ceil(quota / period), at least one; no answer without a quota. *)
quota_cores(f) ==
  IF f.quota <= 0 \/ f.period <= 0
  THEN NoCores
  ELSE AtLeastOne((f.quota + f.period - 1) \div f.period)

(* v2 if it answers, then v1, then the parallelism the host offers, then 1. *)
effective_core_count(m) ==
  IF quota_cores(m.v2) # NoCores THEN quota_cores(m.v2)
  ELSE IF quota_cores(m.v1) # NoCores THEN quota_cores(m.v1)
  ELSE AtLeastOne(m.parallelism)

Threads(m, n) == IF n = 0 THEN m.host ELSE n

\* Mutant: --max-workers 0 is handed to rayon, for which 0 is every core.
resolve_unclamped(m, pool, a) ==
  IF a.pin \/ a.size < a.threshold THEN 1
  ELSE Threads(m, IF a.max_workers >= 0 THEN a.max_workers ELSE pool)

(* The threads of a transfer with the arguments a, on a global pool asked to
   have pool threads; a negative max_workers stands for none given. *)
resolve(m, pool, a) ==
  IF a.pin \/ a.size < a.threshold THEN 1
  ELSE Threads(m, IF a.max_workers >= 0
                  THEN AtLeastOne(a.max_workers) ELSE pool)
=============================================================================
