------------------------------ MODULE EnvConfig ------------------------------
(***************************************************************************)
(* The NOCAP_CRYPT_* variables of `nocap-crypt --ci` without a subcommand: *)
(* which are read, in which order, and what makes one unusable.  The value *)
(* of a variable is "unset", "empty", "not_unicode", "good" or "malformed" *)
(* ("encrypt", "decrypt" or "malformed" for OPERATION; any text is a good  *)
(* path).                                                                  *)
(***************************************************************************)
EXTENDS Sequences

Required == <<"INPUT", "OUTPUT", "KEY_FILE">>
Key == <<"KEY_FORMAT", "CIPHER", "KEY_SIZE">>
Align == <<"ALIGN_BLOCK_SIZE", "ALIGN_EXTRA_BLOCK">>
Workers == <<"MAX_WORKERS", "SMALL_FILE_THRESHOLD", "PIN_TO_SUBMISSION_THREAD">>

(* The order in which the fields of EncryptArgs and DecryptArgs are read. *)
ReadOrder(op) ==
  CASE op = "encrypt" -> Required \o Key \o Align \o Workers
    [] op = "decrypt" -> Required \o Key \o Workers
    [] op \notin {"encrypt", "decrypt"} -> <<>>

Names == {"OPERATION", "INPUT", "OUTPUT", "KEY_FILE", "KEY_FORMAT", "CIPHER", "KEY_SIZE",
          "ALIGN_BLOCK_SIZE", "ALIGN_EXTRA_BLOCK", "MAX_WORKERS",
          "SMALL_FILE_THRESHOLD", "PIN_TO_SUBMISSION_THREAD"}

(* optional: an unset, empty or non-Unicode variable has no value. *)
HasValue(v) == v \notin {"unset", "empty", "not_unicode"}

\* Mutant: what is not a number is taken for an absent option.
AcceptsLeniently(name, v) ==
  name \in {"OPERATION", "INPUT", "OUTPUT", "KEY_FILE"} => HasValue(v) /\ v # "malformed"

Accepts(name, v) ==
  IF name \in {"OPERATION", "INPUT", "OUTPUT", "KEY_FILE"}
  THEN HasValue(v) /\ v # "malformed"
  ELSE HasValue(v) => v # "malformed"
=============================================================================
