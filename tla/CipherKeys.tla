----------------------------- MODULE CipherKeys -----------------------------
(***************************************************************************)
(* From --cipher, --key-size and a key to an engine: what the commands do  *)
(* before they touch data, each with its own selection of the checks.      *)
(*                                                                         *)
(*   image     spec, key from a file, validate_key, SectorEngine::new      *)
(*   validate  spec, key from a file, SectorEngine::new                    *)
(*   keycheck  spec, key from a file, validate_key                         *)
(*   bench     spec, generated key, SectorEngine::new                      *)
(*   keygen    spec, generated key                                         *)
(*                                                                         *)
(* A key is a sequence of 8-byte words, each a value of a small alphabet.  *)
(* A key file is given by the words it stands for and by how it is written *)
(* down: as they are, or as the text of their hex or base64 form.  Its     *)
(* variables, file and present, belong to whoever writes it: no action of  *)
(* this module changes them.                                               *)
(***************************************************************************)
EXTENDS Integers, Sequences

CONSTANTS Sizes,      \* values of --key-size, NoSize where it is not given
          NoSize,
          Alphabet    \* words of a generated key; 0 is that of eight zero bytes

VARIABLES
  file, present,         \* the key file's words, and whether there is one
  look,                  \* "binary", or the text it holds: "hex", "base64"
  command, mode, size, format,   \* the command line
  data,                  \* what fs::read has of the file
  key,                   \* what parse_key makes of it, or the generated key
  bits,                  \* aes_bits
  pc                     \* the step, "ready", or the error

keyVars == <<look, command, mode, size, format, data, key, bits, pc>>

Modes    == {"XtsPlain64", "CbcEssivSha256"}
Loading  == {"image", "validate", "keycheck"}
Commands == Loading \cup {"bench", "keygen"}
Formats  == {"auto", "raw", "hex", "base64"}
AllZero(k) == \A i \in DOMAIN k : k[i] = 0

InitWith(commands, formats) ==
  /\ command \in commands /\ mode \in Modes /\ size \in Sizes /\ format \in formats
  /\ data = <<>> /\ key = <<>> /\ bits = 256 /\ pc = "spec"

(* No command of this module runs.                                         *)
KeysIdle ==
  /\ command = "none" /\ mode = "XtsPlain64" /\ size = NoSize /\ format = "auto"
  /\ look = "binary" /\ data = <<>> /\ key = <<>> /\ bits = 256 /\ pc = "idle"

-----------------------------------------------------------------------------
\* Mutant: the ESSIV key size is not looked at.
SizeAllowedXtsOnly(m, b) ==
  b \in {128, 192, 256} /\ (m = "XtsPlain64" => b # 192)

(* with_aes_bits.                                                          *)
SizeAllowed(m, b) ==
  /\ b \in {128, 192, 256}
  /\ m = "XtsPlain64" => b # 192
  /\ m = "CbcEssivSha256" => b = 256

\* Mutant: the key of XTS is not doubled.
RequiredUndoubled(m, b) == b \div 64

(* required_key_bytes, in words.                                           *)
Required(m, b) == IF m = "XtsPlain64" THEN 2 * (b \div 64) ELSE b \div 64

AfterSpec == IF command \in Loading THEN "open" ELSE "generate"

ResolveSpec ==
  /\ pc = "spec"
  /\ IF size = NoSize THEN pc' = AfterSpec /\ UNCHANGED bits
     ELSE IF SizeAllowed(mode, size) THEN pc' = AfterSpec /\ bits' = size
     ELSE pc' = "unsupported" /\ UNCHANGED bits
  /\ UNCHANGED <<look, command, mode, size, format, data, key>>

AfterKey == CASE command \in {"image", "keycheck"} -> "validate"
              [] command \in {"validate", "bench"} -> "engine"
              [] command = "keygen"                -> "ready"

(* A generated key has the length its spec requires.                       *)
Generate ==
  /\ pc = "generate"
  /\ key' \in [1 .. Required(mode, bits) -> Alphabet] /\ ~AllZero(key')
  /\ pc' = AfterKey
  /\ UNCHANGED <<look, command, mode, size, format, data, bits>>

-----------------------------------------------------------------------------
OpenKey ==
  /\ pc = "open"
  /\ pc' = "io" \/ (present /\ pc' = "read")
  /\ UNCHANGED <<look, command, mode, size, format, data, key, bits>>

\* Mutant: the buffer is as long as the key is meant to be, and what the file
\* does not fill of it stays zero.
ReadPadded ==
  /\ pc = "read" /\ pc' = "parse"
  /\ data' = [i \in 1 .. Required(mode, bits) |-> IF i <= Len(file) THEN file[i] ELSE 0]
  /\ UNCHANGED <<look, command, mode, size, format, key, bits>>

(* One read of fs::read, which goes on until one returns nothing: what is  *)
(* in the file by then, at the place it has got to.                        *)
Read ==
  /\ pc = "read"
  /\ \/ pc' = "io" /\ UNCHANGED data
     \/ Len(file) > Len(data) /\ UNCHANGED pc
        /\ data' = data \o SubSeq(file, Len(data) + 1, Len(file))
     \/ Len(file) <= Len(data) /\ pc' = "parse" /\ UNCHANGED data
  /\ UNCHANGED <<look, command, mode, size, format, key, bits>>

(* resolve, and detect_format under auto: text of an even number of hex    *)
(* digits is hex, whether or not it is base64 too.                         *)
Format == IF format # "auto" THEN format
          ELSE IF look = "binary" \/ data = <<>> THEN "raw" ELSE look

(* Half a word: base64 text and what it decodes to come in fours of bytes. *)
HalfWord == -1
NumBytes(k) == 8 * Len(k) - (IF k # <<>> /\ k[Len(k)] = HalfWord THEN 4 ELSE 0)

(* The text of a key, taken as a key: twice the words, none of them zero,  *)
(* or n bytes of which nothing is known but whether they repeat.           *)
HexText(k) == [i \in 1 .. 2 * Len(k) |-> IF i % 2 = 0 THEN 10 + k[i \div 2] ELSE 10]
OtherText(n) ==
  LET last == (n + 7) \div 8
  IN  {[i \in 1 .. last |-> IF i = last /\ n % 8 # 0 THEN HalfWord ELSE 10 + (i * s)]
         : s \in {0, 1}}

(* parse_key: what the bytes may decode to, nothing if it is an error.     *)
Parsed ==
  CASE data = <<>> -> {<<>>}
    [] data # <<>> /\ look = "binary" -> IF Format = "raw" THEN {data} ELSE {}
    [] data # <<>> /\ look # "binary" /\ Format = look -> {data}
    [] data # <<>> /\ look = "hex" /\ Format = "raw" -> {HexText(data)}
    [] data # <<>> /\ look = "hex" /\ Format = "base64" -> OtherText(12 * Len(data))
    [] data # <<>> /\ look = "base64" /\ Format = "raw" ->
         OtherText(4 * ((8 * Len(data) + 2) \div 3))
    [] data # <<>> /\ look = "base64" /\ Format = "hex" -> {}

Parse ==
  /\ pc = "parse"
  /\ \/ Parsed = {} /\ pc' = "io" /\ UNCHANGED key
     \/ key' \in Parsed /\ pc' = AfterKey
  /\ UNCHANGED <<look, command, mode, size, format, data, bits>>

-----------------------------------------------------------------------------
(* chunks(p): words i and j of the same chunk position, the first chunk    *)
(* the pattern.                                                            *)
ChunksEqual(k, p) ==
  \A c \in 0 .. (Len(k) \div p) - 1 : SubSeq(k, c * p + 1, (c + 1) * p) = SubSeq(k, 1, p)

Periods(k) == {p \in 1 .. Len(k) - 1 : Len(k) % p = 0 /\ ChunksEqual(k, p)}

\* Mutant: the bound of the search is exclusive, so two equal halves pass.
RepeatsBelowHalf(k) ==
  \E p \in 1 .. (Len(k) \div 2) - 1 : Len(k) % p = 0 /\ ChunksEqual(k, p)

(* detect_repeating_pattern finds a period.                                *)
Repeats(k) == Periods(k) # {}

Fits == NumBytes(key) = 8 * Required(mode, bits)

(* validate_key, in its order; its Shannon entropy may be below the floor  *)
(* for any key.                                                            *)
Validate ==
  /\ pc = "validate"
  /\ \/ pc' = "invalid"
     \/ /\ Fits /\ ~AllZero(key) /\ ~Repeats(key)
        /\ pc' = IF command = "image" THEN "engine" ELSE "ready"
  /\ UNCHANGED <<look, command, mode, size, format, data, key, bits>>

(* SectorEngine::new, with its unreachable!.                               *)
BuildEngine ==
  /\ pc = "engine"
  /\ pc' = IF ~Fits THEN "wrong_length"
           ELSE IF mode = "CbcEssivSha256" /\ bits # 256 THEN "panic"
           ELSE "ready"
  /\ UNCHANGED <<look, command, mode, size, format, data, key, bits>>

KeysOver == pc \in {"idle", "ready", "unsupported", "io", "invalid", "wrong_length", "panic"}

KeysNext ==
  ResolveSpec \/ Generate \/ OpenKey \/ Read \/ Parse \/ Validate \/ BuildEngine

-----------------------------------------------------------------------------
(* The engine's unreachable! is: no command line and no key brings a spec  *)
(* to it that with_aes_bits should have refused.                           *)
UnreachableIsUnreachable == pc # "panic"

(* No key that is a shorter word repeated gets to encrypt an image.  The   *)
(* reference is that the key agrees with itself moved by the word's length.*)
NoRepeatedWord ==
  pc = "ready" /\ command \in {"image", "keycheck"} =>
    \A p \in 1 .. Len(key) - 1 :
      Len(key) % p = 0 => \E i \in 1 .. Len(key) - p : key[i] # key[i + p]

(* XTS takes two AES keys of equal size, ESSIV one of 256 bits: what is    *)
(* ready to run has exactly the material its algorithm takes, whatever the *)
(* file was taken for.                                                     *)
MaterialIsExact ==
  pc = "ready" => NumBytes(key) * 8 = IF mode = "XtsPlain64" THEN 2 * bits ELSE 256

=============================================================================
