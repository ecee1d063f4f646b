---------------------------- MODULE EntropyScan ----------------------------
(***************************************************************************)
(* analyze_stream over a reader that delivers what it likes, and the gate  *)
(* `entropy --threshold` closes on its report.  `inspect` makes the same   *)
(* scan, without a gate.                                                   *)
(*                                                                         *)
(* A Shannon figure is compared with a threshold of t bits in integers:    *)
(* n bytes whose values occur c1, c2, ... times have at least t bits per   *)
(* byte exactly if n^n >= 2^(n t) * c1^c1 * c2^c2 * ...                    *)
(***************************************************************************)
EXTENDS Integers, Sequences, FiniteSets, Functions

CONSTANTS Bytes,       \* values of a byte
          MaxStream,   \* bytes of the longest stream
          WindowSizes, \* values of --window-size
          Thresholds   \* values of --threshold, in whole bits

VARIABLES
  stream, window_size, threshold,   \* the input and the options
  taken,     \* bytes the reader has delivered
  buf,       \* the window being filled
  windows,   \* the windows scored so far: offset and bytes
  scan       \* "read", "gate", or how it ended

scanVars == <<stream, window_size, threshold, taken, buf, windows, scan>>

NoThreshold == -1
Streams == UNION {[1 .. n -> Bytes] : n \in 0 .. MaxStream}

ScanInit ==
  /\ stream \in Streams /\ window_size \in WindowSizes /\ threshold \in Thresholds \cup {NoThreshold}
  /\ taken = 0 /\ buf = <<>> /\ windows = <<>> /\ scan = "read"

ScanIdle ==
  /\ stream = <<>> /\ window_size = 1 /\ threshold = NoThreshold
  /\ taken = 0 /\ buf = <<>> /\ windows = <<>> /\ scan = "idle"

-----------------------------------------------------------------------------
Counted(data, b) == Cardinality({i \in DOMAIN data : data[i] = b})
Power(c) == IF c = 0 THEN 1 ELSE c ^ c

(* shannon_entropy(data) >= t; the entropy of nothing is 0.                *)
ScoresAtLeast(data, t) ==
  LET n == Len(data)
      product == FoldFunction(LAMBDA x, y : x * y, 1, [b \in Bytes |-> Power(Counted(data, b))])
  IN  IF n = 0 THEN t <= 0 ELSE Power(n) >= 2 ^ (n * t) * product

-----------------------------------------------------------------------------
Scored(data) == [offset |-> taken - Len(data), bytes |-> data]

\* Mutant: whatever one read delivers is taken for a window.
ReadOnce(n) ==
  /\ scan = "read" /\ n \in 1 .. window_size /\ taken + n <= Len(stream)
  /\ taken' = taken + n /\ buf' = <<>>
  /\ windows' = Append(windows, [offset |-> taken, bytes |-> SubSeq(stream, taken + 1, taken + n)])
  /\ UNCHANGED <<stream, window_size, threshold, scan>>

(* One read of read_full: n of the bytes that are still missing.           *)
Read(n) ==
  /\ scan = "read" /\ n \in 1 .. window_size - Len(buf) /\ taken + n <= Len(stream)
  /\ taken' = taken + n
  /\ buf' = buf \o SubSeq(stream, taken + 1, taken + n)
  /\ UNCHANGED <<stream, window_size, threshold, windows, scan>>

(* A full window is scored and the next one begun.                         *)
Score ==
  /\ scan = "read" /\ Len(buf) = window_size
  /\ windows' = Append(windows, Scored(buf)) /\ buf' = <<>>
  /\ UNCHANGED <<stream, window_size, threshold, taken, scan>>

(* The reader has no more: a part of a window is scored as it is.          *)
EndOfStream ==
  /\ scan = "read" /\ Len(buf) < window_size /\ taken = Len(stream)
  /\ windows' = IF buf = <<>> THEN windows ELSE Append(windows, Scored(buf))
  /\ buf' = <<>> /\ scan' = "gate"
  /\ UNCHANGED <<stream, window_size, threshold, taken>>

ReadFails ==
  /\ scan = "read" /\ Len(buf) < window_size
  /\ scan' = "Io"
  /\ UNCHANGED <<stream, window_size, threshold, taken, buf, windows>>

\* Mutant: the gate looks at the figure of the whole stream.
BelowOverall(t) == ~ScoresAtLeast(stream, t)

(* min_window_entropy, 0 without windows, is below the threshold.          *)
Below(t) ==
  IF windows = <<>> THEN 0 < t
  ELSE \E i \in DOMAIN windows : ~ScoresAtLeast(windows[i].bytes, t)

Gate ==
  /\ scan = "gate"
  /\ scan' = IF threshold >= 0 /\ Below(threshold) THEN "EntropyFailed" ELSE "Success"
  /\ UNCHANGED <<stream, window_size, threshold, taken, buf, windows>>

ScanOver == scan \in {"Success", "EntropyFailed", "Io"} /\ UNCHANGED scanVars

ScanNext ==
  (\E n \in 1 .. MaxStream : Read(n)) \/ Score \/ EndOfStream \/ ReadFails \/ Gate \/ ScanOver

-----------------------------------------------------------------------------
(* However the reads fall, the windows follow each other without gap or    *)
(* overlap, every one but the last is full, and together they are all that *)
(* was read: no byte escapes the scores (streaming.rs:39-99).              *)
WindowsTile ==
  scan \in {"gate", "Success", "EntropyFailed"} =>
    /\ Len(windows) = (Len(stream) + window_size - 1) \div window_size
    /\ \A i \in DOMAIN windows :
         LET first == (i - 1) * window_size
             last  == IF i = Len(windows) THEN Len(stream) ELSE i * window_size
         IN  windows[i] = [offset |-> first, bytes |-> SubSeq(stream, first + 1, last)]

(* With a threshold, success means that every aligned stretch of the       *)
(* stream reaches it, so that an unencrypted region is not hidden by its   *)
(* neighbours; and a failure, that one does not, or that nothing came at   *)
(* all (streaming.rs:1-5, 29-37, cmd/entropy.rs:69-77).                    *)
GateIsRight ==
  LET stretch(k) == SubSeq(stream, k * window_size + 1,
                           IF (k + 1) * window_size < Len(stream)
                           THEN (k + 1) * window_size ELSE Len(stream))
      weak == \E k \in 0 .. (Len(stream) - 1) \div window_size :
                ~ScoresAtLeast(stretch(k), threshold)
  IN  threshold >= 0 /\ scan \in {"Success", "EntropyFailed"} =>
        (scan = "EntropyFailed" <=> IF stream = <<>> THEN threshold > 0 ELSE weak)
=============================================================================
