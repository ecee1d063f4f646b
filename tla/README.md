# nocap-crypt in TLA+

nocap-crypt encrypts and decrypts disk images in userspace so that the result can be
mapped by Linux dm-crypt (`aes-xts-plain64`, `aes-cbc-essiv:sha256`). It is one process:
a command-line front end, a worker that splits an image into ranges of 512-byte sectors
and puts them through the cipher on the calling thread or on a rayon pool, and a few
threads and helpers around it. This directory holds TLA+ modules translated from the
Rust sources (paths below are relative to `src/crates/`), TLC configurations that check
them on small instances, and proofs checked by TLAPS.

    tlc -config Dispatch.cfg MCDispatch.tla      # one of the runs of PROJECT.json
    tlapm TransferProofs.tla                     # one of the proof modules

`PROJECT.json` lists the components, the runs, a mutant of the code for every property,
the source lines of every definition, the hazards and the theorems.

## 1. The system

| Component | State it keeps | Operations | Talks to |
|---|---|---|---|
| Sector cipher (`nocap-crypt-core` `iv.rs`, `engine.rs`) | key schedule, constant during a command | `encrypt_range`, `decrypt_range` | called by the worker, on any thread |
| Range splitting (`nocap-crypt-worker/dispatch.rs` `chunk_ranges`) | two locals | one loop | its result is handed to `process_ranges` |
| Transfer (`dispatch.rs` `process_ranges`, `process_one_range`) | two files, a pool, a shared `AtomicU64` | read, encrypt or decrypt, write, count | sector file I/O, cipher, displays (the counter) |
| Sector file I/O (`nocap-crypt-blockio/sectorio.rs`) | a handle, whether it is O_DIRECT | `read_at_exact`, `write_at_exact`, `set_len`, `create_sparse_output` | the kernel |
| image encrypt / decrypt (`nocap-crypt-cli/cmd/image.rs`) | files, exit code | resolve, load, stat, size, open, transfer, compatibility check | all of the above |
| Interactive display (`progress/mod.rs`) | a thread, a bar, a tick count | `start`, the thread's loop, `finish` | shared counter, join |
| CI progress (`ci_progress.rs`) | locals of a polling loop | `run` against a scoped worker thread | shared counter, `is_finished`, join |
| Key file (`nocap-crypt-keymgmt/keygen.rs`) | the file on disk | `write_key_file` | other runs of keygen; every command that loads a key |
| Key loading, spec and key checks (`keyload.rs`, `format.rs`, `cipherspec.rs`, `validate.rs`) | none | `load_key_file`, `parse_key`, `with_aes_bits`, `validate_key`, `SectorEngine::new` | the key file; five commands, each with its own choice of the checks |
| cryptsetup compatibility check (`cryptsetup_compat.rs`) | a loop device, a mapping, two temporary files, a `Guard` | six set-up steps, three clean-up steps | `cryptsetup`, `losetup`, the kernel |
| align check / fix (`cmd/align.rs`, `alignment.rs`) | the length of a file | stat, `align_up`, `set_len` | other writers of the file |
| validate (`cmd/validate.rs`, `nocap-crypt-luks/structural.rs`) | none | stat, structural check, read and decrypt of the head | a file others may truncate, the cipher |
| entropy, inspect (`cmd/entropy.rs`, `cmd/inspect.rs`, `nocap-crypt-entropy`) | the window being filled, the scores | `analyze_stream`, `min_window_entropy`, the threshold | a reader that delivers what it likes |
| bench (`cmd/bench.rs`, `nocap-crypt-bench/runner.rs`) | a directory in the temporary directory, a list of results | one pass per worker count | the worker, the interactive display |
| Invocation (`lib.rs`, `env_config.rs`, `completions.rs`, `redpill.rs`) | none after start | choice of reporter and command, reading of the environment, the outcome, the exit code | all commands, standard output |
| Reporters (`nocap-crypt-ui`, `reporter_setup.rs`) | none | `report`, what is dropped, text or JSON | standard output, whose reader may go away |
| Worker pool size (`cgroup.rs`, `heuristic.rs`, `concurrency.rs`) | rayon's global pool | quota files to a core count, `resolve` | the transfer's number of threads |
| System information, narration, frames, key representation | none | text | - |

What is hard in it, and what would make each part correct:

- **Transfer.** Any thread takes any range, input and output may be one file, every read
  and write may fail while other threads go on, and the process may be killed. A correct
  transfer puts every covered sector through the cipher exactly once under its own
  absolute number; at every instant each sector is old, final or (after a failure) torn;
  Ok means all of them are final; an error is not lost and nobody waits for ever.
- **Ranges.** The last one is shorter; the length may be zero or end inside a sector. The
  ranges must partition the sectors.
- **Displays.** Two threads share one relaxed counter and wait for each other. A bar
  must not show work that is not done, the last line of a CI log must be the final count
  whatever the interleaving, and a command must return.
- **Sector file I/O.** Short transfers, O_DIRECT's alignment rules, a file that ends
  early: nothing lost, nothing written outside the call, no length changed.
- **Image commands.** Many ways to fail before, while and after the output is created;
  retries over what an earlier failure left; sizes near the largest u64.
- **Key file.** `exists` and `open` are two steps, truncation comes before the write, and a
  command may read the file between any two of them, or what a kill has left. A key that
  is used must be one run's whole key, in the length its algorithm takes.
- **Spec and key checks.** Five commands each apply a different subset; the engine has an
  `unreachable!` that relies on one of them.
- **Compatibility check.** Every step may fail with others to be undone, and what was
  written through the mapping reaches the backing file when the kernel sees fit.
- **align fix.** stat and `set_len` are two steps; `align_up` adds unchecked.
- **validate.** The length is older than the content. A volume that was truncated must not
  be vouched for by a buffer's zeroes.
- **entropy.** Short reads shift windows; one weak stretch must not hide in the whole.
- **Invocation.** Six flags, twelve commands and some forty exits combine. What must hold on
  every path: a JSON stream is JSON, a quiet run is silent, a CI log ends with the exit
  code, a failure says why, and no command starts on a faulty environment. A panic and the
  programs the process starts go past all of this.
- **Pool size.** A quota that rounds to zero means "all cores of the host" to rayon.

## 2. Modules

Composition (arrows: EXTENDS or INSTANCE):

    SectorCipher   SectorRanges                    ProgressJob
         \          /      |                        /        \
          Transfer ------- | ---> AtomicTransfer  LiveProgress  CiProgress
             |         ChunkLoop   (refined)          \        /
          Dispatch <-------+                           Progress   (Background: with Leftovers)
    ImageCommand <- SectorCipher, SectorRanges
    KeyFile   CipherKeys      CompatGuard   BenchSweep     AlignFix  VolumeChecks  EntropyScan
        \      /                  \         /                  \        |         /
       KeyCommands                Leftovers                      FileCommands
            \________________________________________________________/
                                   SharedFiles
    EnvConfig   Reporting   WorkerPool
           \        |        /
               Invocation                               SectorIO (alone)

`VolumeChecks` too takes its sectors from `SectorCipher`.

**SectorCipher** - `plain64_iv`, `encrypt_range`, `decrypt_range`, `cbc_essiv_crypt_range`.
Both modes are keyed permutations of one sector selected by its IV, with no chaining
between sectors, so a sector's content is where its bytes came from plus the list of
operations applied since. Encryption and decryption under one IV cancel; nothing else
does. `IvWord` is 2^32 in the code.

**SectorRanges, ChunkLoop** - the result of `chunk_ranges` in closed form, and its loop.

**Transfer** - `process_ranges` and `process_one_range`. Per thread: `pc`, the range, the
buffer, the next sector to write. `Claim` is rayon's hand-out (any order; the calling
thread in order; none after a failure), `ReadCrypt` the zeroed buffer, the read up to
`data_len` and the cipher, `WriteSector` / `WriteFail` the write, sector by sector and
possibly torn, `CountRange` the `fetch_add`, `PoolBuildFails` the `?` on the pool builder,
`Return` the end of the call. A read is one step because no other range touches its
sectors - also in place, since a range's own write comes after its read. Memory is shared
through the counter only, and the counter is read by nobody who then acts on data, so
`Relaxed` needs no weak-memory model here.

**AtomicTransfer** - what the callers rely on, without threads, ranges or buffers: each
sector is replaced by its goal at most once; Ok only when all are; an error may spoil the
sector it happened in. `Transfer` implements it (`ImplementsPromise`).

**Dispatch** - `ChunkLoop` and then `Transfer`, as `run_encrypt_impl`, `run_decrypt_impl`
and bench's `run` call them.

**LiveProgress, CiProgress, Progress** - the two displays over the same counter, and
`dispatch_with_progress`, which chooses one. The work is what `Transfer` shows of
`process_ranges`: finished ranges add to the counter, Ok is returned when all have, Err
when some range has not. `is_finished` is true only after the worker's outcome is stored,
so `WorkEnds` and `ThreadGone` are two steps; the poller's two reads are two steps too.
**Background** runs either `Progress` or `Leftovers` (below), what goes on beside a command's
own work.

**SectorIO** - one `read_at_exact` or `write_at_exact` on a handle, with and without
O_DIRECT. The kernel may transfer less than asked, refuses a misaligned direct transfer,
and may fail after part of a write.

**ImageCommand** - `image encrypt` and `image decrypt`, several after another on the same
three paths. The transfer is that of `Transfer` with the threads left out: `ReadRange` takes
any range that is left and puts it through the cipher into `buf`, `WriteSector` writes the
next sector of any range in `buf`, `Transferred` is the `Ok` after the last one, and `Stop`
is an error or a kill, with of each range in flight a beginning written and perhaps one
sector torn, even beyond the end of the file. Another program may truncate the input
between any two of these steps: a range is read as a whole before it or not beyond what it
left (`Readable`), so a command may still succeed. The process may be killed at any step.

**KeyFile** - several runs of keygen on one path: the check, the truncating open, the write
in pieces, failures and kills. **CipherKeys** - from `--cipher`, `--key-size`, `--key-format`
and a key file to an engine, for five commands: `fs::read` takes what is in the file at
each of its reads, `Format` is the given or the detected format, `Parsed` what the bytes
decode to - also when text is taken for raw bytes, or hex for base64 - and then come the
checks of each command in its order. **KeyCommands** puts the two on one path: the words of
the key file are those the runs of keygen have written so far.

**CompatGuard** - `run`, `run_inner` and `Drop for Guard`. The fixture is written through the
mapping without a sync: `WriteFixture` leaves its ciphertext pending in the kernel, `WriteBack`
(external) stores it in the backing file or loses it, and `Compare` reads what is there by
then. The last close of a block device flushes it, but reports no error, and is not the last
while another program (udev's probe) has the mapping open. **BenchSweep** - the sweep over
`--workers`. **Leftovers** runs one of the two: both set up things outside their own files,
under names made from the process's id.

**AlignFix** - `align check` and `align fix` beside a program that appends.
**VolumeChecks** - `validate`: stat, structure, key, read, magic number, with a program that
truncates the file; the content is an image encrypted with the command's key or another.
**EntropyScan** - `analyze_stream` and the gate of `entropy --threshold`; a window's Shannon
figure is compared with a threshold of t bits without logarithms, since n bytes with
counts c1, c2, ... have t bits or more exactly if n^n >= 2^(nt) c1^c1 c2^c2 ... .
**FileCommands** runs one of the three. **SharedFiles** runs either that or `KeyCommands`: the
commands over files that other programs write.

**Reporting** - which reporter the flags choose, which events each drops, and for every
command the sequence of its reports and of the places where it may end, with the exit
code there, where it panics (`PanicOver`: zero as `--alignment`, `--window-size` or
`--sector-size`, a `--window-size` or `--data-len-mb` beyond the largest allocation, a system
without random bytes for a key), or where it runs programs that inherit the standard streams (`Tools`). **EnvConfig** - the variables of standalone `--ci`, their order and what is
accepted. **WorkerPool** - from the cgroup's quota files to the threads of a transfer.
**Invocation** composes them into `run` of `lib.rs`: `Start` (the global pool, the easter
egg), `Primer`, `Choose`, `ReadVariable`, the walk through the command's reports (`Say1`,
`MayEnd`, `ShowProgress`, `MayPanic`, `RunTools`, `Complete`) and `ReportOutcome`; `CloseOutput` is
the reader of standard output going away, after which the next `println!` aborts the program.
A scenario says what, if anything, there is to panic over (`sc.fatal`); lines of other
programs are of the kind `Tool`, and what they write to standard error is `noise`.

`MCDispatch`, `MCSectorIO`, `MCImageCommand` and `MCInvocation` define the instances. Definitions marked
`Mutant:` in the modules are not part of any specification: each is a plausible bug, and
substituting it for the definition after it makes TLC refute the property it is listed
with in `PROJECT.json`.

## 3. Runs

| Run | Question | Bounds, and why they are enough |
|---|---|---|
| `dispatch` | Is a successful dispatch complete, is each sector old or final at every instant, do the ranges partition the sectors, is the counter honest, is the promise kept, does it return? | 2-byte sectors, ranges of 2 sectors. Pools: 2 threads over 2 or 3 ranges, 3 threads over 3; the last range full or short; `data_len` ending in a sector, a range, or the padding; in place or not. Calling thread: every length from 0 to 4 sectors, both directions, counted or not. Three ranges are the first case in which one may be claimed, one finished and one untouched at once; three threads the first in which two others run while one fails. `IvWord` = 3 makes the low half of the IV wrap within the instance. |
| `sector_io` | Does any sequence of short, refused or failed transfers lose or misplace a byte, change a length, or hit the alignment rule? | A unit is 256 bytes; chunk and page are 4 units, device blocks 2 or 4, all chunk offsets of a file of 6 to 10 units, all lengths up to a chunk. |
| `image` | After any failures, kills and retries, is what a successful command leaves complete, also if its input became shorter after the stat? Does a command change anything else? Do sizes wrap? | Three kinds of session: three commands over each other's files; two commands in place; one command with every argument error and every alignment and padding up to the largest value of a 4-bit u64, where every wrap occurs. |
| `image_aligned` (violation) | Is the output a multiple of `--align-block-size`, as the event says? | As above. |
| `background` | Is the bar honest, is the CI log's last line final, does the bar never retreat, does a command return (with a bar: when it succeeds)? Is anything left behind, is another process's mapping closed, is bench's report complete and in order? | Totals 0, 1, 7, 8, 20 with ranges of 2: nothing to do, one range, a total that is not a whole number of sectors, and enough ranges to cross each quarter. A Meme display lasts 3 ticks instead of 10 (the number only delays). The check has no bound: every step may fail, every subset of leftovers may exist. bench: lists of up to three entries, valid, zero or not a number. |
| `progress_hang` (violation) | Does `finish` return, as its comment says? | As above. |
| `shared_files` | Is the file always one key, and whole when reported? Is a key that a command uses one run's whole key, with exactly the material its algorithm takes? Is the `unreachable!` unreachable, is no repeated word accepted? Does a check after a fix pass, and is data cut off? Is validate's verdict right? Do the windows tile the stream, and does the gate pass exactly the streams without a weak stretch? | Three runs of keygen alone, or two beside a reader, keys of one or two 32-byte units: a shorter key over a longer one is the smallest case of mixing, and the half of a two-unit key the smallest prefix. Every mode, every `--key-size` of seven, every binary key of up to 9 eight-byte words over two values (the longest valid key has 8) and every text of up to 4 in each format. align: two runs, a 4-bit u64 with every length, eight alignments at and around the powers of two and the largest value, two appends. validate: up to 9 sectors, one more than the head; the magic of ext in the third sector as in the code. entropy: every stream of up to 5 bytes over three values, windows of 1 to 4, reads of any size: a short read in the first, a middle and the last window. |
| `key_file_race` (violation) | Is a file never overwritten without `--force`, as the comment says? | Three runs of keygen. |
| `compat_writeback` (violation) | Is a mismatch always one of the ciphers, as the comment says? | The check alone. |
| `invocation` | Does the program keep its own JSON, CI and quiet streams clean, is a CI log closed by its exit code, is a failure explained, is the environment checked first, do the threads fit the quota? | All 64 combinations of the flags with all commands, with and without a reader that goes away; the commands that may panic, with each cause; standalone `--ci` with the operation and any two other variables unset, empty, not Unicode or malformed; every pair of v1 and v2 quotas below, at and above whole cores. |
| `quiet` (violation) | Is a run under `-q` silent, as its help says? | `-q` with the commands that may panic, and each cause; `-q image encrypt`, with and without the compatibility check. Either part alone violates the claim. |
| `completions_pipe` (violation) | Does `completions` fail cleanly on a closed pipe, as its comment says? | `completions bash` with a reader that may go away. |

`background` and `shared_files` each check two specifications that share no variable
(`Progress` and `Leftovers`, `FileCommands` and `KeyCommands`): an initial state starts one of
the two and the other stays idle, so the run explores the sum of their states, not the
product, and what it says of each is what a run of it alone would say. The theorems of
section 4 are about each by itself.

No run turns deadlock checking off: each module has a disjunct for a system that has
ended (`Returned`, `Over`), so TLC reports any other state without a successor.

**Fairness.** `DispatchSpec` has weak fairness for each thread's step, for the loop of
`chunk_ranges` (`Split`) and for the caller's `Return`: the operating system schedules runnable
threads and a file operation returns, with success or an error. Nothing is assumed about
which range a thread takes, or that any operation succeeds. `Progress` has weak fairness
for each of its threads, for the same reason; the work ends because `Transfer` does
(`Termination`). The other specifications need none: they state safety only. Nobody is
assumed to close standard output, to append or to truncate, nor not to.

**Hazards.** Every property is aimed at a hazard of `PROJECT.json`, at its source line.
Those without a property say why; section 6 ends with the lesser ones that no property is
about.

## 4. What is proved

Every theorem holds for all values of the constants that satisfy the named assumptions:
any sector size, range size, number of threads, jobs, sessions, files, keys, streams, flags,
environments, machines. They state every safety property the passing runs check: the run
shows it on a small instance, the theorem on all of them.

| Module | About | Theorems |
|---|---|---|
| `SectorProofs` | `SectorRanges`, `SectorCipher` | `IvInjective`; lemmas on the cipher, the closed form and on numbers |
| `TransferProofs` | `Transfer`, `ChunkLoop`, `Dispatch` | `TypeCorrect`, `SectorsOldOrFinal`, `SuccessComplete`, `KeepsPromise`, `PrefixIsSynchronous`, `CounterIsHonest`, `NoEqualCiphertext`, `LoopIsClosedForm`, `LoopPartitions`, `DispatchTransfers`, `DispatchSplits`, `DispatchPartitions`, `DispatchIsCorrect` |
| `BackgroundProofs` | `Progress` | `BarHonest`, `LastLineIsRight`, `BarAdvances` |
| | `Leftovers` | `NothingIsLeft`, `OthersAreLeftAlone`, `SweepReportsAll` |
| `SectorIOProofs` | `SectorIO` | `ReadIsExact`, `WriteIsExact`, `NoneRefused` |
| `ImageProofs` | `ImageCommand` | `SuccessIsWhole`, `DecryptGivesBack`, `OthersUntouched`, `InputIsKept` |
| `KeyProofs` | `KeyCommands` | `KeysDoNotMix`, `WrittenKeyIsWhole`, `UsedKeyWhole`, `MaterialFits`, `PanicIsUnreachable`, `RepeatedWordIsRefused` |
| `FileProofs` | `FileCommands` | `FixIsSeen`, `CutIsOvertaken`, `VerdictHolds`, `ScanTiles`, `GateHolds` |
| `InvocationProofs` | `Invocation`, `Reporting`, `EnvConfig`, `WorkerPool` | `StreamsAreClean`, `OutcomeIsLast`, `FailuresAreExplained`, `UsableBeforeRun`, `ThreadsFit` |

**Sectors.** Two sector numbers below `IvWord`^2, the range of a u64, never have one IV,
because quotient and remainder determine a number. That decrypting undoes encrypting under
the same number is how `Crypt` is defined, and no result of this project (a lemma only).
Ranges lie inside the sectors, are disjoint, cover them, and end where the next begins.
Where a proof needs the largest number of a set (`LargestNumber`, and `LeastNumber` in
`KeyProofs`), it comes from the finiteness of the set, by its cardinality.

**Transfer.** `OldOrFinal` and `SuccessIsComplete` are not inductive: from a state in which
two threads held the same range, or a buffer held the wrong data, a step would break
them. `Inv` adds who owns what: no two threads hold one range (`Exclusive`); an unclaimed
range is untouched and a finished one is complete (`RangeInv`); a thread that is reading
has not yet touched its range, one that is writing has the final data in its buffer and
has written exactly the sectors below its position (`ThreadInv`); without a failure every
claimed, unfinished range has a thread; an input that is not the output never changes
(`InputInv`); and after the return every thread is idle, with all ranges claimed if the
result is Ok (`ResultInv`). In-place operation is where this is needed most: that the read
sees the initial content follows from the range being untouched by anyone but its owner.

`MoreInv` adds the order and the count. Within a range, also one that was given up after a
failure, a touched sector has only final ones before it (`PrefixInv`); the calling thread has
finished every range before the one it is at (`OrderInv`), and the two make the prefix of
`SynchronousPrefix`; the counter is the size of the finished ranges, each counted once
(`CountInv`), so that it is never ahead of the final sectors and equals the total after Ok.
`EqualSectorsDiffer` compares the last operations on two sectors, whose IVs differ.

`KeepsPromise` is the refinement of `AtomicTransfer`: `goal` is the final contents, `out` the
output file, `broken` is `failed` and `status` is `result`. `WriteSector` is `Produce` - the sector
is not yet final, because it is initial and the cipher moves every content
(`FinalIsNew`) -, `WriteFail` is `Break`, `Return` is `Succeed` or `Fail`, and everything else is a
stutter. `LoopInv` says that after n turns of `chunk_ranges` `start` is the beginning of the n-th
range or the total. `Dispatch` implements both `Transfer` and the loop: each leaves the other's
variables alone.

**Displays.** Each value a thread holds lags behind the one it was copied from: the bar is at
most the thread's sample, the sample at most the counter, and the display leaves only at
the total (`LiveInv`); the CI poller sees the worker finished only after its outcome was set,
and takes the sample it reports last after that (`CiInv`) - the order of two lines in the code.

**Sector file I/O.** The loop invariant: the first `moved` bytes are in place, and, of a write,
no other (`Prefix`). For O_DIRECT a read that came short stands at a block, at the end of the
file, or is done. `NoneRefused` is for the calls of the image commands (`PageCalls`: offset and
rounded length are whole pages), which `MCSectorIO` assumes of its instance and TLC checks;
bench makes others.

**Image commands.** A command that has not opened its output has changed nothing, and the other
paths stay as they are throughout (`Frame`); the lengths it goes by are those of the files it
started with, and an input that another program has shortened is the beginning of what it was
(`Sizes`). During the transfer every sector is in one of three places (`Places`), and right there
(`Contents`): in a range not read yet, where an input that is also the output still holds what
`set_len` left it; in a buffer, as promised; or in the output, which is then long enough for it.
`ReadsSource` is the step that needs care: what `Readable` admits of a shortened input is as it
was, and of no bytes nothing is kept. When no range and no buffer is left, the output is what
`CompleteOnSuccess` says (`Finished`). Nothing is claimed of an output that is also an input
which was shortened (`Whole`). `InputIsKept` is arithmetic: no
rounding that is accepted wraps, whatever the width of a u64.

**Keys.** While no two runs of keygen overlap, the file is a beginning of one run's key and the
writing run's is exactly what it has written (`FileInv`). What a command has read meanwhile is
a beginning of one run's key too (`ReadInv`), unless a run truncated the file under the read,
of which `UsedKeyIsWhole` says nothing: a command may then splice two keys. The length its
algorithm takes does the rest. `KeyInv` lists which checks a key has passed at each step.

**Leftovers.** Until `drop` begins, the `Guard` holds exactly the mapping and the loop device that
this run has set up, whatever step failed; and after each clean-up command that succeeded one
thing fewer is left (`CompatInv`). A sweep that reports has removed its directory (`SweepInv`).
Each pass that ended has left one result, that of its own entry, and the loop is past its last
entry only when there is one for each (`ResultsInv`). This holds whatever the filter of
`--workers` keeps, so that what `SelectSeq` computes does not matter to it.

**Files.** A length that a fix has measured is not below the data until something is appended in
its window, `align_up` of a length a file can have is the next multiple and never wraps
(`AlignUpFacts`: a file length is at most half of a u64), and a length made right for one
alignment loses that only when it changes (`AlignInv`). The stat of a volume nobody truncated is
its length, and the head decrypts to a magic number exactly if the volume has one
(`ChecksInv`, `MagicFound`). The windows scored so far are the first of the stream and the buffer
is what was read since, however reads fall (`ScanInv`). `GateHolds` says nothing of the figure
itself: it holds for any score of a stretch.

**Invocation.** A run can take some thousand paths through its flags, commands and exits, and
the proof must not go through them one by one. Every step is first brought to one of six
shapes (`Shape`, `StepShape`): it leaves the log alone, goes on with a line that is neither an
error nor an outcome, aborts, ends well, ends with a failure and its line, or closes a CI log.
For this the proof needs of the commands only which kinds of entries their scripts are made of
(`EntrySet`, `ReportsTyped`): what ends nothing is no error, what ends in failure is an error or
a message, and no reporter drops one of these (`ReporterFacts`). The invariants of the log then
follow from the shape. That an exit code is explained at the exit is not inductive; `EndInv`
says so of the log without its outcome line, from the step on that sets the code, and that
until then there is neither an error nor a code. `EnvInv` says that every variable before the
next one is usable and that an error names the next one; for this, what the order of reading
is made of: the four variables that must be set come first (`ReadsTyped`). `StreamsAreClean` is about what the program itself prints: under `-q` the log may have lines of other
programs, and only a panic that has its cause may abort (`StreamInv`). `PoolInv` says that
the threads of a transfer are resolved from the pool that `Start` sized; rounded up, n whole
cores are the fewest that cover a quota (`CeilingIsTight`), by division with remainder.

Assumptions: the constants' named ones (`SectorSizeAssumption`, `ChunkSectorsAssumption`,
`IvWordAssumption`: positive; `JobsAssumption`: a job's `data_len` is at most what its ranges cover,
and the calling thread is one thread; `SectorNumbersFit`: no sector number is beyond a u64; and those
of `ImageCommand`, `SectorIO`, `Progress`, `Leftovers`, `KeyCommands` and `FileCommands`: sizes are
numbers, u64 holds them; `InvocationAssumption`: flags are booleans, every variable has some
value, quotas and periods are integers of either sign, core counts are naturals, and nothing is
assumed of which come together). TLC evaluates all of them in the runs.

Only model-checked:

- `Termination` and `CommandReturns`, which are liveness under fairness: out of TLAPS's reach.
- What a recursive definition computes for every input, such as `SelectSeq` over every
  `--workers`: that would take an induction over data. No theorem rests on it.
- The six violations, which are counterexamples.

## 5. Where the code and its documents disagree

Six of these are runs (`expect: violation`):

- After an I/O error with a bar on screen the command hangs: the display thread waits for
  a count that the failed range will never add, and `finish` waits for the thread
  (`progress/mod.rs:165`, comment at 191). Under `--ci` and `--quiet` the same error returns;
  `CommandReturns` shows it for `--ci`.
- `--align-block-size` that is not a multiple of 512 yields a file that is no multiple of
  it, reported as `aligned: true` (`image.rs:503`).
- Two runs of keygen can both see no file, and the second truncates the first's key
  without `--force` (`keygen.rs:44`, comment at 39).
- `completions bash | head` is said to fail cleanly (`completions.rs:36`). The error of the
  write is returned, but reported with `println!` to the same closed stream, which panics
  and, in a release build, aborts (`lib.rs:239`, `event.rs:173`).
- A mismatch is said to be a real compatibility bug, unlike an operational failure
  (`cryptsetup_compat.rs:45`). A fixture that the kernel could not write back, or has not
  yet, compares unequal too (`cryptsetup_compat.rs:232-249`): there is no sync before the read.
- `-q` is said to mean no stdout and no stderr (`lib.rs:41`). A panic prints
  its message on standard error and aborts, without an exit code: `align fix --alignment 0`
  (`alignment.rs:13`), `--window-size 0` of `entropy` and `inspect` (`streaming.rs:47`),
  `inspect --sector-size 0` (`inspect.rs:69`, `86`), a huge `--data-len-mb` (`datagen.rs:40`),
  no random bytes (`keygen.rs:27`, on purpose).
  And `cryptsetup open`, `cryptsetup close` and `losetup -d` inherit both
  streams (`cryptsetup_compat.rs:222`, `115`, `118`), so that their messages appear under
  every reporter, `Silent` and the JSON of `--ci` included.

Others that the models were written around, without a run of their own:

- `progress/mod.rs:191`: `finish` waits at most one poll interval. Under Meme it waits for
  the whole reveal.
- `ci_progress.rs:24`: `is_finished()` is checked after sampling the counter. The code checks
  before, and that is the right order: the documented one is the mutant `TurnSampleFirst`,
  which breaks `FinalReport`.
- `sectorio.rs:149` and `dispatch.rs:56`: the alignment padding never goes through the cipher.
  It does (`image.rs:528` says so), and `CompleteOnSuccess` states what the code does.
- `image.rs:640`: a ciphertext's own length is the whole story. A file that is not a whole
  number of sectors is decrypted into a longer one; `CompleteOnSuccess` states that length.
- `cipherspec.rs:14`: 192 bits are accepted for CBC-ESSIV. `with_aes_bits` refuses them.
- `runner.rs:40`: temporary files are cleaned up before returning. Each `?` before
  `remove_dir_all` leaves them; `NothingLeaks` says of bench only what a success leaves.
- `sectorio.rs:15`: 4096 is safe for every device. Lengths and addresses are rounded to it,
  offsets are not, so bench with a `--chunk-sectors` that is no multiple of 8 asks for
  offsets that O_DIRECT refuses on a device with 4096-byte blocks.

- `ci.rs:6`: the CI reporter has Corporate's suppression list plus Banner. It drops
  Narration and Banner only (`ci.rs:16`); with Corporate's list a CI log would have neither
  progress lines nor an outcome.
- `lib.rs:41`, further: a command line that clap refuses is answered on standard error, `-q`
  or not; `-q completions bash` prints the script, and `-q --redpill image encrypt` exits 0 without encrypting (`lib.rs:151`).
- `entropy.rs:1` shows a pipeline from `image encrypt`, which writes to `--output` only.

## 6. What is not modelled

- The chi-square figure, printed and never acted upon; the rounding of floating point. The
  magic numbers of a LUKS header (`inspect` prints what it finds).
- Disk type, hardware path, backend, key representation: reads and conversions for texts.
- Wording: narration, quotes, S-box drawings, frames, tables, timestamps; the rewriting of
  the bash completion script.
- Parsing of the command line (clap) and of a variable's text: a value is good or malformed.
- Whitespace around a key in a file, and a text broken off inside: the words of a key text
  come whole. That a random key's bytes happen to be hex or base64 text.
- Inside modelled parts: permissions of the key file, the address of `AlignedBuffer`, the
  tail handle opened by path after the path was given to another file, Windows, timing.
- In place, an input that another program shortens after its stat gets its length back
  from `set_len`, so the loss is not noticed. `ImageCommand` has this behaviour;
  `CompleteOnSuccess` and `RoundTrip` state nothing about it (`ReadAsStated`).
- `ImageCommand` and `BenchSweep` exit as under `--ci` or `--quiet`; the wait for a display
  after an error is `Progress`. `Invocation` takes any exit of a command as possible: which
  one it is, is decided in the module of the command.
- The runtime's own ends: memory or threads that cannot be had.
- Noise that decrypts to a magic number by chance (`VolumeChecks`).

Known, in the models where they have a state, but no property's subject, because no
document promises anything else: a Meme bar keeps a short command waiting for ten polls
(`progress/mod.rs:163`); an in-place encryption that failed half-way cannot be retried
(`image.rs:418`); a kill during the compatibility check leaves mapping, device and key file
(`cryptsetup_compat.rs:181`); `--data-len-mb` may wrap (`bench.rs:63`); the first half of a 256-bit XTS key is a 128-bit XTS key
(`keygen.rs:55`); an optional variable that is not Unicode counts as unset
(`env_config.rs:83`); a last window of a few bytes cannot reach a high threshold
(`entropy.rs:71`); `inspect` takes a failing second read for a file without a header
(`inspect.rs:60`).

## 7. Plan

Done first, because everything rests on it: cipher, ranges, transfer, its promise and its
proofs; then the displays, file I/O, commands, keys, and the helpers around them; then the
invocation with its reporters, environment and pool, the read-only commands, and the
compositions. Next:

1. `SectorIO` with a path that is given to another file while the tail is written.
2. Composition: `Progress` with `Dispatch` in place of its abstract work; `ImageCommand`'s
   transfer as an abstraction of `Transfer`; its exits as those of `Reporting`.
3. Proofs: the compositions of item 2 as refinements.
