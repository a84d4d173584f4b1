# Formal model of mega65-disk-utility

The program tests, on macOS, whether a USB floppy drive can read Commodore
1581 disks: it seizes the drive's USB interface, saves the Flexible Disk mode
page of the controller, changes it to the 1581 geometry, reads the disk twice,
compares, puts the page back, gives the interface back and, if asked, writes
the image to a new file. This directory models the program from its command
line to its exit code. TLC checks the models on small instances, and TLAPS
proves every safety property that a passing run checks, for all values of the
constants.

Paths below are relative to the repository (`src/` there is the directory of C
files). Definitions keep the names of the C functions where TLA+ allows it;
`PROJECT.json` maps each definition to its lines.

## 1. Inventory of the system

| Component | State it keeps | Operations | Modelled by |
|---|---|---|---|
| Transport contract, `include/m65/transport.h` | held, call in progress | acquire, execute, release, destroy | `Transport` (abstract) |
| CBI engine, `src/cbi.c` | opened, recovery_required, the exchange in progress | the four above; inside execute: the Command Block Reset, the command's exchange, the REQUEST SENSE exchange | `CbiTypes`, `CbiEngine`, `CbiContract` |
| macOS adapter, `src/usb_cbi_macos.c` | open, desynchronized, reset_armed; the shared `MacInterruptRequest` with its reference count | create, open_seize, adsc, bulk_in/out, interrupt_in, clear_stall, prepare and finish of a reset, close, destroy; the interrupt callback | `MacCbi`, `UsbCreate`; with the engine: `CbiStack` |
| SCSITask transport, `src/scsi_macos.c` | exclusive, the device interface | create and the four transport operations; main no longer creates it | `ScsiTask` |
| Probe workflows, `src/probe.c` | the interrupt flag, the report, `restore_needed`, the saved page | `m65_inspect`, `m65_test_1581` | `Probe` |
| Program, `src/main.c` | the output file, the exit code | discover, select, create transport, run workflow, destroy, write the image, report, exit | `Program`, `RunSelected` |
| Discovery and device model, `src/discovery_macos.c`, `src/device.c` | the device list | enumerate, identify, describe, select, validate | `Program` |
| Command line, `src/cli.c` | options | parse | `Cli` |
| UFI, `src/ufi.c`, `src/bytes.c` | none | CDB builders, the allowlist, the parsers, the page and mask arithmetic | `UfiCommands`, `UfiParse`, `Geometry` |
| JSON writer, `src/json.c` | container stack, `failed` latch, the text | begin, end, key, value, finish | `JsonWriter`, `JsonDocument`, `JsonEscape` (read back with `Utf8`) |
| Reports, `src/output.c` | none | the JSON documents of four commands; printed text | `Reports` (JSON) |
| 1581 layout, `src/layout.c` | none | two address translations, sector copy, interleave order and candidate rules | `Layout` |

### What is hard here

* **A callback in every wait.** The completion interrupt arrives through the
  run loop: in time, during the drain after the deadline, or never. The request
  it writes is shared with the kernel.
* **Late completions.** After a timeout or a failed data phase the drive still
  owes a completion. Taken for the answer to the next command, it would turn a
  failure into a success.
* **Two records of lost phase.** The engine (`recovery_required`) and the
  adapter (`desynchronized`) each keep one, and a reset of several steps, any of
  which may fail, has to clear both or neither.
* **A change that must be undone.** Once MODE SELECT may have reached the drive,
  the page is owed back on every path: rejection, lost answer, rounded values,
  signal, failed read, unplugged drive.
* **A verdict that can be lost late.** Restoring, releasing, writing the file
  and closing it can each fail after two good reads.
* **Signals** between any two steps, and **another process** creating the
  output path.
* **A world that changes during discovery.** Media are plugged, unplugged and
  mounted between identification, description, selection, the second look-up by
  BSD name and the seize.
* **A drive that resets itself.** A loose cable or a power dip puts the drive's
  own geometry back in the middle of an image; all the host gets to see is a UNIT
  ATTENTION on the next command.
* **Lengths from the drive.** Every parser trusts some length byte of the
  response to decide how far to read.
* **Ignored results.** The emitters of the reports look at almost nothing the
  JSON writer returns.
* **Failures half way** through creating a transport, which holds up to four
  kinds of reference at a time.

### What makes each part correct

* Any transport: the device is driven only between a successful acquire and the
  release; GOOD never comes with a failure; a release that says OK has released;
  every call ends.
* Engine: no command while a reset is owed; GOOD only if everything agreed; the
  debt cleared only by a whole reset.
* Adapter: the request neither freed under the kernel nor leaked; loss of phase
  not forgotten; nothing held after a failed creation, seize or destruction.
* Both over a drive: a completion is always that of the command it is handed to;
  the reset permission is never left behind; after a recovery nothing is in
  flight; destruction leaves nothing held.
* Workflows: the report tells the truth about the drive; SUPPORTED needs all of
  its evidence; every run ends, and with the interface given back if it is OK.
* Program: the command line means what the usage says; only an accepted drive is
  seized; exit 0 means all promises at once; no truncated and no foreign file.
* UFI: the validator lets through what is needed and nothing that writes
  elsewhere; parsers stay inside the response; the mask check is exact.
* JSON: what reaches stdout is one well-formed document that says what the
  report says.
* Layout: the translations are inverse and the read order is a permutation.

## 2. The modules

```
CbiTypes --+-- CbiEngine --+-- CbiStack            Transport
           |               +-- CbiContract ........:  :
           +-- MacCbi -----(CbiStack)                 :
ScsiTask .............................................:
Probe ------- RunSelected
Cli --------+
Program ----+-- MCProgram
UsbCreate --+
UfiParse ---+
Geometry ---+-- MCUfi ---+
UfiCommands-+            |
Layout -------- MCLayout-+-- MCData
MCJson ------------------+
Scan --+-- JsonReader --+-- JsonDocument -- Reports --+-- MCJson
       |                +-- JsonGrammar --------------+
       +-- Utf8 -- JsonEscape ------------------------+
JsonWriter --- (JsonDocument)
```

A left-to-right edge is EXTENDS, a dotted one an INSTANCE of the abstract
specification. `MC<name>` gives a module its constants for TLC; `<name>Proofs`
holds its theorems (`ProbeProofs` those of `RunSelected` too, `ProgramProofs`
those of `Program`, `UsbCreate` and `Cli`, `UfiProofs` those of `UfiParse`,
`Geometry` and `UfiCommands`, `JsonProofs` those of `JsonDocument`, `Reports` and
`JsonEscape`; `CbiStackProofs` has those of `MacCbi` and of the composition, and
extends the engine's).

### Transport, and its two implementations

`Transport` is the contract of `M65TransportOps` as `src/probe.c` relies on it:
what is `held`, which `call` is in progress, and the last `reply`. A call answers
at once without touching the device, or begins and later ends. `CbiContract` maps
the engine to it: `opened` is what is held, the adapter call the engine waits for
tells the operation, the engine's `result` is the reply. `ScsiTask` maps itself
with the kernel's view of exclusive access (`granted`), not the flag the code
keeps, so that the two are shown to agree whenever it matters. Both refinements
include the fairness, so they also show that every operation ends. Their safety
parts, `Spec => Contract!Spec`, are theorems.

### CbiEngine (with CbiTypes)

One engine step runs from one return of the adapter to the next call. `pc` names
the adapter call the engine is waiting for (`adsc`, `bulk`, `clear_stall`,
`interrupt`, `prepare`, `clear_in`, `clear_out`, `finish`, ...), `job` the
exchange it belongs to (reset, command, sense or the caller's own REQUEST SENSE),
`exchange` the `CbiExchange` record of each job, and `result` what the last call
returned. `AdscReturns`, `BulkReturns`, `ClearStallReturns` and
`InterruptReturns` are the four phases of `run_exchange`; `ResetExchanged`,
`CommandExchanged`, `SenseExchanged`, `RequestSenseExchanged` say what its four
callers do with it. The adapter may return any status with any data. Byte counts
are compared with what was asked for (`none`, `short`, `exact`, `long`); ASC and
ASCQ are one code, of which the engine asks whether it is zero and whether two
are equal. Text details and the layout of the ADSC block are left out.

### MacCbi

The adapter. `flags` are the context's Booleans, `request` the shared request
(`interrupt_request` is the context's pointer, `kernel` the reference of a
submitted `ReadPipeAsync`, `references` the stored count, `complete` and
`outcome` what the callback wrote), `at`/`op` where an operation waits.
Operations without a wait are one action. `interrupt_in`, `prepare` and `close`
are split at their run-loop waits, so that the callback interleaves: submit,
timeout, `AbortPipe`, drain, end. The module's own specification lets a caller
use any operation in any order; the theorems are about that one.

### CbiStack

The composition the program runs. Every engine step that consumes a status is
conjoined with the adapter operation that produces it. The drive is external: it
is described by what it still owes, `mine` (a completion of the last accepted
command block) and `stale` (one of an earlier block). It may complete, not
complete, complete late, or be unplugged at any time. The workflow is one
acquire, any commands, one release, then destroy, which is what `m65_inspect`,
`m65_test_1581` and `run_selected` do.

### UsbCreate and ScsiTask

Creation and destruction as reference bookkeeping: `refs` is the set of objects
held (registry entry, plug-in, interface, allocations, the open interface, the
event source, a task), `at` or `pc` the system call whose answer is awaited, and
every one of those calls may fail. `UsbCreate` also has `inspect_endpoints`, pipe
by pipe, over interfaces with every combination of endpoints. `ScsiTask` is the
whole of `src/scsi_macos.c`.

### Probe

Both workflows. Each command of a workflow is an action that checks the flag
(`execute_checked`), sends the command and takes the branch the code takes.
`page` is the Flexible Disk page in force in the drive: `original`, `g1581`, or
`other` for a page the drive rounded. A MODE SELECT that was not GOOD may or may
not have taken effect. `Signal` sets the flag between any two steps, and
`DriveResets` takes the drive back to its own page, which it reports on the next
command (`attention`).
`standard` tells whether the saved page can be built into a MODE SELECT at all
(`m65_build_mode_select_payload` refuses a length byte other than 30).

### RunSelected

`Probe` inside `run_selected`: creation of the transport, the workflow,
destruction, `write_new_image` with its partial writes and its unlink on
failure, the withdrawal of the verdict, the exit code. Signals are caught only
while the test runs and kill the process otherwise; the drive may reset at any
time (`Reset`).

### Cli, Program

`Cli` is `m65_cli_parse` word by word, compared with the set of lines that the
usage text describes: a line is its command and at most four groups of words, one
for each option, in any of their `Orders`. `Program` is `main` from a parsed line
to the seized interface. A BSD name denotes a media object (`attached`) that may
be unplugged, replaced or mounted by an event between any two system calls.
`Identify` works on the object the iterator returned, `Describe` on whatever has
its name by then, and `LookUp` on whatever has the name later still: the same
three look-ups the code makes. A medium is reduced to what the code asks of it.
The media of a drive share its ancestry in the registry, and at most one of them
is whole. The name of a slice is that of its disk's (`DiskOf`: `disk4s1` is
attached only beside the `disk4` of the same drive).

### UfiParse, Geometry, UfiCommands

`UfiParse` runs the five response parsers on a response of which only the length
is known: a byte is chosen when the parser first looks at it, so every response
is covered. `extent` records how far has been read or copied. `Geometry` has the
page and the changeable mask as sets of bits per byte, the check that decides
whether the test may go on, and a controller that honours its own mask.
`UfiCommands` builds every command the program sends and then sets fields wrong.

### JsonWriter, JsonDocument, Reports, JsonEscape

`JsonWriter` is the writer on tokens, every function returning the new writer and
what the C function returns; `room` is how many appends memory suffices for.
What a document is, is said twice and without reference to the writer.
`JsonReader` reads the tokens one by one and keeps what the grammar of RFC 8259
allows next, the containers that are open and the names met in each; the
properties and the proofs use it. `JsonGrammar` is the grammar rule by rule, by
recursion over the text. `MCJson` has their agreement as an assumption that TLC
evaluates (`ReaderAssumption`): on all sequences of up to five tokens, on nested
containers of two values, and on these with any one token replaced.
`JsonDocument` relates writer and reader. `Reports` has each emitter of
`src/output.c` as the sequence of writer calls it makes, with the branches it
takes and with member names kept (a hyphen stands for each underscore, and the
structural tokens have their names in the RFC, since the provers do not read the
characters themselves in a string). `JsonEscape` follows a text of the INQUIRY
response through `trim_copy` and `append_escaped`, byte by byte, and reads the
result back as a consumer would: a decoder of UTF-8 (`Utf8`), the encoding RFC
8259 asks for, and over its characters a reader of JSON strings. The decoder
takes shortest forms only and no surrogates; `Utf8` has the rules of RFC 3629
beside it, and `MCJson` their agreement as an assumption (`DecoderAssumption`) at
the borders of all forms. All the readers are scans (`Scan`): a step function
applied along a sequence, as a recursive function, so that facts about them can
be proved.

### Layout

The operators of `layout.c`, and a reader that copies whole tracks of whole and
truncated images in the interleave order.

## 3. The runs

| Run | States | What it asks |
|---|---|---|
| `cbi_engine` | 9 493 | the engine over an adapter that answers anything at every call |
| `cbi_stack` | 48 146 | engine, adapter and drive together |
| `stack_desync` | violation | finding 2 below |
| `probe` | 3 301 | both workflows, every mix of outcomes, signals and resets of the drive |
| `probe_signal` | violation | finding 1 below |
| `run_selected` | 36 136 | a whole run with its output file |
| `scsi_task` | 722 | the SCSITask transport, a failure in every call |
| `data` | 1 718 768 | UFI parsers, mask arithmetic and validator (584 451); JSON writer, emitters and escaping (1 133 083); disk layout (1 236) |
| `json_utf8` | violation | finding 5 below |
| `program` | 1 434 714 | from the command line to a seized interface |
| `program_slice` | violation | finding 3 below |
| `program_renamed` | violation | finding 4 below |

`data` and `program` hold seven and three components that share no state:
`data` is all the code that only turns data into data. A behaviour of such a
run is a behaviour of one of them while the others rest in a final state, so
the state spaces add up and do not multiply, and a property of one component is
checked on all of its behaviours.

**`cbi_engine`.** `RecoveryGatesCommands`: while a reset is owed, the only
exchange run is the reset. `ReportMatchesDebt`: TIMEOUT and IO leave a debt, OK
leaves none. `GoodIsEarned`: GOOD needs a command without a stall, a valid
sense with the same code as the completion interrupt, a key that is no failure,
and complete data where that is required. `DebtClearedOnlyByReset`: the debt
goes only with a reset of which every step succeeded, or a new seize.
`ImplementsTransport`: the engine implements `Transport`, its liveness
included. Constants: one command of each kind the engine distinguishes and
three it must refuse; codes {0, 1}, since only equality and zero matter; keys 0
and 1 (no failure) and 5 (failure).

**`cbi_stack`.** `OwnCompletion`: the completion handed to an exchange is that
of the block it sent. `ArmedOnlyDuringReset`: the one-shot permission is held
exactly between prepare and finish. `RefcountExact`: the request's count is the
number of its holders, so it is freed exactly when both are gone.
`PendingKeptUntilClose`: nothing but close lets go of a request the kernel
still holds. `RecoveryResynchronises`: when the engine declares itself
recovered, no completion is owed, no request is pending and the adapter's gate
is open. `DestroyReleases`: after destruction nothing is open or held, also
when release failed half way. `StackCallsReturn`: every call ends, though the
callback may never come. Commands: one per data direction, all allowed
(refusals are covered above). The number of commands is not bounded: `mine` and
`stale` are Booleans, and the state space is finite.

**`probe`.** `ResidueReported`: a drive left with another page is reported as
inconclusive, not restored, with a failure code, and a page that MODE SELECT
could not send back is never changed. `RestoredIsTrue`: the report's
`controller_restored` is true of the drive. `SupportedIsEarned`: SUPPORTED,
code OK and a surviving image go together and need two equal reads, a restored
page and a released interface. `OkMeansReleased`. `ReadsUnderGeometry`: every
block that counts as read was read in the verified geometry, although the drive
may lose its page between any two commands. It rests on the code never
repeating a command that failed: one repeated past a UNIT ATTENTION would be
read in the wrong geometry. Bound: two READ commands per image (`Chunks`),
enough to fail or be interrupted before, between and after them; the theorems
hold for every `Chunks`.

**`run_selected`.** `ExitZeroKeepsPromises`: exit 0 means original page,
verdict and whole file; and no file is ever begun from a run that left the
controller changed. `NoTruncatedImage`, `ForeignFileUntouched`, and
`ProgramExits`, which needs every workflow to end under any number of signals.
Bounds: one READ per image, a file of two pieces (`Blocks`), so that a write
can fail before and after part of the file is there.

**`scsi_task`.** `NothingLeaks`: at rest the transport references its device
interface and nothing else, and after a NULL or a destroy nothing at all; NULL
never comes with status OK. `ScsiImplementsTransport`. Bound: a registry path
of four entries (`Depth`), so that the walk can succeed and fail at the first,
an inner and the last entry, and its state repeats in between.

**`data`, the reports.** `Completable`: until a failure is latched, the text
can be completed to a document by closing what the stack says is open, the
stack never outgrows its arrays, and `m65_json_finish` accepts documents only.
`NothingDropped`: no emitter makes a writer call that is refused, unless memory
has run out; since the results are ignored, a refused call would be a member
missing without a word. `WrittenIsReport`: what reaches stdout is one document
with the stable top-level members and without duplicate names. `TextSurvives`:
where the text of a field is well-formed UTF-8, the string written is a JSON
string of the same characters. Of other text it says nothing, and finding 5
says why. Bounds: three-byte fields (two in `json_utf8`) over a byte of every
kind the code tells apart and bytes that are UTF-8 in some orders only; nine
calls (`MaxCalls`) reach every state of a container, two levels deep, with two
elements, and every misuse after it; a stack of six (`MaxDepth`, sixteen in the
code) is the deepest that the reports nest, so `NothingDropped` has no slack,
and `DepthAssumption` of `Reports` asks for no more; the limit itself is met by
the free caller. Up to two items in each list (`MaxItems`): none, the first,
and one that follows another. `Rooms`: memory runs out at several appends of
every section, at once, or never.

**`data`, the UFI code.** `ReadsInsideResponse`: no parser looks past what was
received. `AcceptedFits`: what is accepted fits its destination, and the number
of blocks has not wrapped. `LoopsBounded`: every turn uses up two bytes or
more. `MaskDecides`: the mask check allows exactly the changes a controller
that honours its mask will make, and what changes is listed as changeable.
`RestoreExact`: one MODE SELECT of the saved page undoes all of it.
`ValidatorExact`: every command built passes, and a command with wrong fields
passes as a data-out command only if it is the one MODE SELECT that is meant.
Bounds: response lengths on both sides of every limit of the code, bytes that
fit, fall short or overshoot; `Word32Max` is 15 in place of 2^32 - 1, the
arithmetic being modulo `Word32Max + 1` (the theorems are for every value);
four bytes of a page with two bits each, among them a two-byte field, a
one-byte field and one that the check does not look at; two wrong fields
(`MaxFaults`), so that a wrong length can be paired with a CDB that agrees with
it.

**`data`, the layout.** `RoundTrip`, `TrackCopiedOnce`,
`CandidateFollowsOrder`. Five tracks, and images of length 0, inside a sector,
at a track's end, one byte short of one, one sector short, and whole.

**`program`.** `AcceptsUsage`: the parser accepts exactly the usage lines and
reads the right options off them, values that look like options included.
`SeizedWasAccepted`: whatever took over the name since discovery, a seized
interface is a TEAC UFI/CBI one, reached through a list entry that the user
named and that passed every check. The drive need not be the one that was
checked (finding 4). `QuietRunIsRight`: without outside events the drive seized
is the one named and verified, and a refusal has one of the reasons the code
has. One of these is silent: an entry that finds the list full is dropped
without a word (`src/discovery_macos.c:239`). `HoldsWhatItNeeds`: what the
process holds after each call, failed ones included, and that the pipes used
are those of the endpoints of the right kind. Bounds: six words after the
command, as many as the longest usage line has (two flags and two valued
options); two names and a slice for six media, so that a name can be reused by
a drive of another kind; two events (`MaxEvents`), which is an unplug and a
plug under the same name; a list of two places in place of sixteen, so that it
can be full; two, three and four endpoints.

CHECK_DEADLOCK is off where the modelled program ends: a destroyed transport, a
finished workflow, an exited process, a reader past the last track.

### Fairness

* Engine: weak fairness of the adapter's returns. Each adapter call carries the
  command's `timeout_ms` to the kernel, or a run-loop deadline.
* SCSITask: weak fairness of the code between IOKit calls and of their returns;
  `ExecuteTaskSync` is bounded by `SetTimeoutDuration`.
* Stack: weak fairness of `Transport`, the process's own steps. **Nothing** is
  assumed of `Callback`; the liveness property holds although the kernel never
  completes a request, because both waits have deadlines.
* Program: weak fairness of its steps, which are straight-line
  code over calls that return. Signals are not fair and not bounded.

The other specifications state no fairness and are checked for safety only;
`LoopsBounded` is the bound from which the termination of the parsers follows.

### Environment assumptions

Each is a property of something outside the repository:

* `PipeReturns` has no stall: submitting `ReadPipeAsync` and clearing a pipe may
  fail in any other way, but not with `kIOUSBPipeStalled` (the stall of the
  endpoint itself comes with the callback, and is modelled). `OwnCompletion`
  depends on it: with `"PipeStalled"` among the `PipeReturns`, TLC finds a
  submission refused with STALL, after which neither the adapter nor the engine
  records a loss of phase and the completion still owed is taken for that of the
  next command.
* Access rights are decided when the interface is seized; later calls do not
  answer with a permission error.
* The reset block makes the drive drop every completion it still owes.
* In `Probe`, GOOD for a MODE SELECT of a page the drive itself reported puts
  exactly that page in force: the code does not read the page back after
  restoring it. `RestoreExact` derives this from a weaker assumption, that the
  controller honours the changeable mask it reports.
* A drive that loses power or is reset comes back with the page it had before the
  test, and reports a UNIT ATTENTION before it completes another command, INQUIRY
  excepted (SCSI-2, 7.9). A report that is lost on the way counts as made.
* `unlink` of a file just created succeeds.
* A failing `QueryInterface` hands out no interface (the rule of COM).
* The media of one drive have the same ancestry in the registry, and at most one
  of them is whole (IOMedia: a disk and its partitions).
* A process has its references to a registry entry until it releases them, and
  closing the interface of an unplugged drive succeeds or fails like any other.
* One thread and one run loop, as in the program. Under it the branches that
  release a request found complete after a failed abort
  (`src/usb_cbi_macos.c:709-711`, `784-786`) are not reachable, since the drain
  does not end early with the request complete and the abort failed.
* In `CbiStack` and `Probe` a transport is acquired once, as `run_selected` does.

## 4. Findings

1. **A signal can suppress the restoration** (`probe_signal`,
   `InterruptNeverSuppressesRestore`). `src/probe.c:502` says "An interrupt stops
   further reads, but must never suppress restoration." The flag is cleared at
   line 503 and tested again by `execute_checked` (line 62) inside the restoring
   `mode_select`. A signal between the two makes it return without sending
   anything. `ResidueReported` shows that the run then at least says so.
2. **A stalled completion does not mark the engine** (`stack_desync`,
   `PhaseLossMarksEngine`). `docs/architecture.md:94` says "A timeout, malformed
   transport phase, or low-level I/O error marks the CBI engine as requiring
   recovery." The adapter records the loss of phase and returns STALL, which
   `io_status_loses_phase` does not count. The next command is refused with
   PROTOCOL and only that refusal marks the engine: recovery comes one command
   late, and the command lost may be the restoring MODE SELECT.
3. **A mounted slice does not count as mounted** (`program_slice`,
   `MountedNeverSeized`). `README.md:150-152` says that a mounted device "is
   rejected before SCSI access". Discovery looks at the volume path of the
   selected medium alone; a partitioned disk has its volumes on the slices, so
   its whole medium is accepted and the drive is seized with a slice mounted. No
   race is needed: the run has no events.

4. **The drive seized need not be the drive checked** (`program_renamed`,
   `SeizedIsVerified`). `docs/architecture.md:49-50` says that the medium is
   verified and "its matching USB UFI/CBI interface" retained, and
   `docs/hardware-results.md:61` that the backend "retains the interface
   associated with the selected BSD medium". What is retained is the name:
   `copy_usb_interface_for_bsd_name` looks it up again. With an unplug and a plug
   in between, another TEAC drive under the same name is seized, with none of the
   checks made on its medium. `SeizedWasAccepted` is what does hold then.
5. **A report need not be JSON** (`json_utf8`, `StringIsJson`). `README.md:221`
   says "`--json` writes exactly one JSON document to stdout". Bytes from 80h up
   in an INQUIRY text go out as they are (`src/json.c:104-114`), so a text that is
   not UTF-8, or one cut inside a character, makes a report that is not UTF-8
   either and that a consumer refuses.

Two weaknesses are visible in the models and are not stated as runs:

* A volume may be mounted after its medium was described. No document promises
  otherwise: the checks "are completed before the seize" (`README.md:182-183`).
* When memory runs out, an emitter of `Reports` ends `silent` or `complained`
  with nothing on stdout, where `README.md:221` says "exactly one JSON document".

## 5. The proofs

All proofs are for any value of the constants under the named assumptions, which
TLC evaluates on every run:

* `CodesAssumption`, `KeysAssumption`: 0 is a code and a key; keys are four bits.
* `CommandsAssumption`, `ValidatorAssumption`: commands are commands, and the
  allowlist accepts MODE SELECT with data-out only. The theorem
  `ValidatorIsExact` proves that of the real allowlist.
* `PipeReturnsAssumption`, `ProgramAssumption`: the environment assumptions of
  section 3 on pipes and on media, that the names of media and slices are
  distinct, and that every slice has a disk.
* `ChunksAssumption`, `BlocksAssumption`, `DepthAssumption`, `UsbAssumption`,
  `FaultsAssumption`: counts are natural numbers, and an image or a file is not
  empty.
* `TrackCountAssumption`: at most 255 tracks, the width of the field.
* `ImageLengthsAssumption`, `LengthsAssumption`, `BytesAssumption`,
  `ByteValuesAssumption`, `Words16Assumption`, `Word32Assumption`: lengths and
  words are natural numbers, bytes are bytes.
* `TargetAssumption`: the target geometry names a value for each byte that
  `m65_set_1581_geometry` writes.
* `TokenAssumption`, `NamesAssumption`: the structural tokens, the two kinds of
  values and the member names are tokens. `MaxDepthAssumption`,
  `RoomsAssumption`, `ItemsAssumption`: the limits of the writer and of the
  reports are natural numbers; `DepthAssumption` of `Reports`: the stack has the
  six levels that the deepest report needs (the code has sixteen).
* `EscapeAssumption`: bytes are bytes, and a field is not empty.
* `MaxWordsAssumption`, `WordsAssumption`: any number of words, and no word is the
  null pointer.

**CbiEngineProofs.** `EngineInvariant` proves `IInv`: the types,
`RecoveryGatesCommands` and `ReportMatchesDebt`, and three facts that make them
inductive. `RecoveryInProgress`: at the calls of a reset outside its exchange the
debt stands and the reset is the current job. `ResetStaysClean`: the reset has no
data phase, and its record is still zero at a `finish` without failure.
`FramesEmpty`: between calls all records are empty. Without them a `finish` after
a whole reset could not be told from one after a reset that failed half way. From
it follow `EngineTypes`, `RecoveryGates`, `ReportsDebt`, the action property
`DebtCleared`, and, with a second invariant (`CommandChecked`: only validated
commands run), `GoodEarned`. `EngineRefinesTransport` maps each step to one of
`Transport`: a call begins, a call ends with the reply that `result` denotes, a
refused call answers at once, and everything between is a stutter.

**CbiStackProofs, the adapter.** `MacInv` adds to the types and `RefcountExact`:
`ClosedIsEmpty` (a closed adapter has no request, no permission and no operation
under way), `KernelHolds` (a complete request is not the kernel's, and an open
adapter still points to every request the kernel holds) and `Waiting` (every wait
is for a request of the context, and a successful drain leaves none with the
kernel). The count alone is not inductive: it says nothing of who may drop it.
From it `Refcount`, `PendingKept`, and `DesyncCleared` (loss of phase is cleared
by an armed, successful reset or a new open only). They hold under a caller that
obeys no protocol, which is more than the `cbi_stack` run asks.

**CbiStackProofs, the composition.** `StackRefines` shows that every step of the
composition is a step (or a stutter) of the engine and one of the adapter, so
everything proved of either alone, over any partner, holds of the transport that
the program runs (`StackInherits`). The properties that relate the three parties
need more. `StackInv` is `IInv`, `MacInv` and `Linked`: `AtMatches` (an adapter
operation that waits was called by the engine step that `pc` names, and the abort
of a late interrupt has recorded the loss of phase), `OpenMatches` (where the two
ideas of an open interface agree; they part after a failed close only),
`GateIsQuiet` (a command block can pass the adapter's gate only when the drive
owes nothing and no request is pending) and `Outstanding` (what the drive may owe
at each engine step). `OwnCompletion` follows from the last one, which is
inductive only with `GateIsQuiet`: the drive owes nothing old while a command runs
because nothing old could be owed when its block was accepted. From it
`CompletionIsOwn`, `ArmedDuringReset`, `DestroyLeavesNothing`, and
`RecoveryIsReal`. The proof uses `PipeReturnsAssumption` where the run of section
3 found the counterexample.

**ScsiTaskProofs.** `ScsiInv` gives the references held in each IOKit call
(`RefsOf`), ties the code's flag to the kernel's grant (`AccessKnown`: they are
equal, which is why the code may trust the flag) and says that a status is never OK
before creation has succeeded. `NoLeak` and `ScsiRefinesTransport` follow, for a
registry of any depth.

**ProbeProofs.** `IInv` ties the program counter to the drive: `PageAccounted`
(which page may be in force at each step, and what the report says of it),
`RestoreArmed` (once the geometry may have changed, the restoration is owed),
`RestoredLate`, `HeldWhileRunning`, `VerdictEarned` (SUPPORTED carries its
evidence along) and `OwnSteps` (each workflow stays in its own steps). The four
safety invariants of the `probe` run, its action property and the types follow
from it. For `ReadsInGeometry`, `PageAccounted` says that while the image is read
the page is the verified one or the drive owes a UNIT ATTENTION, in which case no
block completes.
`RunInv` carries the result through `run_selected`: `ProbeIntact` (the workflow's
`IInv` holds until the transport is destroyed), `FileMatches` (the file is what
the step of `write_new_image` says, and one is opened only for a `Vouched`
verdict: two equal readings and the original page) and `CodeMatches` (code OK at
the report stands for all promises at once). `ExitZeroKept`, `ImageWholeOrGone`
and the action property `ForeignFileKept` follow for any number of reads, of file
pieces and of signals.

**ProgramProofs.** `UsbInv` gives the references and the status at each system
call, and `PipesMatch`: the pipes looked at so far and the roles filled so far
are the same, so three distinct roles are filled exactly when all three endpoints
have been seen. `TransportHolds` follows. `ProgramInv` has two halves. The safe
half holds under any events: `ListIdentified` (each entry was identified when it
was found) and `DeviceAccepted` (the device in hand is a list entry that the
request names and that passes every check, and the interface looked up for it is
a UFI/CBI one), hence `SeizedIsAccepted`. The exact half is about runs without
events: `QuietList` (entries are true to their media, and none is listed twice),
`EveryDriveListed` (every drive that fits is still to be visited, in hand, listed,
or has met a full list), `QuietInterface` and `QuietRefusal`, hence
`QuietRunRight`. It needs that a drive has one whole medium, and the lemma
`NormalName`: `normalize_bsd_name` takes off one `/dev/` and then one `r`, in
exactly the four usual spellings.

For the command line, `CliInv` says of a parser at some word what is true on
either side of it. `ReadIsLine`: the words before it are a line with the options
held so far. `OnEveryLine`: of every usage line that the whole `argv` could be, in
every order of its groups, the loop has read some number of groups and holds their
options and no others. A refusal is right because of the second: if `argv` were a
usage line, its next group would be one the loop can read (`LineReads`), and the
loop can read in one way only (`ReadsOne`). An acceptance is right because of the
first. `MoveLast` is the lemma that makes it inductive: a group that was empty can
as well stand last in the order, where the words just read belong.
`AcceptsUsageInvariant` follows for any words and any number of them.

**JsonProofs.** First, facts about scans by induction over their length
(`StepsExist`, `ScanType`, `ScanAppend`, `ScanConcat`): the induction is over sets
of natural numbers, as a least counterexample, since the induction theorems of
the library cannot be instantiated here.

`CompletableInvariant` rests on `BooksKept`: until a failure is latched, the
writer's books `Agree` with a reader of its text, that is, the same containers are
open, all around the innermost wait for a comma or their end, and the innermost
for what `some` and `expecting` say. `Obeys` is what one call does to such a
writer: it may fail for want of memory or because the reader has no place for
it (`Fits`), and otherwise leads the reader where that call leads (`Led`). There
is one lemma for each writer function (`KeyObeys`, `ValueObeys`, `BeginObeys`,
`EndObeys`, over `BeforeValue` and `CommaRead`), and `ClosersRead` shows that a
reader in such a state is done after the closing tokens of what is open. This
holds for any caller, any number of calls and any depth.

Through `Obeys` the emitters are reasoned about without text: a script of calls
is a path of the reader (`Run`). `IsValue`, `IsMembers` and `IsElements` say that
a script writes one value, members with the given names, or elements, with so
many levels of containers, from every state of the reader that can take them.
They compose (`ObjectIs`, `ArrayIs`, `MembersConcat`, `TimesIs`), so each emitter
is a short calculation over its names and its depth (`CandidateIs`,
`InspectFieldsAre`, `ErrorsAre`, ...). `Reporting` is the inductive invariant: the
writer fails only when memory runs out; until then, the calls left in the script
lead the reader to where the section should end (`Goal`: the document closed, or
its outermost object open after exactly the members that come before). Hence
`NothingDroppedInvariant` and `WrittenIsReportInvariant`, for any number of
candidates, descriptors and changeable fields, and memory that runs out at any
append.

`TextKept` is the invariant of the escaper: only padding was dropped from the
field (`FieldKept`), the copy is what is left of it (`CopyKept`), and what was
written inside the quotes says what the bytes taken so far say, as long as they
are UTF-8 (`OutKept` with `Says`). For this two decoders run side by side, one
over the field and one over the document, and stay `Alike`: between the same
characters or in the same byte of one, the document's characters reading back as
the field's. The step has three cases. A byte below 80h, plain, escaped by a
letter or as `\u00xx`, is read as itself between characters (`EscapedReads`,
`LowByte`) and spoils the text within one; a byte from 80h up goes out as it is
and moves both decoders alike (`HighByte`), and a character that it ends is none
that strings treat specially (`HighCharacter`). `TextSurvivesInvariant` holds for
fields of any length, of any bytes, wherever the text is well-formed UTF-8; of
other text nothing is proved, and `StringIsJson` is refuted for it.

**UfiProofs.** `ParseInv` adds to the types and the three properties what
holds inside the two loops: `InFormats` (the list ends inside the response at a
descriptor's boundary, and the loop stands at one), `InWalk` (the declared
response fits the response and the buffer, and every turn has moved on by a page
header at least) and `AtStart`. `ReadsInside`, `Accepted` and `LoopsEnd` follow
for every response of any length, and for the real `Word32Max`. `GeometryInv`
says what an honoured MODE SELECT has left in the controller byte by byte
(`DriveMatches`) and that the decision was the mask check's; `MaskCheckExact` and
`RestoreIsExact` follow for every saved page, mask and target. `CommandsInv` says
that a command with any number of wrong bytes consists of bytes; with the lemma
`OnlyModeSelect` (an allowed data-out command is the one MODE SELECT in its CDB,
its lengths and the modelled head of its payload) it gives `ValidatorIsExact`.

**LayoutProofs.** `RoundTripHolds`: the translation is a bijection in D81 byte
order for every number of tracks; plain integer arithmetic on quotient and
remainder. `CandidatesFollowOrder`: the candidate rules against the order, for
every position of the reader. `LayoutInv` says that what was copied is what the
order has come to and the image holds. `InterleaveStays` and `InterleaveReaches`
show that the order is a permutation of the 40 sectors, by its inverse;
`CopiesOnce` follows for images of any length.

Only model-checked:

* every liveness property (`StackCallsReturn`, `ProgramExits`) and the liveness
  halves of `ImplementsTransport` and `ScsiImplementsTransport`: the prover has
  neither fairness nor ENABLED;
* that `JsonReader` and `JsonGrammar` describe the same texts
  (`ReaderAssumption`): the grammar is recursive over the text, and no theorem
  module reaches its operators. The reader is the definition that the theorems
  are about; the check guards against a mistake in it. The same goes for the
  decoder of `Utf8` and the rules of RFC 3629 (`DecoderAssumption`).

## 6. Not modelled, and the plan

Not modelled: the human-readable reports of `src/output.c` (printed text, no
decision depends on it), error texts, number formatting, the reading of single
registry properties and CFString conversion (abstracted to what a medium is), the
encoding of the ADSC block, and the tests' fakes.

What would extend the project most is **`Probe` over `CbiStack`**: the workflow's
commands as engine commands, so that finding 2 meets the restoration in one run.
