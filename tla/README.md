# CommonDrivers: a verification project

CommonDrivers is a C++ library for flight computers built on STM32 processors:
FreeRTOS tasks that collect and store telemetry, a flash file system on a NAND
chip, drivers of sensors, and a thin layer over the vendor's HAL. This directory
holds TLA+ models of it, the TLC runs that check them, and the TLAPS proofs of
what holds for every value of the parameters. `PROJECT.json` lists the runs, the
lines each definition models, the mutants that show each property can fail, the
findings, the hazards and the theorems.

Each module is translated from the code; documents and comments are used for
what the code *should* do, in properties. A mutant is a definition whose comment
begins with "Mutation:"; it stands before the definition it could replace and
is not part of any specification.

## Inventory

| Component | State it keeps | Operations | Interacts with | What makes it correct |
|---|---|---|---|---|
| `DoubleBuffer` (`include/tasks/base_task.h`) | two packets, an atomic index | `write`, `commit`, `read` | SensorTask writes, FlashTask (and a radio task elsewhere) reads; no lock | a read returns one packet, a write starts from the last packet |
| `Registry` (same file) | array of 8 (handle, mask), count | `subscribe`, `publish`, `publish_isr` | all tasks and interrupts; FreeRTOS notifications; no lock | no subscription is lost, no notification is lost or goes astray |
| `Task` (same file) | a handle | `init`, `loop`, `registry` | FreeRTOS | a task that wants to return deletes itself |
| `SensorTask` | packet counter | `loop` | sensors, CRC unit, buffer, registry | stamped packets, other tasks get to run |
| `FlashTask` | - | `loop` | registry, buffer, Flash | what is announced is saved, the stop is honoured |
| `Flash` | `lfs`, `config` | `mount`, `unmount`, `bootcount`, `open`, `close`, `append` | littlefs, which calls the chip's driver | stored data survives, success means stored or buffered in full |
| `GD5F1GQ5XE` | the chip's state; QSPI lines | `init`, read, program, erase for littlefs | Protocol, Delay | success means done, nothing else is touched |
| `BMI088`, `BMP581` | the vendor's `dev`, the device's registers | `init`, `read` | Bosch libraries over Protocol | init can be retried, success means measured |
| `GPS` | a buffer filled by DMA | `init`, `read` | UART, DMA | reception started, one sentence per packet |
| `SPI`, `QSPI`, `I2C`, `UART` | chip select pin; line modes | `read`, `write`, `configure`, `readDMA` | HAL | errors are passed on (`true` is an error) |
| `LOG`, `Delay` | - | | USB or debugger; FreeRTOS | - |

Hard behaviour: the two tasks and the interrupts interleave at any access
(priorities decide which may preempt which, and the repository does not choose
them); packets are copied without a lock; a notification value merges events;
FlashTask sleeps inside an append; power can go at any time; bus calls fail, and
most results are ignored; the flash chip is waited for by a delay, not by its
status; a chip or sensor keeps its state while the processor restarts; the GPS's
buffer is filled by DMA while it is read.

## Modules

| Module | Models | Uses |
|---|---|---|
| `AtomicRegister` | what a double buffer promises: packets are published, and taken whole | - |
| `DoubleBuffer` | `DoubleBuffer<T>` word by word | refines `AtomicRegister` |
| `DoubleBufferProofs` | theorems on `DoubleBuffer` | `DoubleBuffer` |
| `Registry` | `Registry` access by access | - |
| `RegistryProofs` | theorems on `Registry` | `Registry` |
| `Telemetry` | `SensorTask` and `FlashTask` under a priority scheduler | instances of `DoubleBuffer`, `Registry` |
| `TelemetryProofs` | theorems on the two tasks | `Telemetry` |
| `FlashOffset` | `offset()` and littlefs' block layout | - |
| `Flash` | `Flash` over littlefs | `FlashOffset` |
| `FlashOffsetProofs` | theorems on `offset()` | `FlashOffset` |
| `FlashProofs` | theorems on `Flash` and on the growing file | `MCFlash`, `FlashOffsetProofs` |
| `BlockDevice` | what littlefs counts on from the driver of a flash chip | - |
| `QSPI` | how a command is made of bytes, line by line and cycle by cycle | - |
| `GD5F1GQ5XE` | the NAND driver, its protocol and its chip | `QSPI`; refines `BlockDevice` |
| `GD5F1GQ5XEProofs` | theorems on the driver with its chip | `GD5F1GQ5XE` |
| `SPI` | the protocol with its chip select guard | - |
| `BoschSensor` | `init` and `read` of both Bosch sensors | an instance of `SPI` |
| `GPS` | `init` and `read` of the GPS, its UART and DMA | - |
| `Sensors` | the sensors of the application | instances of `BoschSensor`, `GPS` |
| `SensorsProofs` | theorems on all sensors | `Sensors` |
| `FixProofs` | theorem on what the GPS puts into the packet | `SensorsProofs` |

The `MC*` modules give the constants their values for TLC. `MCFlash` also
walks a file through its sizes.

### DoubleBuffer

`buffer` and `idx` are the members. `wpc` says where the writer is: inside
`write()` copying the front packet word by word (`StartWrite`, `CopyWord`),
filling the back through the reference (`Fill`), or between packets; `Commit`
flips the index. `rpc`, `ridx`, `rleft`, `out` are a `read()` in progress
(`StartRead`, `ReadWord`). The copy of a struct is any order of word copies, since the
compiler chooses it. `WriterPreempts` and `ReaderPreempts` say whether either task
can run inside the other's operation; the code excludes nothing. `front`, `seen`
and `overlap` are history variables.

- `IntactUnlessLapped`: whatever preempts what, a read goes wrong only if the
  writer commits *and* begins another packet before the read ends.
- `NoTornRead` and `ImplementsRegister` hold if the writer never runs inside a read
  (proved, for `Telemetry`'s tasks as well; `Telemetry_flash_first` checks `ImplementsRegister`).
  They fail as soon as it can (`DoubleBuffer_torn`). The class comment assumes
  the opposite priority ("writer cannot be pre-empted by reader").
- `CarriedForward`: a commit changes only the words written since `write()`.

### Registry

One action per access that another task could see: `StartSubscribe` (the
assertion and the load of `count`), `StoreField` (the two members of a slot in any
order), `BumpCount`, `StartPublish` and `PublishSlot` (one turn of the loop).
`publish_isr` is one step, because no task runs inside an interrupt.
`BumpCount` stores either the loaded value plus one or a freshly loaded one plus
one: the compiler may do either. `Serial` says whether subscriptions are serialized.
With it the registry is sound under concurrent publishers; without it a
subscription can be lost (`Registry_race`). `NeverMisdirected` asks that what is pending for
a task contains a bit it asked for, also while a slot is half stored. It does not ask that all
bits are: one that matches is enough for the whole event to be sent (`base_task.h:119-120`).

### Telemetry

`spc` and `fpc` are the program counters of the two loops; the buffer's and the
registry's variables are theirs, through `INSTANCE`. `SensorRuns` and `FlashRuns`
are FreeRTOS' rule: the ready task of the highest priority runs. `SensorTask` is
always ready; `FlashTask` is not while it waits or sleeps. FlashDisabled comes
from outside the repository, at any moment and any number of times, here from
an interrupt. A read of the sensors may fail and leave the packet alone. `append`
is one step that may sleep up to `MaxNaps` times; its result is ignored by the code.

- `RecordValid`: the CRC of the packet that goes to the file is that of its data.
- `SavedAtMostTwice`, with FlashTask first. Once is what the comment "every other
  packet" suggests, but FlashTask can find a notification pending after the next
  packet was committed and before that one is announced.
- `SavedBeforeClose`: Telemetry that was published before the stop is followed by a
  read before the file is closed, even if one notification value carries both.
- `BufferAsScheduled`: the two tasks use the buffer as `DoubleBuffer` with the
  preemption their priorities allow. It connects the theorems on `DoubleBuffer`
  with the tasks: a read never sleeps, so with FlashTask first no write falls
  into a read.
- `ImplementsRegister`: with FlashTask first, the two tasks share an atomic register
  of packets (`AtomicRegister`).
- `KeepsSaving`, `ShutdownHonoured`: liveness. With SensorTask first FlashTask
  starves (`Telemetry_sensor_first`), because the delay in SensorTask's loop is
  unreachable.

### FlashOffset and Flash

`Offset` is the function of the code. Its reference, `Room`, is computed from
littlefs' layout: block *n* starts with one pointer of four bytes per power of two
that divides *n*. `OffsetIsRoom` (in `MCFlash`, whose behaviours are either those of
`Flash` or a file that grows byte by byte) compares them for each size.

`Flash` takes one step per littlefs call that can matter: `Mount`, `Format`, `Remount`,
`BootRead`, `BootWrite`, `BootClose`, `Open`, `StartAppend`, `AppendChunk`,
`Appended`, `Close`, `Unmount`, and `PowerLoss` at any moment. `StartBootcount` is
`bootcount(false)`; `update` is the parameter. `disk` is what a mount
would find; `size` is the size of the open file in RAM. Any call to the
medium may fail; `faults` records in which part of the interface one did
("mount", "boot", "write"), and a property that such a failure can break names
the part it depends on. An `lfs_file_open` that fails goes unnoticed in `open` and
`bootcount`; littlefs then asserts that the file is open, and the program is "halted".

`Flash_power` shows, under power loss and failing calls: closed data survives
everything but an `lfs_mount` that fails on a sound medium (the code then formats
it), each completed boot is counted once, however often the count is read, unless
the medium failed in `bootcount`, a
record is whole unless a write failed or the medium is full, `append` tells the
truth, writes within blocks, never syncs, and every call ends. `Flash_unsynced` shows what
the missing sync costs: more than the one block the comments promise. `CallsReturn`
counts a halt as an end: an `open` that fails does not return its status code, but
halts the program.

### GD5F1GQ5XE, QSPI and BlockDevice

One step per protocol call or `Delay`; the chip has a page cache, a write enable
latch, block protection, the QE feature and a busy state in which it ignores
commands. `quad` selects QSPI. There a call is `Understood` if the command that
`ConfigureCmd` (of `QSPI`) makes of the driver's bytes, on the lines that
`configure` has set, has the address, the dummy cycles and the data lines the chip
expects of it (`Expected`). `agree` says whether the HAL's numbers for the lines of an address,
which the switch of `dummycycle_per_byte` has as labels, are those for the lines of data, which
it is given: no value of the repository, so both are tried. Where they differ (`Asserts`),
the first call over QSPI ends in the assertion of the default (`Halt`). A transfer is a number
of whole pages of one block; the address of a page, three bytes in the code, is a pair of block
and page. Any protocol call may fail, the chip may fail in a program or an erase and leave
anything in the pages (`Spoils`; the driver does not read its status), and it may be busy still
when a `Delay` is over; `failed` and `hasty` record whether one of these happened since `init()` began.
Half an id may match: `id` counts the bytes that do. `Restart` is a
restart of the processor that leaves the chip as it is, or a loss of power that
spoils the pages being written (`writing`).

`TypeOK` has the limits of a transfer: its request lies in one block, the page it is at is one
of the request, and no more pages are moved than asked for. It, `OthersKept`,
`NoByteMatchesUntouched` and `CallsReturn` hold whatever happens; `CallsReturn` says that a call
returns, or ends in the assertion where the numbers differ.
`OkMeansDoneUnlessFailed` is the driver's promise to littlefs when nothing failed:
after any sequence of calls and restarts, over both buses, success means done.
`ImplementsDevice` says more: the driver with its chip implements `BlockDevice`, in
which pages are programmed in order, nothing fails without a reason, what was reported
as done survives a loss of power, and one in the middle of a call spoils only the page
or the erased block it was at. `ErrorsReported` asks that a read that failed is not reported as success, and fails (`GD5F_silent`).
Of the id all that holds is that one byte matches, and that a chip of which neither does is never written
to (`NoByteMatchesUntouched`): no property asks that a chip that matches by half be rejected, for the test
takes it.

### SPI and BoschSensor

`SPI` has the lines that are low and the call in progress: `Select` (the guard's
constructor), `Command`, `Data`, `Leave` (its destructor, on every way out). `Mask` is the pin as
the object keeps it, in eight bits. A chip hears what is sent while its line is low.

`BoschSensor` makes the calls of `init` and `read` over that bus, one transfer each. `config` is
what each part of the device was told since its last reset, and it carries out only what it
hears. A call that fails may have reached the device; the application tries again, or
the processor restarts while the device stays powered. `read` ignores every result;
a fetch that fails leaves "garbage", a part that is never selected gives "floating".

- `ReadyMeansConfigured`: success means exactly one complete configuration, with no
  remains of earlier attempts and nothing meant for the other part. It rests on the
  reset that comes first for each part.
- `UnreachableNeverReady`: a chip at one of the pins 8 to 15 never passes `init`.
- `PacketFromParts`: what `read` puts into the packet was fetched from the right part in that very
  call, except for a part whose fetch failed or that is out of reach.
  That other values then get in, although `read` returns true, is how the code is.
- `OneChipHears`: whatever calls failed before, only the addressed chip hears a transfer.

### GPS

One step per character: the DMA stores one (`Arrive`), or `read` looks at one
(`Search`, `Match`, `Copy`). `Cells` is the memory from the buffer on. What lies behind the
buffer is any character, and may be another one each time it is looked at; nothing there is
sure to end a loop. Places behind the buffer are not told apart (`After`), and what is
copied from them is "junk" that may hold any number of commas. The DMA is taken to be in normal
mode, as the call of `HAL_UARTEx_ReceiveToIdle_DMA` in `uart.cpp` and a buffer that is
read from its start suggest; the mode is set up outside of the repository. In it a
reception starts at the first cell and is over when the line is idle or the buffer full: `Arrive`
and `LineIdle`, and so `FixOfOneSentence` and `GgaOnlyFits`, rest on it.
`Parse` works on the copy of the line, which nobody else sees, and is one
step; `Split` and `Degrees` are the code's, with the sizes as constants. `init` is as it is,
with its tests inverted: the reception starts in a call that returns false.

- `FixOfOneSentence`: what `read` puts into the packet is the reference reading of one
  sentence that was received (`Field`: what is between two commas), also when the
  sentence arrived while it was searched and copied. The last field used may be cut
  off then. Excepted are a buffer that was read beyond its end, and a second
  reception over the remains of the first. It rests on what NMEA 0183 says of sentences
  (`WellFormed`): a line ends with CR and LF, no character is NUL, and a GGA sentence and its
  fields fit into the arrays of the code.
- `GgaOnlyFits`: the loops have no bound; they end in the buffer as long as the module
  sends only GGA sentences, as it is told to.
- `LoopsEnd`: liveness of the loops over the buffer, as long as they stay in it. One that has left a
  full buffer may go on for ever, and nothing is said of it.
- `ReadyMeansReceiving`: what `sensor.h` asks of `init`; it fails (`GPS_inverted`).

`Sensors` chooses one sensor per behaviour, since they share nothing and one task calls them in turn.

## Runs and bounds

| Run | Constants | Result |
|---|---|---|
| `DoubleBuffer_free` | 2 words, 2 values, both preempt | holds |
| `DoubleBuffer_torn` | 2 words, 2 values, only the writer preempts | `NoTornRead` violated |
| `Registry_serial` | 3 tasks, 2 slots, one publisher, interrupts | holds |
| `Registry_race` | the same, subscriptions not serialized | `SubscriptionKept` violated |
| `Telemetry_flash_first` | sensor priority 1, flash priority 2, one nap | holds |
| `Telemetry_sensor_first` | sensor priority 2, flash priority 1 | `KeepsSaving` violated |
| `Flash_power` | blocks of 144 bytes, records of 108, 3 blocks, 2 boots; a growing file with blocks of 144 bytes to 2400 bytes, and with the chip's 131072 around the ends of its first 34 blocks | holds |
| `Flash_unsynced` | the same with 4 blocks | `LosesAtMostABlock` violated |
| `GD5F_any` | 2 blocks of 2 pages, one content besides erased, SPI and QSPI with either HAL | holds |
| `GD5F_silent` | the same | `ErrorsReported` violated |
| `Sensors_any` | each of three sensors; chips at pins 3, 6, 9 in any order; a buffer of 32 characters, lines of 30, 12 fields of 3, 2 receptions of a sentence with or without a fix, the end of one, or another sentence before one | holds |
| `GPS_inverted` | the same | `ReadyMeansReceiving` violated |

Why the bounds suffice. A mixture needs two words and two packets that differ;
the proofs lift it to every packet. A lost subscription needs two tasks, a full
array one task more than slots. Two words (data and CRC) are what `RecordValid`
tells apart; the counter only has the values 0 and 1. A record that is split needs
a second block, and a second split a third, which also has two pointers. Two blocks
of two pages tell a wrong block from a wrong page, and let an error fall into the
first or the last page of a request; the pages start all erased or all programmed.
Pins 3 and 6 are kept by eight bits and 9 is not; two lines that are right tell whether a chip hears
what was meant for another. The GPS's sizes are scaled down with its sentences, and keep their
order: a GGA sentence fits into the line and the buffer, one behind another sentence does not fit
into the buffer, the altitude may be cut there or by a reception that is not over, and a reception
may begin inside a sentence.
`MaxReceptions` bounds the receptions, two being enough to store over an earlier one.
`MaxNaps` bounds how often one append sleeps, `Blocks` and `MaxBoots` the life of the medium: the file stops growing
when it is full, as in the code, and after the last boot the chip stays unmounted.

`CHECK_DEADLOCK FALSE` stands where the system may really stop: `Registry_serial`
and `Registry_race` (the assertion halts the program, and tasks that have
subscribed are done).

## Fairness

`Telemetry`: `WF_vars(Sensor)` and `WF_vars(Flash)` say that a task that stays the
one to run is given the core, and, with equal priorities, that FreeRTOS slices time
between them (`configUSE_TIME_SLICING`, on by default). `SensorRuns` and
`FlashRuns` contain the priority rule, so nothing is promised to a task of lower
priority. `WF_vars(Wake)` is the tick interrupt. FlashDisabled is never
assumed to come. `Flash` and `GD5F1GQ5XE`: a call that was begun goes on
(`WF_vars(Continue)`, `WF_vars(Driver \/ Halt)`); nothing is assumed of the medium or the chip.
Without power nothing goes on, but then no call is in progress either. `Sensors`: a loop
of the GPS driver that was begun goes on; of the DMA nothing is assumed. `Parse` is not
under fairness, and `LoopsEnd` does not ask for its end: it is a loop over a local array.

## Proofs

`DoubleBufferProofs`, for every non-empty set of words, every set of values and all
four preemption regimes:

- `TypeCorrect`.
- The inductive invariant `IInv` adds to the type: what the history variable
  `overlap` means for the place of the writer and the index the reader took (0: no
  commit fell into the read, so `ridx` still names the front; 1: one did, and the
  writer has not begun again, so the buffer being read is the back one, untouched),
  and that in both cases `Outcome = front`. `IntactUnlessLapped` alone is not
  inductive, since it does not say which buffer the writer is about to change.
- `ReadsIntactUnlessLapped`, from `IInv`.
- `ReadsWhole`, assuming `~WriterPreempts`: then `overlap` stays 0 inside a read.
- `WritesCarriedForward`, an action property, from the part of `IInv` on words that
  were copied and not touched.
- `BufferImplementsRegister`, assuming `~WriterPreempts`: a commit publishes, the end
  of a read takes, every other step stutters.

`RegistryProofs`, for any tasks, masks, handles, publishers and number of slots:

- `TypeCorrect`, also when subscriptions race.
- `SubscriptionsKept`, `NobodySkipped`, `NothingMisdirected`, `AbortsWhenFull`, assuming `Serial`
  (without it `Registry_race` refutes the first). None is inductive: the code counts a slot after
  it has stored it, so the invariant says of every slot whether it is counted and belongs to a task that has
  subscribed (`Filled`), is the next one and holds just what its task has stored so far
  (`OneAtATime`, `Half`), or is empty (`Unused`). `OwedAhead` says that whoever a `publish()`
  still has to notify is in a slot it has not come to.

`TelemetryProofs`, for any priorities, size of the registry and number of naps:

- `TypeCorrect`, and `TelemetryIsSaved`, that is `SavedBeforeClose`: `Owing` relates the pending
  bits, the bits FlashTask has taken and its place in the loop; it needs that only FlashTask is in
  the registry (`OneSubscriber`) and that it is sent only what it asked for (`Sent`).
- `TasksUseBufferAsScheduled`: `Spec => BufferAsScheduled`, the refinement of `DoubleBuffer`
  with the preemption the priorities allow (`Places`: FlashTask does not sleep inside a read).
- `RecordsAreValid`, `SavedTwiceAtMost`, `TasksShareRegister`, assuming that FlashTask has the
  higher priority, without which it starves (`Telemetry_sensor_first`). `Stamped` says
  from when on the front packet carries its checksum and that a packet being read stays in
  front; `Reads` adds to the copies made of the front packet those that may still come before the next commit
  (one notified, one begun, one not yet announced), and bounds their sum by two.

`FlashOffsetProofs`:

- `OffsetNeverZero`, for every file size and every block size from 128 bytes, the least
  littlefs accepts: from `PopcountBound` (a sum of 25 bits is at most 25) and `Division`.
- `OffsetFitsLayout`: `Offset = Room`, as long as the file has less than 2^25 blocks (`InRange`). Bits
  0 to 24, which the model counts, cover every file of littlefs (at most 2^31 - 1 bytes, in blocks
  of 128 or more). The layout is a recursion over the blocks; the proof gives its closed form,
  (b - 8) n + b + 4 Popcount(n) below 2^25 (`EndOf`; the term for numbers beyond makes it hold of
  all). `PopcountBelow` is the step: counting down clears the lowest one and sets the zeros
  below it, as many as the block has pointers, less one. A least counterexample (`LeastNumber`) does the work of
  induction (`BlockEndsClosed`, which also shows that the recursive function exists).
  `EndsAscend` and `OneBlock` make the block of a byte unique.

`FlashProofs`, for any records, number of blocks and boots, and whatever the medium does:

- `AppendsWaitForClose`: `Spec => AppendNeverSyncs`, from
  the invariant that `size`, `left` and `disk` are in range while appending. So the sync
  of `append` is dead code for every medium, and the loss `Flash_unsynced` shows is no accident of the bounds.
- `ClosedIsSafe`, `AppendTellsTruth`, `BootsAreCounted`, all for blocks of at least 128 bytes
  because they need that a turn of `append`'s loop makes progress. `Sound` says that what is
  formatted held no closed data, unless a mount failed on a sound medium; `InAppend` that what is
  written and what is left make the record; `Counted` what the count in RAM and on the medium
  are at each step of `mount` and `bootcount`.
- `TypeCorrect`, `RecordsStayWhole`, `ChunksStayInBlocks`, assuming also that the medium has
  less than 2^25 - 1 blocks (`MediumFits`; the chip has 1024). `MediumInv` says that no file ends beyond the last block
  (`WithinMedium`), which is the work of `ChunkFits`: a chunk that is not refused for want of space ends
  in the block it began in. `RecordsWhole` says that a file is made of whole records or is full, and that an
  append leaves a full one as it is: `WholeRecords` alone says nothing of the file while it is closed.
- `GrowingFilesFit`: `OffsetIsRoom` of the growing file, from `OffsetFitsLayout`. `GrowthFits` keeps
  the sizes in range; it is a condition on the bounds of the walk.

`GD5F1GQ5XEProofs`, for any number of blocks, pages and contents, over SPI and QSPI, with
restarts and losses of power at any moment:

- `TypeCorrect`, with `Shape`: every request lies in one block, the page a transfer is at is one of
  it, and no more pages are moved than it has.
- `OnlyTheTargetChanges` and `NoByteMatchesKept`, whatever fails; the second, for a chip of whose id
  neither byte matches, from `Identified`.
- `SuccessIsTrue`, that is `OkMeansDoneUnlessFailed`. `SInv` holds as long as nothing, neither a protocol
  call nor the chip, failed since
  `init()` and no `Delay` was too short: `ChipReady` is the state of the chip that the next call needs
  (so that it hears and understands every command), `DoneSoFar` what became of each page of
  the request, `WritingHere` what a loss of power can spoil.
- `DriverIsBlockDevice`: the driver implements `BlockDevice`, step by step (`DeviceBegin`,
  `DeviceServe`, `DeviceRestart`).

`SensorsProofs`, for any pins that differ, any buffer and line of the GPS and any sentences:

- `TypeCorrect`, `RetryIsSound`, `SilentBusIsNoDevice`, `PacketIsFetched`, `BusIsExclusive`. The
  lines that are low are those of the call in progress (`Lines`, `Calling`), so only one part hears it
  (`WhoHears`, with the eight bits of the pin in `MaskedBits`); `Configured` says, for each place in
  `init`'s sequence of calls, what each part keeps since its reset, whatever attempts came before.
- `GgaStaysInBuffer`, from `Stops`: as long as only GGA sentences came, the last cell of the buffer
  is never written to, and ends every loop.

`FixProofs`, for any sizes of buffer, line and fields and any well formed sentences
(`SentencesAssumption`), GGA or others, in any number of receptions:

- `FixIsOfOneSentence`. Its first half is about `Split` alone: after k characters a field that a
  comma has ended is complete, the one in progress begins behind its comma, and those behind it are
  empty (`SplitUpTo`). A least counterexample shows that the recursive function exists and that this
  holds of every line (`SplitExists`, `SplitWhole`), and commas are told apart by the number of commas
  before them (`FieldFrom`). So a line that was cut off has all fields of its sentence but the last one
  it reaches, which is a prefix (`SplitPrefix`). `SentenceBegun` finds the sentence a line is the beginning of.
  The second half is the buffer. `Stored` says of each cell whether it is of the last reception,
  empty, or of an earlier reception that is in the buffer from there to its end (`Held`); `Modes`, that no
  reception begins within a `read`, though one may end; `Copying`, that the line is the beginning of a sentence of
  one reception, up to its end if the buffer did not change meanwhile. `FixOfOneSentence` alone
  says nothing before `read` returns. Without `Held` a line could begin in one reception and end in another.

The assumptions on constants (`FlashAssumption`, `ChipAssumption`, `SentencesAssumption` and so on)
are evaluated by TLC with each run.

Only model-checked is liveness (`KeepsSaving`, `ShutdownHonoured`, `CallsReturn`, `LoopsEnd`),
which needs ENABLED. Induction is replaced by a least counterexample wherever a recursive function
is proved about.

## Findings

Six disagreements with what the repository says are shown by a run each; their
lines and the words they contradict are in `PROJECT.json`.

1. A writer that preempts a read can tear it, the case the comment claims to exclude (`DoubleBuffer_torn`).
2. Concurrent `subscribe()` calls lose a subscription (`Registry_race`).
3. SensorTask never sleeps: its delay is behind an endless loop (`Telemetry_sensor_first`).
4. `append` never syncs (`Flash_unsynced`).
5. Errors of the bus are reported as success by the flash driver (`GD5F_silent`).
6. `GPS::init` tests the results of the protocol the wrong way round, and reports success when both
   calls failed (`GPS_inverted`).

Noticed while modelling, and part of the models where they are modelled at all, but without a run
of their own (most are certain from their line, whatever the order of events):

- a file that cannot be opened halts the program in `open`, where `flash.h:63` promises a status
  code (`flash.cpp:65`), and goes unnoticed in `bootcount` as well (`flash.cpp:51`); both return
  a size or a count when they return;
- the id test accepts a chip whose id matches by half (`gd5f1gq5xe.cpp:247`);
- over QSPI every call ends in an assertion if the HAL's numbers for the lines of an address are not
  those for the lines of data, as in ST's HAL, where they are fields of one register (`qspi.cpp:22`);
- `read` of the Bosch drivers ignores the results of the fetches, and puts what it has not read
  into the packet (`bmi088.cpp:170`);
- `GPS::read` takes what has arrived of a line for a whole one, and may cut the altitude
  (`cd-pa1616s.cpp:52`);
- a task that deleted itself is still in the registry and is notified (`base_task.h:119`);
- a packet can be saved twice (`flash_task.h:31`; the model bounds it, `SavedAtMostTwice`);
- any mount error formats the flash (`flash.cpp:36`), and an unreadable boot count starts again (`flash.cpp:57`);
- `unmount()` does not close files, although `flash.h:49` says so;
- a failed mount returns -1 as an unsigned 32 bit number;
- a `Delay` under FreeRTOS can be shorter than the chip needs (`hal.h`);
- a chip at the pins 8 to 15 is never selected, for `SPI` keeps the pin in 8 bits (`spi.h:30`);
- over QSPI a dummy byte on one line is 4 cycles, over SPI 8 (`qspi.cpp:24`, `spi.h:23`);
- the status of the chip after a program or an erase is never read (`gd5f1gq5xe.cpp:141, 190`);
- the loops of `GPS::read` go on behind a buffer that is full, perhaps for ever (`cd-pa1616s.cpp:33, 52`);
- the length given to the CRC unit is in bytes, which a unit set up for words takes as words (`sensor_task.h:39`).

## Plan

Done: all modules above, and the proofs of every safety invariant and action property that
a passing run checks.

Next: `Telemetry` with a radio task as second reader of the buffer.

## Not modelled

Floating point (altitude, unit conversion) has unit tests and is out of TLC's reach. The
layout of `Packet` is abstracted to words. `LOG` only prints. The HAL, FreeRTOS, littlefs and
the Bosch libraries are external and modelled from how the code uses them. `QSPI`'s command
building does not compile as it stands (`qspi.cpp:41-72` uses members in a free function): the
model is what it says with those members in scope, without the value of the address. `I2C` has no
user in the repository and no state. `Task::init` is a call of FreeRTOS. A `LOG` over USB may wait for ever
without a host (`log.cpp:29`), which is not modelled. Weak memory does not matter on one core and is not modelled.
