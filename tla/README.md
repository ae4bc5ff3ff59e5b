# Verification of the STM32N647 firmware

TLA+ models of the firmware in this repository, TLC configurations that check
them on small instances, and proofs checked by TLAPS.  Paths below are relative
to the repository (`app/Core/Src/...`), line numbers are in `PROJECT.json`
(`map`).

## The system

Two images.  The FSBL (`fsbl/`) sets the clocks, initialises HyperRAM and NOR
flash, maps the flash and jumps to the APP (`app/`).  The APP runs FreeRTOS on
one Cortex-M55 core, preemptive with time slicing.

| part | state it keeps | operations | talks to |
|---|---|---|---|
| lwrb ring (`Middlewares/lwrb`) | storage, `w_ptr`, `r_ptr` | `lwrb_write`, `lwrb_read`, `lwrb_get_free`, `lwrb_get_full` | two rings in the serial console |
| serial console (`console/serial_console.c`, `console_log.c`) | two rings, two waiting-task slots, USART1 FIFOs and flags, task notifications | `serial_console_read`, `serial_console_write`, IRQ handler, `console_log_write` | every task that logs; the shell |
| SD NAND driver (`drivers/sdmmc_drv.c`, HAL) | mutex, ready and done flags, HAL `State` and `ErrorCode`, the DMA transfer, the card | `sd_storage_read/write` (and `_locked`), `SD_InitTask`, SDMMC2 IRQ | USB, shell, recorder |
| H.264 recorder (`drivers/venc_recorder.c`) | `s_status`, batch buffer, next LBA, stream length, encoder | `VencRecorder_Request`, `VencRecorder_ProcessFrame` | camera task calls it; shell requests; writes the NAND |
| USB mass storage (`usb/usb_msc.c`, TinyUSB's `msc_device.c`) | one sector buffer; stage, command, counts, sense key, one endpoint buffer | the handlers of the bulk-only transport; read10, write10 (read-modify-write) | locks the NAND; the host |
| SD shell commands (`shell_cmds/sdmmc_cmd.c`) | - | `sd read`, `sd write` with read-back | NAND |
| camera (`drivers/camera_demo.c`) | DCMIPP pipes, preview buffer, `s_ai_capture_armed`, event bits | `CameraDemo_StartPipe1`, `WaitPipe1Frame`, DCMIPP IRQ | AI buffer, LCD, recorder |
| AI (`app/ai_instance_segmentation.c`) | `s_ai_buffer_busy`, input buffer, boxes, result sequence | `GetInputBuffer`, `SubmitCameraFrame`, `CancelFrame`, task loop | camera, NPU runtime |
| FSBL (`fsbl/Core/Src/main.c`, boot, NOR and HyperRAM drivers) | `NORFlashObject` (link, command table), mapped mode; the flash chip keeps its link, latch and operation over a reset of the MCU | init, erase, write, map, jump | the APP image |

What is hard to get right here, and hard to test, is listed line by line under
`hazards` in `PROJECT.json`.  In short:

- **Interrupts between two looks at shared state.**  The console decides to wait
  from a ring the FIFO has just drained; the SD driver reads done flag and error
  code one after the other; the recorder publishes error and state one after the
  other.
- **Timeouts shorter than the thing they wait for.**  The SD driver gives up
  after 5 s while the SDMMC still transfers.
- **One slot for several waiters** (`tx_wait_task`).
- **Crash and partial failure** in the recording: LBA 0 may carry its magic only
  over a complete stream, and the NAND is shared with a USB host.
- **A chip and a host that go on without us**: a flash still in octal mode or in
  an erase after a reset of the MCU, polls without timeout; a USB host that halts
  endpoints, stops short, and resets the bus while a command waits for the card.
- **Boundaries**: full and empty ring, FIFO threshold, batch and card end,
  32-bit address sums.

What makes each part correct:

- ring: a bounded FIFO queue for one producer and one consumer without a lock;
- console: no byte lost, duplicated or reordered within a task's output, nobody
  sleeps with work to do;
- SD driver: one transfer at a time; success means the blocks are where they
  should be; calls return and the device recovers;
- recorder: the magic in LBA 0 is never a lie, COMPLETE is never a lie, a
  request ends;
- camera and AI: the input buffer has one owner at a time, each submitted frame is
  run once;
- USB disk: every byte goes where the command says, also through partial sectors
  that another task changes; the status is never a lie; every command ends;
- FSBL: page-split writes change exactly the range; the jump reads the image,
  whatever state a reset left the flash in.

## Modules

```
BoundedQueue   <--implements--  Lwrb          MC_Lwrb, LwrbProofs
                                 |  (a ring is that queue)
                                SerialConsole  SerialConsoleProofs
BlockDevice    <--implements--  SdStorage     MC_SdStorage, SdStorageProofs
      ^-------- INSTANCE -----  VencRecorder    VencRecorderProofs
FrameSlot      <--implements--  VisionPipeline  VisionProofs
UsbMsc         MC_UsbMsc, UsbMscProofs   (over the promise of BlockDevice, one block a call)
NorFlash  <--EXTENDS--  FsblBoot    MC_FsblBoot, FsblBootProofs
```

### BoundedQueue, Lwrb

`Lwrb` splits `lwrb_write_ex` and `lwrb_read_ex` at their accesses to shared
state: the load of both positions (`WriteLoad`, `ReadLoad`), the two `memcpy`
calls (`WriteLinear`, `WriteWrap`, ...) and the store of the own position
(`WriteStore`, `ReadStore`).  `writer` and `reader` hold the locals of the call in
progress.  The amount is computed from one load of the other side's position, as
the comment in `lwrb_get_free` explains; that the position may be stale later is
the point of the model.  Copies are atomic: their bytes are disjoint
(`NoOverlap`), so that splitting them further changes nothing.

`BoundedQueue` is what the two calls promise: a queue of `Size - 1` bytes.
`ImplementsQueue` is the refinement; `Contents`, the bytes between the two
positions, is the abstract queue.

### SerialConsole

Inside the console every use of a ring is in a critical section or in the
handler, so the ring is a sequence of at most `RingCapacity` bytes (justified by
`Lwrb`).  One action per critical section (`WritePass`, `ReadPass`), per wake-up
(`WriteWake`, `ReadWake`), the handler as one action, and the USART:
`ShiftOut`, `ShiftIn`, `LineIdle`.  A byte is tagged with its task, message and
position.  The USART moves bytes at any time; a shift *inside* a critical
section is the same as one just before it, except for the byte that leaves between
filling the ring and testing it for room: `WritePass` moves as many bytes to the
FIFO as fit at that moment, which is what `lwrb_get_free` then sees.

History variables: `wire` (sent), `logged` (handed to the driver), `delivered`
(returned by reads), `missed` (why a waiting task is not registered: `"space"`,
the FIFO made room inside its own critical section; `"displaced"`, another task
took the slot).  No guard reads them.

`missed` marks two real weaknesses of `serial_console_write`, not modelled away:
a task that waits in one of those two ways is woken only by luck (a later
notification for another reason).  `TxWaitAccounted` says there is no third way,
and `TxWaitEnds` that otherwise the wait ends.  No document, comment or test of
the repository promises more, so this is stated as the property that holds and
listed under `hazards`.

### BlockDevice, SdStorage

`BlockDevice` is the promise: a call moves its blocks one at a time, between
call and return only; `OK` means all of them, an error some prefix.

`SdStorage` is the driver, the HAL's start functions and interrupt handler and
the card.  `pc[t]` walks through `sd_storage_read/write`: lock, checks and
clearing of the done flag (`ClearDone`), `HAL_SD_*Blocks_DMA` (`StartBusy`,
`StartFails`, `StartTransfer`), `sd_wait_done_flag` as two reads (`WaitFlag`,
`WaitError`) and its timeout, `sd_wait_card_transfer`, unlock.  `MoveBlock` is the
DMA, `DataEnd` and `DataError` the two ends of a transfer in
`HAL_SD_IRQHandler`.  `buf[t]` is memory: the DMA reads and writes it as it is at
that moment, whoever owns it by then.  `stale` is a history variable: tasks whose
present call was touched by a transfer of an earlier one.

`LateAnswers` separates two worlds.  FALSE: the card answers within the 5 s of
the driver; then the driver implements `BlockDevice` and the DMA never touches
the buffer of a task that is not waiting.  TRUE: the transfer may outlast the
wait (the SDMMC's own timeout is 2^32 - 1 card clocks).  Then the HAL refuses new
transfers until the late one ends, every call still returns, and success is
real except in the two ways `SuccessIsReal` names.

### VencRecorder

The recorder as the camera task runs it: `pc` follows `ProcessFrame` into
`venc_encoder_begin`, `venc_encode_frame` and `venc_encoder_finish`, with
`venc_storage_append` and `venc_storage_flush` as their own steps and `after`
as the return address of an append.  The NAND is an instance of `BlockDevice` with
the recorder as its client, so a write moves block by block, may fail after
any prefix, and a `Reset` may come between any two blocks.  `OtherWrite` is the
USB host or `sd write`.  A unit is a piece of the stream tagged with its
recording and position, so a block of an old recording or a hole is seen at
once; `BlockUnits` stands for the 512 bytes of a block.

### FrameSlot, VisionPipeline

`FrameSlot` is what camera and network promise each other about the one input
buffer: one owner at a time, and each frame handed over is evaluated once,
unchanged, before the buffer is free again.

`VisionPipeline` is the camera task (`cam` walks through one snapshot:
`GetInputBuffer`, `DiscardEvents`, `ArmPipe1`, `RequestPipe2`, `RequestPipe1`,
`WaitEvents`, `CopyPreview`, `SubmitFrame`, `ProcessFrame`), the two pipes of the
DCMIPP (`FrameStart`, `Overrun1`, `Overrun`, `Pipe1Done`, `Pipe2Done`: modelled from
how the driver programs them in snapshot mode), its interrupt (`IrqHandler`) and the
network task (`ai`).  Flags of the pipes and notified event bits are two
variables, because an event may be in either when the camera task discards the
old ones.  `preview` and `input` are the memory the pipes write: a frame of the
sensor, or `Torn` while only part of one is there.  `WaitTimeout` may come at any
moment of the wait, with events pending or not.  An error of the wait ends the
loop of `CameraTask` for good (`"stopped"`), while the pipes go on.

Both pipes can lose data.  Pipe 2's overrun interrupts and ends the loop.  Pipe 1's
does not: `CameraDemo_StartPipe1` enables its frame interrupt alone (`Enabled`), and
its overrun flag is cleared when pipe 1 is armed and never looked at.  So a torn
preview ends the wait like a whole one, and LCD and recorder take it; no document
promises otherwise.  `WaitsForOwn` says what is left: no pipe writes any more, what
pipe 2 wrote is whole, and what pipe 1 wrote is whole exactly when that unread flag
is clear - which is what a driver that asked for it would learn.

`submitted` and `split` are history variables.  `split` says that a frame of
the sensor began between the requests of the two pipes: then preview and
network input are neighbouring frames (`FramesMatch`, which also excepts a preview
that lost data).  The driver cannot rule
that out - its comment only says that both pipes are armed before the next frame
arrives - and no document promises more.

`AiFirst` is the start-up order.  `AIInstanceSegmentation_GetInputBuffer` claims
the buffer as soon as the network task has set its handle, even when `s_input` is
still NULL or `s_ai_ready` is not set; nobody gives such a claim back.  With the
priorities of `main.c` (ai 3, camera 2, and nothing in the start-up of the network
task blocks, its debug messages being compiled out) the network task is ready
before the camera task runs: `OneOwner` and `BufferReturns` hold for `AiFirst =
TRUE`.  The other properties hold in either order: without it the network
starves, but still reads only whole frames.

The notification bits of the camera task (index 0) and the wait for the console
(index 1) are separate, so that logging does not disturb a capture.

### UsbMsc

The bulk-only transport is part of TinyUSB, but the callbacks of `usb_msc.c` run
inside it, and what the host is told about the card is decided there.  So the
module has both.  `msc` is `_mscd_itf` with the two bulk endpoints and the one
buffer that command, data and status share; an endpoint has `busy` and `stalled`
as `usbd.c` keeps them, and `kind` and `len` of the transfer in flight.  One action
per event of `tud_task_ext` (`CommandReceived`, `DataReceived`, `DataSent`,
`StatusSent`, `HaltCleared`, `BusReset`, `Configured`), each with the trailing
`proc_stage_status` in it (`Handled`).  An event that calls the storage does not
end at once: `Lock`, `Fetch`, `Store` and `Unlock` are the steps of
`tud_msc_read10_cb` and `tud_msc_write10_cb` under the mutex, `Refuse` their early
returns; `IoDone` is what TinyUSB makes of the result.  Meanwhile the host and the
shell go on.

The host is external: it sends commands, packets as long as asked or shorter,
takes data and status, clears halts, gives up and resets the bus.  `Validate` and
`Chunk` see the two lengths of a command, which need not agree.  Their quotient is
the block size; `Validate` sees all of it and `block_sz` its low 16 bits (`SizeLimit`
stands for 2^16).  When these are zero the command is left without a next transfer
and without a status (`CallStorage`, `SizeLost`): only a reset of the host ends it.  Blocks have
`BlockSize` cells, and so has the buffer.  The card is used through the promise
of `BlockDevice` for one block: it is transferred or the call fails, and a failed
write may have stored it.  The shell's `sd write` has a lock for the write and another
one for the read back; what it prints about the two is not modelled, since it decides
nothing.  The recorder, the third task that uses the card, is not a client here:
its writes and the host's meet in `VencRecorder` (`OtherWrite`).

`moved` (cells of the command that went to or from the card) is a history variable.

### NorFlash, FsblBoot

`NorFlash` is the driver of the FSBL and the chip.  `chip` and `obj` each have a
link; a command is heard when they agree (`OnLink`), no operation is in progress and
the chip is ready (`Hears`).  A cell stands for the two bytes the octal link transfers
together; odd addresses and lengths, which the driver does not refuse, are left out.  `pc` walks through `NORFlash_Init` (`XspiInit`, `Reset` once
per entry of `PhyLinkTable`, `ReadId`, `ReadCr2`, `EnableDtr`) and through a call of
the interface (`Loop`, `WaitBusy`, `EnableWrite`, `ProgramPage` or `Erase`).  A
program wraps within its page and only clears bits.  The operation takes effect
when the chip ends it (`ChipDone`), or in part when it is reset (`ChipResets`).  A chip
reset in the middle of one may need longer than the 10 ms the driver waits before it is
ready again (`ChipReady`); `chip.prompt` is whether this chip never does.
The polls of the status register have no timeout, so they are guards.

`FsblBoot` adds `main`: mapping and jump, whatever the initialisation returned,
and `McuReset` and `PowerLoss` at any moment, also after the jump.  A reset of the MCU
clears the driver's object and nothing of the chip.  `UseFlash` calls the driver's
interface between initialisation and mapping; the repository offers
`NORFlash_Write`, `NORFlash_EraseSector` and `NORFlash_EraseChip` in `norflash.h`
and has no caller of its own.

Two error paths are not taken: `LL_XSPI_ConfigRegularCmd` fails only for a command
without an instruction, which none is, and the interface bits of CR2 are 0 in a
chip that has just been reset and answered its identification.

`before` and `target` are history variables: the cells at the last call, and as
it asks; so is `mapped.ok`, what `NORFlash_Init` returned.

## Runs

| run | instance | states | what it shows |
|---|---|---|---|
| `Lwrb` | ring of 4, all calls of 1..4 bytes over 2 values | 18 608 | `NoOverlap`; the ring implements the queue |
| `ConsoleTx` | 2 tasks, 2 messages each of 1 or 3 bytes (and cut at 3), ring 2, FIFO 1 | 22 303 | `TxPreserved`, `TxArmed`, `TxWaitAccounted`, `TxWaitEnds`, `TxDrains` |
| `ConsoleRx` | 6 bytes, ring 2, FIFO 3, threshold 2, reads of 1 or 2, one logging task | 8 886 | `RxNoLostWakeup`, `RxLost`, `RxReadEnds` |
| `ConsoleLog` | messages around the buffer size | violated | finding: the log is not byte-identical |
| `SdStorage` | 2 tasks, 2 blocks, addresses in range, at the end and wrapping, 1-2 blocks a call, answers in time | 214 722 | transfers lie on the card (`TypeOK`); `NoStrayDma`; the driver implements the block device |
| `SdStorageLate` | the same with late answers, one address | 159 203 | `OneTransfer`, `SuccessIsReal`, `CallEnds`, `Recovers` |
| `VencRecorder` | 5 blocks of 2 units, batches of 2 blocks, 2 frames of 1, 3 or 6 units, 3 recordings | 148 540 | `MagicComplete`, `CompleteIsOnDisk`, `RequestKept`, `EncoderReleased`, `RequestEnds` |
| `Vision` | frames told apart modulo 3, any start-up order | 23 718 | `NetworkReadsFrame`, `WaitsForOwn`, `FramesMatch`; the pipeline implements the slot |
| `VisionInOrder` | frames modulo 2, network task first | 5 558 | `OneOwner`, `BufferReturns` |
| `UsbMsc` | 2 blocks of 2 cells, 12 commands, the shell on block 1, `SizeLimit` 4 | 516 845 | `StatusHonest`, `SectorsExact`, `CommandEnds` |
| `UsbMscBlockSize` | the same | violated | finding: a block size that is not verified |
| `FsblBoot` | 3 pages of 4 cells, a sector each, 3 writes, 3 erases, 2 calls, 2 resets, the right chip and another, prompt or not | 73 766 | `FlashExact`, `JumpReadsImage`, `JumpKnown`, `BootEnds` |

**Bounds.**  Ring: four slots have every relation of the two positions
(`w < r`, `w = r`, `w > r`, wrapping at the last slot, partial writes); the
theorems hold for every size.  Console: a message longer than the ring plus
the FIFO forces waiting, two tasks force the slot to be displaced, two messages
each force a wait with a notification left over from the first; `MaxRx = 6` is
more than ring and FIFO together, so both overflow.  `LogBufSize` is 3 for
the 128 bytes of the code.  SD: two tasks are enough for one to meet what the
other left behind; `AddressSpace = 4` stands for 2^32, so that 3 + 1 wraps past
the range check.  Recorder: 5 blocks are too few for the longest stream, so
`NO_SPACE` happens at each flush; frames of 6 units cross a batch, frames of 1 do
not fill a block; three recordings let the second be cut short over the first and
the third run over both.  `MaxMessages`, `MaxRx`, `MaxSessions` only bound the
inputs.  Vision: nothing else is bounded; three frame ids tell the frame a pipe
holds from the one before and the one after it, and the theorems hold for any
number.  USB: a command of two blocks has a first, a middle and a last packet and a
block beyond the card; two cells in a block make a packet that is short; the lengths
of `MC_UsbMsc` disagree in each of the ways `Validate` tells apart, and in two it does
not: one byte too many, and a block size of `SizeLimit`.  Nothing bounds the number of commands, resets or tests.  FSBL: a write from
the middle of one page over another into a third; `MaxCalls` and `MaxResets` of
two let a call and a boot follow one that was cut short.

**Deadlock.**  Checked for `Lwrb` and `UsbMsc`, which never stop.  The others have
`CHECK_DEADLOCK FALSE`: they stop when the bounded inputs are used up, and a
console task may wait for ever in the two ways `missed` names.  The vision
pipeline stops when an error has ended the loop of the camera task, the boot
loader when it has jumped.

**Fairness.**  Weak, and only of things the platform does on its own: the USART
shifts and its interrupt is taken (priority 6, never masked for long: critical
sections are short), the card answers or the SDMMC times out, and a ready task
runs.  The last one needs a word: tasks have fixed priorities (sd_init 5, usb 4,
ai and shell 3, camera 2, led 1).  All tasks of higher priority block between
events (`usb` sleeps 1 ms per round, `sd_init` deletes itself), so lower ones
run.  The sensor streams on its own, so frames keep beginning, and a wait that
gets no events ends after its second.  A USB host goes on with a command
it began (or resets the bus) and configures a device it has reset; the flash chip ends the
operation it is in.  No fairness is assumed of callers, of new commands, of
incoming bytes, of resets, of `Overrun1` and `Overrun`, or of `CaptureFails`.

## Proofs

`LwrbProofs` - for every `Size`, `Data`, `Calls` and `Wants`:
- `Invariance`: `IInv` is inductive.  `TypeOK` and `NoOverlap` alone are not: they
  do not say how the amount of a call in progress relates to positions that
  have moved since.  `IInv` adds `WriterInv` (the amount still fits the free
  space, since the reader can only add to it; `at` is where the copy stands; the
  slots copied so far hold the data) and `ReaderInv`, its mirror.
- `RingTypes`: `TypeOK` is part of it.
- `NoDataRace`: `NoOverlap` follows, because free and held slots are disjoint.
- `Refinement`: `ImplementsQueue`; a copy does not change `Contents`, a store
  appends to it or removes its prefix.

`SerialConsoleProofs` - for every set of tasks and all sizes: `ConsoleInv` is
`TypeOK`, `TxArmed`, `TxWaitAccounted`, `RxNoLostWakeup` together;
`ConsoleTypes`, `TransmitArmed`, `WriterAccounted` and `ReaderNotLost` follow.
Three theorems are about the bytes themselves:
- `ReceivedInOrder`: bytes arrive with ascending numbers.  `RxInv` says that what
  was delivered, the ring and the FIFO, one after the other, ascend, and that
  nothing there is newer than the last arrival; dropping the end of a full FIFO or
  ring keeps that.  It says nothing of what is dropped.
- `LossOnlyWhenFull`: the action property `RxLost`, which the run checks.  `RxInOrder`, the order
  by itself, follows from it and has no run of its own.  A step leaves what was
  received and not lost (`Received`) alone, or appends the byte that arrived, or loses
  that byte with the FIFO full and its overrun flag set, or - the handler - cuts off
  its end and leaves the ring full.
- `SentInOrder`: a task's bytes among `wire`, FIFO and ring are a prefix of what it
  logged.  `TxInv` adds that what a task is writing is the end of what it logged.
  `OfTask` filters a sequence with a recursive function over its prefixes.  That it
  keeps a piece of one task whole, and that bytes moving from ring to FIFO to wire
  change nothing, is an induction: instead of the library's rule, which takes an
  operator as parameter, the least prefix that would be a counterexample is taken
  (`LeastElement`, from the well-founded order of the numbers).

`SdStorageProofs` - for every set of tasks, card and address space: `SdInv` adds
to `TypeOK` and `OneTransfer` that a call past the lock is a read or a write of a
length for which `lba + n` does not wrap onto the card (`CallKnown`).  From that
and the card's own check of the address `StorageTypes` shows that no transfer
leaves the card; the assumption on lengths is that a call asks for at most
`AddressSpace - LogBlockNbr` blocks (callers ask for 1, the recorder for a
batch).  `OneTransferAlways` holds with late answers too; `NoStrayDmaInTime` assumes
`LateAnswers = FALSE` and needs `Quiet`: the flag a starting call waits for is clear,
and while a transfer runs neither its flag nor the error code is set - so that its
task cannot leave `sd_wait_done_flag` early.
- `SuccessMeansTransferred`: `SuccessIsReal` speaks of the moment before the return
  only.  `RealInv` says, of every call that no earlier transfer has touched, whose
  transfer runs while it waits, that the flag is set only behind all of its blocks,
  which blocks are where by then, and that nothing runs any more when it reports
  success.  No assumption about timeouts is needed.
- `DeviceImplemented`: with `LateAnswers = FALSE` the driver implements `BlockDevice`.
  `Quiet` and `RealInv` together make the running transfer the one its task waits
  for; `Progress` counts its blocks.  Then `MoveBlock` is `Transfer`, leaving
  (`LockFails`, `Unlock`) is `Return`, the two calls are `Write` and `Read`, and all
  other steps show in nothing.

`VencRecorderProofs` - for every card, batch, header, frame and end size, target of
frames and number of recordings: `MagicComplete` speaks of LBA 0 and the blocks
behind it, and is not inductive: nothing in it says why the metadata may be written.
`RecInv` has five parts.  `Control` ties `pc`, return address, state and frame count
together.  `Released` is the life of the encoder.  `Stream` says that batch and rest
are consecutive pieces of the stream, and that the batch begins at a block boundary.
`CallKnown` says which write is in progress.  `Card` says that LBA 0 carries no magic
while a recording runs, and that the blocks flushed hold the stream, except those
another client wrote since.  A short batch is padded, so it must be the last one:
that is why the boundary is in `Stream`.  `MagicIsTrue`, `CompleteIsTrue`,
`RequestIsKept`, `EncoderIsReleased` and `RecorderTypes` follow.

`UsbMscProofs` - for every card and block size and every set of commands, however
their two lengths disagree: `UsbInv` says what is typed (`Types`), what mutex, sector
buffer and shell have to do with the card (`Card`), what the device waits for at each
stage (`Device`), in which order events can stand in the task's queue (`Events`), that
host and device are at the same command (`InStep`), and where its data is - sent,
in the packet, in the buffer, moved (`Data`).  `StatusIsHonest` follows from the last
three.
`SectorsAreExact` is about a step: the patched sector is compared with the card cell by
cell, and between fetch and store the sector buffer is still the block, since the
mutex is held.

`VisionProofs` - for every number of frame ids, and either start-up order unless
said otherwise.  `IInv` ties the three places an event can be (flag,
notification, `events` of the wait) to the state of the pipe that raised it
(`EventsOwn`, `Seen`), and the activity of pipe 2 to a camera task that owns the
buffer or has stopped (`PipeTwo`, `Owned`); `NetworkReadsFrame` and `WaitsForOwn`
are part of it, since each needs the others.  `VisionTypes`,
`NetworkSafe` and `SnapshotComplete` follow; the latter is about pipe 1's torn frames
too, so the invariant ties `preview` to the overrun flag that stays in `P1SR`.  `SameFrame` needs `Matched` (which frames two pipes
hold that began together) on top, `OwnerKnown` assumes `AiFirst` and adds
`InOrder`, and `Refinement` maps each step to one of `FrameSlot`.

`FsblBootProofs` - for every flash size, content, call, and any number of resets:
`BootInvariance` proves `BootInv`.  `JumpReadsImage` alone is not inductive: it
speaks of the jump, and says nothing of the links on the way there.  `BootInv`
says where they may be: after the three pairs of `NORFlash_Reset` the chip is on
one line wherever it was (`Resetting`), a chip that is not ready is on one line, does
nothing and is not prompt (`Recovering`), identification happens on one line
(`Identifying`), after `EnableDtr` both ends are octal (`Working`), a call leaves
the chip not busy, and the mapping is made with the link of the object
(`Mapped`).  `JumpIsKnown` follows: after an initialisation that returned OK the jump
reads the image, with any chip.  `JumpIsSafe` says the same of the chip of the board
whatever the initialisation returned, if the chip is prompt: with one that is not the
identification may be missed, and `main` jumps all the same.
`FlashIsExact` is about the content.  `FlashInv` adds what is left of a call (`Todo`):
each cell is still to be started, or in the operation the chip is in, or has its new
value; a piece stays in its page, so the wrap of the page program never happens; the
chip's operation changes cells only to what the call asks for, so it may stop
anywhere.

Assumptions are the `ASSUME`s of the modules; TLC evaluates them in every run.

Where a run checks a safety property, a theorem states it for every value of the
constants.  Two definitions have the form they have for the provers' sake: the storage
callbacks of `UsbMsc` choose with `IF`, not with a `CASE` whose guards overlap (the value
of such a `CASE` is any of its arms, and TLC takes the first), and `OfTask` is a
recursive function where `SelectSeq` would do for TLC.

**Model-checked only**: liveness (`TxWaitEnds`, `TxDrains`, `RxReadEnds`,
`CallEnds`, `Recovers`, `RequestEnds`, `BufferReturns`, `CommandEnds`, `BootEnds`): the
prover has no rules for fairness and ENABLED.

## Findings

`ConsoleLog`: `console_log.h` promises output "byte-identical to writing the
formatted string directly".  `console_log_write` cuts a message of 128 bytes or
more, and compares `n > sizeof(buf)` although `vsnprintf` stores at most 127
characters: the 128th byte sent is the terminating NUL.

`UsbMscBlockSize`: `msc_device.c` calls the block size of a read or write "already
verified non-zero" where it takes it (835, 897).  `rdwr10_validate_cmd` verifies
`total_bytes / block_count`, `rdwr10_get_blocksize` returns its low 16 bits.  A command
for one block and 65536 bytes is accepted and has block size 0: the check behind the
comment returns, nothing is queued, and the command ends only when the host gives up
and resets the bus.  `CommandEnds` excepts it, by that condition (`SizeLost`) and no
wider one.

## Not modelled

Register setup (clocks, pins, CSI, sensor, LCD), the encoder and the neural
network, letter-shell, FreeRTOS itself (its notifications, mutexes and
critical sections appear by their documented effect), SDMMC1, data caches (the
drivers clean and invalidate around each transfer), and the unused calls of
lwrb.  In `VisionPipeline`: the region-of-interest registers, the boxes as data,
their drawing, and the assertions that halt the firmware.  In `UsbMsc`: the
controller driver (`dwc2`) and enumeration, the class request Bulk-Only Reset and
the invalid command block that needs it, asynchronous callbacks, the recorder as a third
task that takes the mutex, and the verdict `sd write` prints.  In `NorFlash`: the clock
divider, and calls with an odd address or length, which the octal link would round;
HyperRAM and its initialisation, on which the jump does not depend; the jump
itself, which ends the FSBL.

## Plan

Done: 1. `BoundedQueue`, `Lwrb`, `LwrbProofs`.  2. `SerialConsole`,
`SerialConsoleProofs`.  3. `BlockDevice`, `SdStorage`, `SdStorageProofs`.
4. `VencRecorder`, `VencRecorderProofs`.  5. `FrameSlot`, `VisionPipeline`, `VisionProofs`.
6. `UsbMsc`, `UsbMscProofs`.  7. `NorFlash`, `FsblBoot`, `FsblBootProofs`.

Not planned any more: region-of-interest clipping and gain conversion of the
preview, floating point arithmetic without state.

Every safety property a run checks is proved.  Worth proving next: that the bytes of
a stream that reached the card are in order also while it is recorded (a weaker form
of `MagicComplete` for a recording cut short), and the safety half of the liveness
properties - that the thing waited for stays enabled (as `WriterAccounted` and
`ReaderNotLost` are for the console).
