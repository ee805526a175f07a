# A TLA+ model of CUzeBox

CUzeBox emulates the Uzebox game console: an ATmega644 AVR at 28.6 MHz that
draws its picture in software, with an SD card and an SPI RAM on its SPI bus, an
ESP8266 on its serial port and SNES pads or a keyboard dongle on port A. This
directory holds TLA+ specifications of the emulator, configurations that check them
with TLC, and proofs that TLAPS checks. Line numbers refer to the files of the
repository.

## The system

The main thread runs `main_loop` (`main.c`). A pass looks at the clock, saves what has
to be saved, takes the host's events and calls `frame_run` (`frame.c`), which calls
`cu_avr_run` (`cu_avr.c`) for every video row; that executes instructions until the row
is complete. Everything on the emulated board is called synchronously from an
instruction: an I/O register write, or `cu_avr_hwexec` when the cycle counter meets the
next hardware event. The one other thread is SDL's audio callback. The host's file
system and network, the player and the operating system that may kill the process are
the environment.

| Component | State | Operations | What is hard |
|---|---|---|---|
| AVR hardware (`cu_avr.c`, `cu_avr_n.h`) | `cpu_state`, `cycle_next_event`, `event_it`, `event_it_enter`, `timer1_base` | clock tick, `cu_avr_hwexec`, `cu_avr_itcheck`, `cu_avr_interrupt`, `cu_avr_write_io`, resets | one cached cycle for the next event of six peripherals; interrupt checks on request only; watchdog resets in the middle of an instruction; wrapping cycle counters |
| AVR instructions (`cu_avr_n.h`, `cu_avr_e.h`, `cu_avrc.c`, `cu_avrfg.c`) | registers, memories, compiled code, flag tables | about 130 instructions in two decoders, code compiler | code compiled ahead that programs rewrite; flags from a table that sees two bits of each operand; two decoders that must agree |
| SPI bus (`cu_spi.c`) | the transfer | send, receive, chip selects | both devices see every byte, the results are wired together |
| SD card (`cu_spisd.c`) | `sd_state` | reset, chip select, send, receive | three machines advanced by each byte; commands interrupting transfers; deadlines on a wrapping counter |
| SPI RAM (`cu_spir.c`) | `spir_state` | reset, chip select, send, receive, sizes | modes, page and address wrap, commands cut off |
| Virtual disk (`cu_vfat.c`) | FAT image, `hnames`, `rwbuf`, `vfat_last`, `vfat_lfile`, `vfat_broken` | build, read byte, write byte | finds the file of a sector by walking a FAT the program rewrites; caches; one buffer for both directions |
| Host files (`filesys.c`, `filesmin.c`) | three channels | open, read, write, position, flush, find | implicit reopening, failures, buffered streams |
| Persistence (`eepdump.c`, `romdump.c`, `main.c`) | change indicators, `main_peepch`, `main_promch` | load, save after a burst, save on exit | changes between two looks, resets and kills in between |
| Main loop (`main.c`) | drift, frame drops, pause, single frame, exit | passes, events | pace on an unsigned difference; indicators asked and cleared in one pass, used in another |
| Audio (`audio.c`) | ring buffer, increments | callback, `audio_sendframe`, reset | two threads without a lock; a full ring looks like an empty one |
| ESP8266 (`cu_esp.c`) | `esp_state`: UART, rings, modes, sockets | UART read and write by the AVR, AT commands, network polling, resets | timed busy periods, rings at their limit, command modes, failures of the host network |
| Controllers, keyboard, mouse (`cu_ctr.c`, `cu_kbd.c`, `cu_mouse.c`) | latches, code queue, protocol state | latch and clock edges, key events | edges of single writes, queue limits, events in the middle of a read |
| Game input (`ginput.c`) | modes, directions held | key, button and stick events | mode switches with keys held, several sources for one bit |
| Frame, GUI, capture, force feedback, game files | buffers | draw, record, vibrate, load | sequential, or output only |

### What makes each correct

* SD card: the transfer machine and the card state agree; accesses stay in the
  sector; commands are made of consecutive bytes; busy times are kept; to the
  program it is a block device.
* AVR hardware: no deadline is missed, the event schedule is invisible, no
  enabled interrupt is forgotten.
* AVR instructions: words mean what the instruction table lists; the compiled code is
  that of the ROM; programs compute what integers do, also when interrupted.
* SPI: each device only reacts to its own bytes; the RAM is a serial memory.
* Virtual disk: a sector belongs to the file whose chain holds it, as the
  directory is now; a sector read returns what was last written to it.
* Files and persistence: what the memories held is found by the next run; a kill
  costs at most what was not dumped yet.
* Main loop: the pace neither accumulates nor starves; every change is saved.
* Audio: samples enter the ring with no gap but whole frames, come out in order, and do
  not wait for ever; the step stays in its range.
* ESP8266: connections are open sockets of their own; a connection is lost with a message
  or by the program's own command; transparent bytes arrive once and in order, or are refused.
* Controllers and input: a read between two latches sees the state of the first one; a
  released key ends up released; a release never reads as a press.

## Modules

| Part | Modules | Depends on |
|---|---|---|
| SD card | `SdCard` implements `BlockDevice`; `SdCardProofs`, `MCSdCard` | |
| AVR hardware | `AvrHw` implements `AvrSchedule`; `AvrHwProofs`, `MCAvr` | `ModularArith` |
| AVR instructions | `AvrFlags`, `AvrCompile` -> `AvrMachine` -> `AvrDecoder`, `AvrDecoderE` -> `AvrCpu` -> `AvrPrograms`, `MCAvrCpu`; reference `AvrInstTable` | |
| SPI | `SpiRam` -> `SpiBus` implements `SerialMemory`; `SpiProofs`, `MCSpi` | `ModularArith` |
| Virtual disk | `HostFiles` -> `VFat` implements `SectorDisk`; `VFatProofs`, `MCVFat` | `ModularArith` |
| Main loop, persistence | `HostFiles` -> `MainLoop`, `MCMainLoop`; `FramePacing`; `MainLoopProofs` (these and input) | |
| Audio | `AudioRing` implements `SampleQueue`; `AudioRate`; `AudioProofs`, `MCAudio` | `ModularArith` |
| ESP8266 | `EspAt`; `EspProofs`, `MCEsp` | |
| Input | `SnesPads`, `KeyboardDongle` -> `GameInput`, `MCGameInput`; `MainLoopProofs` | |

An arrow is EXTENDS. `ModularArith` has the lemmas about remainders, products and least
elements that several proofs share. Definitions named `Fault...` are variants with a plausible bug;
no specification uses them, each breaks the property it was written against.

## Plan

Done: everything in the table above. Not begun, in this order:

1. The ring of the ESP8266 and its UART timing over an abstract queue.
2. The production of rows and the detection of synchronisation (`frame.c`).

## SD card: `BlockDevice`, `SdCard`, `MCSdCard`, `SdCardProofs`

`SdCard` has one variable for `sd_state`. The field `cmd` of the code, a 6 bit
command with four flag bits, is kept as `code`, `app` (`SCMD_A`) and the phase that
the flag bits `SCMD_R`, `SCMD_N` and `SCMD_X` stand for. The actions are the
entry points: `Send` is `cu_spisd_send` with `TransferStep` (lines 255-393),
`CommandStep` (402-468) and `StateStep` (476-769) applied in this order to the byte;
`CsSet` and `Reset` are `cu_spisd_cs_set` and `cu_spisd_reset`. `cu_spisd_recv`
returns the field `data`.

Abstractions: a CRC is right or wrong (input `crcOk`), the SPI rate lies in the
range for initialisation or not (input `timely`), the cycle counter is kept as
the distance `left` of `next`, modulo its wrap. The media is not modelled: a
read or write of it is `paddr` and `ppos`. Two history variables: `since` counts
bytes from a command's first one, `age` the cycles from setting `next`.

`BlockDevice` says what this is for: sectors move byte by byte, in order, a write
ends at block boundaries and through a busy period, nothing moves before
initialisation. A multiple block write stays at its sector, as in the code: `paddr`
advances for CMD18 only (743), so that CMD25 writes all of its blocks to one sector,
which is not what the SD protocol says.

`Reset` may come at any time, although the emulator resets the card once, when it
starts: a watchdog reset of the AVR leaves its devices alone.

| Run | Shows |
|---|---|
| `sd_card` | `TypeOK`, `TransferAgrees`, `InSector`, `FrameContiguous`, `OcrTruthful`, `DeadlineKept` and the refinement `ImplementsBlockDevice` hold |

Bounds: blocks of 2 bytes (the first and the last of a block are distinct, the
code treats no other one in a special way), arguments of 1 byte, 3 initial clocks,
two stuff bytes before a read and one before a response, a counter that wraps at
16 with deadlines of 7 and 3, gaps of 1 and 3 cycles between bytes (so that
deadlines are met exactly, and passed). Bytes are the tokens, 0xFF and 13
commands, two of which the card does not have. `ArgBound` keeps three argument
values: an illegal one, the CMD8 check value and the ACMD41 value. `View`
leaves out fields that are assigned before they are read in the state at hand
(position outside a transfer, deadline outside a wait, response register outside a
command), which does not merge states with different futures.

A deadline counts as past when it is less than half the range of the cycle counter
behind. The times of the code, 500 and 100 ms, are far below half the range
(`DeadlineAssumption`), so that no wait is cut short; a program that does not poll a
busy card for 2^31 cycles (75 seconds) may find it busy for longer, in the code as in
the model. The small counter of the run covers both.

### Proofs

`SdCardProofs` proves all properties of the run for all lengths, times, byte sets and
ranges allowed by `SdCardAssumption` and `DeadlineAssumption`. `TypeCorrect`,
`TransfersAgree`, `AccessInSector`, `FramesContiguous` and `OcrIsTruthful` follow from
`Invariance`, `Spec => []IInv`.
`IInv` puts the five properties together (`Settled`: the record's type, `Agrees`,
`Positioned`, `Talking`) and adds what they need of each other: the position is
bounded in every state, so that it stays typed where a reset leaves it alone; the
bytes of a command and of the wait before its response are counted within bounds;
a command is only held by a selected card that is past its start up and takes no
write data. None of the properties is inductive alone: `TransferAgrees` needs to
know that no command is answered while write data is taken, `OcrTruthful` that
nothing but a new command leaves the available state, which ends the OCR.

The argument follows the code: one lemma per machine (`TransferInv`, `CommandInv`,
`StateInv`) says what it establishes for the next one, `SendInv` composes the
three, `ResetInv`, `CsSetInv` and `InitInv` are the rest of the induction step.

The action property and the refinement need to know what each machine does to a few
fields, not only what it preserves: `TransferFields` and `StateFields` say it of the
transfer and the state machine, `SendFields` of a byte. `DeadlinesKept` adds the
invariant `Timed` to `IInv`: while the card waits, and its age has not saturated, the
time left is the remainder of what the age leaves of the time to wait (`AgedWaits` keeps it over
any number of cycles); a deadline that looks past was then waited out (`WaitedOut`).
`BlockDeviceImplemented` maps the state of a card to the one of `BlockDevice`
(`ModeOf`, `MultiOf`, `SectorOf`, `MovedOf`). `ReadDevice` and `WriteDevice` take a byte
of a read and of a write to the action of the device that it is, `RestDevice` the
bytes outside transfers, `NextDevice` all steps: a selection is a stutter, a reset
`GoUnready`. `Positioned` is what makes the last byte of a block complete it.

## AVR hardware: `AvrHw`, `AvrSchedule`, `MCAvr`, `AvrHwProofs`

`AvrHw` models an instruction as one step that makes the calls of the code in their
order: `Tick` is `UPDATE_HARDWARE` (221-227), `LastTick` is `UPDATE_HARDWARE_IT`
with `ItCheck` for `cu_avr_itcheck`, then the write of an I/O register (the
operators `Write...`, one per register of `cu_avr_write_io`), then the interrupt
entry. `HwExec` is `cu_avr_hwexec`, with one operator per peripheral and the
minimum of their distances at its end. Cycle numbers are kept as distances from now
(`next`, `wdl`, `spil`, `eepl`, `spml`) modulo the wrap of the counter, the timer as its
count. Prescalers and modes appear as the set of times they select. The USART's
deadline is never armed by the code (its lines are comments), so that its flag
changes by register writes only.

`AvrSchedule` states what the cached next event must be: unobservable. With the
constant `Eager` the peripherals are processed on every cycle; the cached one
implements that specification when the next event is hidden.

| Run | Shows |
|---|---|
| `avr_timers` | Timer1: `PendingNoticed` and the refinement `ImplementsEveryCycle` hold while the program starts, stops and reprograms the timer, clears flags and changes masks at any time |
| `avr_devices` | SPI, EEPROM, flash programming and watchdog share one next event without losing a deadline (`EventsCovered`), also when the watchdog resets the core in the middle of an instruction |

Two deviations are in the model. With OCR1A at its maximum the distance to its match comes
out as 0 when the timer is at 0 (343): the next event is "now", a cycle that is over, and all
peripherals stop until a register write asks for an event. The runs take OCR1A from
`CompareA`, which leaves this value out, and OCR1B and TCNT1 from `Compare`, which has their
maxima. Setting EEMPE opens no window of four cycles (857-866), so that
programming starts at any later time.

`PendingNoticed` leaves out what a write to TIMSK1, SPCR or a flag register makes
pending: the code requests no check there, and the interrupt waits for an
unrelated one (history variable `late`).

Bounds: a timer of 4 counts and a cycle counter of 8, deadlines from 2 to 5 cycles,
the values 1 and 2 of OCR1A, 1 to 3 of OCR1B and TCNT1 (3 is the maximum), instructions
of one and two cycles, and the four cycles of RETI, SPM, EEPROM reads and
interrupt entry. Every distance between a write and a deadline occurs. The watchdog and the
devices run apart from the timer; they meet only in `next`, which `avr_devices`
covers with four peripherals. `ImplementsEveryCycle` is checked for the timer only and
proved for the others; for the EEPROM it does not hold, because of the window that is
never opened.

### Proofs

`AvrHwProofs` has four theorems for every wrap of the two counters, every set of compare
values, times and instruction lengths.

`TypeCorrect` and `NothingUnnoticed` (`PendingNoticed`) hold without further hypotheses.
Within an instruction neither is inductive, as the calls of an instruction pass states the
invariant does not hold in, so the proofs follow the record through the calls: `Calm`
relates it before and after a call that requests a check for all that it makes pending,
which `Tick`, `HwExec` and each peripheral are shown to be, and `Fits` is what is left of
`PendingNoticed` between a register write and the check at the end.

`DeadlinesCovered` (`EventsCovered`) and `ScheduleUnobservable` (`ImplementsEveryCycle`) need
what the two deviations above say. Both suppose the cached schedule (`Eager = FALSE`) and a
program that does not set OCR1A to the timer's maximum; OCR1B and TCNT1 take any value. The
second one supposes also no EEPROM and none of the reserved flash modes, whose deadline the
code does not process. Their inductive
invariant is `Covered`: the next event is in the future and no later than the deadline
of each peripheral, stated for one peripheral at a time. A call that processes a
peripheral and takes the least of all distances restores it, a register write that moves
a deadline brings the event to the next cycle. The refinement follows because a cycle
that does not meet the next event meets no deadline: processing every peripheral would
change nothing (`Quiet`).

## AVR instructions: `AvrFlags` to `AvrPrograms`, `MCAvrCpu`

`AvrCompile` is `cu_avrc_compile`, from a word and its successor to an opcode with its
arguments. `AvrFlags` has the flag macros and the tables that `cu_avrfg_fill` builds from
them: of all operands with the same index the last ones written stay, as in the loops.
`AvrDecoder` is the switch of native builds, one operator per group of instructions that
share their end, with `goto` targets as operators; `AvrDecoderE` the functions and macros
of Emscripten builds. Both work on a machine record of `AvrMachine` and give the number of
cycles and the one at which memory is met. `AvrCpu` executes programs: `Execute`,
`Interrupt` (`cu_avr_interrupt`) after any instruction, `SpmDone` and `SpmLate` (the flash
part of `cu_avr_hwexec`), whose time is left open here and modelled in `AvrHw`.
`AvrInstTable` is `avr_inst_table.txt`, written down independently of the compiler.
`AvrPrograms` has short programs in machine code and the integers they compute. I/O
registers other than those of SPM are memory here; `AvrHw` has their effects.

| Run | Shows |
|---|---|
| `avr_cpu` | every program word compiles to what the table lists (`CompiledAsDocumented`) and has the same effect in both decoders (`SameInBothBuilds`); word arithmetic made of byte instructions computes what integers do and compares as they do (`WideArithmetic`); returns go back to the call or the instruction interrupted (`ReturnsToCaller`), never into the second word of an instruction (`OnlyStarts`); the compiled code is that of the ROM after a page was programmed (`CodeMatchesRom`) |

`CodeMatchesRom` leaves out the last word of the ROM: if it is the first of a long
instruction, whose second word is then the ROM's first, programming page 0 does not
compile it again (`cu_avr_n.h` 217).

Bounds: every one of the 65536 words once, with registers that point into memory and one
word after it; twelve arithmetic programs over the operands 0, 1, 128 and 255 in all four
bytes, with one interrupt anywhere; a routine with calls, skips over instructions of two
words and stack use; a boot loader that writes one page while the instruction before it
spans both pages. The machine has 16 bytes of RAM, 32 words of ROM and pages of 4: addresses
wrap as in the code. The operands are those on both sides of a carry and of a sign change in
either byte; of the rows of the flag tables they reach some, and both decoders look
at them for every word.

## SPI bus and SPI RAM: `SerialMemory`, `SpiRam`, `SpiBus`, `MCSpi`, `SpiProofs`

`SpiRam` is `cu_spir.c`: `Send` is `cu_spir_send` with its fast path for reads, `CsSet` is
`cu_spir_cs_set`, the sizes come from `cu_spir_set_size`. `SpiBus` adds the transfer of
the AVR's SPI hardware: the byte received is taken from the wired outputs when it starts
(`cu_spi_recv`), the byte sent reaches both devices when it ends (`cu_spi_send`), and the
program may change chip selects, or a watchdog reset may drop the transfer, in between. The
SD card is an output of any value at any time: `SdCard` describes when it drives one, and
that its transfer machine runs also while it is not selected.

`SerialMemory` is what programs rely on, byte by byte: a command, two or three address bytes
that spell the number of a cell with the highest first, and a stream that reads or writes the
cells from that one on in the mode set before. It knows neither the counter of the code nor how
it is put together, masked or wrapped; the byte under way and the output are its variables, too,
so that what each byte means and offers to the bus is part of the refinement.

| Run | Shows |
|---|---|
| `spi` | `ImplementsSerialMemory`: reads, whose counter is not masked, and writes, whose counter is, come to the cell that the address bytes name, in all modes and sizes; `DeselectedUntouched`: bytes for the other device change neither cells nor mode nor leave half a command behind, and from the second one on the bus is the card's; `TypeOK` |

`cu_spir_cs_set` (139-148) leaves the RAM's output as it is, and `cu_spi_recv` (`cu_spi.c` 101)
ANDs it in: the first byte after a read that was cut off is masked by the RAM's last one. The
comments say that 0xFF is sent when the line is tri-stated (270-271) and that only an enabled
RAM tampers with the bus (181), so that this is a deviation of the code; `DeselectedUntouched` leaves
that one byte out and says that there is never a second one.

Bounds: two units per address byte, so banks of 4 cells; 1 and 2 banks (2 and 3
address bytes, asked for as 0 to 3 to meet the limits); pages of 2; an address counter of
16, twice the largest size, so that it wraps and runs past the end of the memory; two
values of a cell; every byte with a meaning in the state at hand; 255 and 170 from the card,
whose bits some bytes of the RAM mask.

### Proofs

`SpiProofs` proves `RamTypeCorrect`, `SerialMemoryRefined` (`ImplementsSerialMemory`) and
`DeselectedSafe` for every number of banks up to the limit, every page size and width of
the counter that `SpiRamAssumption` allows: the chip's sizes are powers of two times a
bank that pages divide, and the counter wraps at a multiple of each of them. That is what the code's
masks need, and the one place where they matter: a read does not mask its counter and a
write does, and both agree because the wrap of the counter is a multiple of the size. The
inductive invariant `Inv` adds to the types how many address bytes a chip still waits
for, what its counter holds of those that came (`Sound`), and that a byte under way
has a meaning in the state the chip is in, unless it was deselected (`Fits`). The mapping
to streams (`StreamOf`) is shown for each state the byte may meet.

## Virtual disk: `HostFiles`, `SectorDisk`, `VFat`, `MCVFat`, `VFatProofs`

`HostFiles` has the operations of one channel of `filesys.c` as operators on a record
of the host's files and the channel. A stream is its position (`at`) and what it
shows (`view`), which a seek or a close puts into the file, as POSIX has it. `VFat`
is `cu_vfat.c` over it: `Chain` and `Belongs` are `cu_vfat_belongs` (136-162), `Found` is
`cu_vfat_findbypos` (170-204) with its two ways of taking the FAT for broken, `Selected`
and `Channel` the opening of the file of a sector, `Built` the rebuild of
`cu_vfat_reset` (338-421) from the files in any listing order. `ReadSector` is the first
byte of a sector read, `WriteSector` the last byte of a sector written, `WriteSys`
a write below `CU_VFAT_SYS_SIZE`. The program side is free to link clusters as it
likes, loops and cross links included; it creates files under new names, and
`ReuseSpec` adds deleting. `Reset`, `Exit` and `Kill` come at any time.

`SectorDisk` is what the program may rely on: a sector reads as it was last
written, until its cluster moves or the file system is damaged. The history
`media` of `VFat` is its state; a sector is unknown unless exactly one valid entry
holds it.

| Run | Shows |
|---|---|
| `vfat` | `TypeOK`, `ChannelAgrees`, `PendingIsLast`, `ServedByOwner`, `BrokenMeansLoop` and the refinement `ImplementsSectorDisk` hold |
| `vfat_reuse` | violated: the cached file of `cu_vfat_findbypos` (179) is used after it was deleted; a new file that gets its cluster is read from, and written to, the old host file |

Writing to a protected host file calls `ftell` on a null stream (`filesys.c` 251);
the constant `Protected` is empty in the runs, as what follows is undefined.

Bounds: two entries, two clusters of two sectors and one sector past the disk, two
names, one host file at first, two contents of a sector, and three sectors
stored in all files together (`MaxStored`). A file spans both clusters, two files
compete for them, a chain loops, and the disk is full. `View` leaves out what is
set before it is read (buffer, position) and takes 0 for an end of chain.

### Proofs

`VFatProofs` proves all properties of the run `vfat` for every number of entries, clusters and
sectors, every finite set of host files, and every use the program makes of the FAT and the
directory as long as it deletes no entry; and that the property which `vfat_reuse` violates
holds until it does (`CacheUnobservable`).

The inductive invariant `Inv` has three parts. The channel is `Sound`: an open stream stands
where the channel says, in a file that exists, and only then is it open for writing. All but
the last unit written is in the file (`Pending`), which is preserved because every access
of the disk seeks first, and a seek settles the stream. The directory is
`Tidy`: an entry that is not valid has no chain, so that the cached entry, which the code
does not test for validity, is valid whenever it holds a sector. `ServedByOwner` needs that,
and it is what deleting breaks. The remembered file (`lfile`) is the one that the channel
is named after.

`OnlyLoopsBreak` is a pigeonhole argument: a chain of as many links as there are clusters
that meets no end, and misses the cluster looked for, has two equal links, is periodic from
there on (`Periodic`), and so never ends. A search for the sector past the disk misses no
cluster, and is the exception the property names. That chains and the layout of `Built`
exist as functions, and what their values are, is proved over their lengths by the
least counterexample, as the recursion of a function definition is all the provers see.

`SectorDiskImplemented`, the refinement, needs that names convert to and fro (`NamesConvert`):
`cu_vfat_tofat` allows two long host names to become the same FAT name (208-213), and a file
would then be read from the other one. The strengthening `Refined` says
what is in which file: a valid entry that was opened has the host name of its FAT name and
valid entries have different ones (`Named`), a stream that only reads shows its file
(`Fresh`), and every known sector is found at its place in the content, pending data
included, of the file of its one owner (`Holds`). Opening, seeking and reading change no
content (`SameContent`), a write changes one unit of one file, and two sectors do not share
one (`PositionsDiffer`, `OthersHeld`). A write that dereferences a null stream ends the
behaviour, and is the only step after which `Holds` is not claimed.

## Main loop and persistence: `MainLoop`, `MCMainLoop`, `FramePacing`, `MainLoopProofs`

`MainLoop` has the steps of `main`: `Start` (loading the dumps, then the game over the
ROM), `Pass` (208-222: asking and clearing the change indicators), `Event`, `Frame` and
`FrameEnd` (the pause and the single frame; a replay of captured input that ends pauses,
too), `Quit`. `Dump` is a dump of a memory in three steps, with `HostFiles` for the file.
Within a frame the program writes its EEPROM (`EepWrite`, with the comparison of
`cu_avr.c` 437 as it is), its flash (`RomWrite`) or runs into a watchdog reset, which clears the
indicators. `Kill` ends the process anywhere: of a dump under way the file has what the
stream has given it, nothing or all for what fits its buffer, any part otherwise. After it the
emulator may start again.

| Run | Shows |
|---|---|
| `main_loop` | `SavedOnExit`: after a run that ended by itself the host files hold the memories; `KillKeepsDump`: a kill never costs the EEPROM of the last dump that ended; `SavedEventually`: a change that is told of reaches its file; `TypeOK` |

`SavedOnExit` and `SavedEventually` leave out changes that no indicator tells of (history
`missed`): one that a watchdog reset forgets before the next pass, and an EEPROM write over a
value equal to the low byte of its address. They state that there are no others. A program
that writes in every frame is not saved before the end: here its writes are bounded, which
is the case `SavedEventually` is about. The ROM dump of 64 KiB does not fit into a
stream's buffer, and a kill may leave it torn; `KillKeepsDump` is about the EEPROM. A dump
to a place that can not be written ends in `ftell` of a null stream (`filesys.c` 251), although
the comments of `eepdump.c` and `romdump.c` do not care for faults: in the model the process
then stops, and all that is left is `Kill`. The run has no such file, the proofs allow any.

Bounds: two cells of two values in each memory, three writes or watchdog resets per run,
two runs; 0xFF and 0 as first contents. A first cell with the value of its address
occurs.

`MainLoopProofs` proves the three invariants for memories of any size and contents, any game,
any files that can not be written, and any number of writes and runs. The inductive invariant
`Inv` says where the channel stands in each step of a dump (`Streams`: no stream before the
first one, then that of the memory's own file, then one that shows the memory), that only the
first dump of a list has begun and none while the program runs (`OneDump`), and that each memory is
saved, told of, about to be dumped or missed (`Covered`). `SavedOnExit` is what is left of `Covered`
when nothing is told of or to be dumped any more. `KillKeepsDump` needs `Streams` in the step in
which a stream is written: what a kill puts into the file then is the file of before or the whole
memory (`Kept`). `BeginIs`, `WriteAllIs` and `FlushWritten` say what the operations on the channel do
to the files, `LoadIs` that a load is the image of them.

`FramePacing` is the arithmetic at the head of a pass (126-204): how the drift from 60 Hz decides
whether the pass runs a frame, and whether it is drawn. `MainLoopProofs` proves, for all
thresholds in the order of the code's and all times between passes: `PaceBounded` (drift and
drop requests stay in their limits, so that the unsigned difference never wraps),
`HalfDrawn` (no two frames in a row are not drawn), `NoLateWaste` (a pass that comes late
enough always runs a frame, so that the limiter can not stop the emulation). The two
invariance proofs need only the record's ranges: each pass clamps the drift before it is kept.
The module has no run: the values are those of milliseconds, and the theorems
say what a run would for each of them.

## Audio: `SampleQueue`, `AudioRing`, `MCAudio`, `AudioRate`, `AudioProofs`

`AudioRing` has both threads: `Begin`, `Write` and `Store` are `audio_sendframe` on the main
thread, `Call`, `Start`, `Clear` and `Play` are `audio_callback` on SDL's. The pointers are
plain variables of C without a lock, so that a build may keep them in registers during a
loop: `held` chooses, for each thread, whether it stores its pointer with every sample or
at the end, and reads the other's again or not. Torn reads of a word are left out.

`SampleQueue` is what is promised: samples are numbered as they are sent; the ones taken enter
the queue one after the other without a gap (`Put`: exactly those that follow), or a whole frame is
dropped (`Drop`); they are heard in this order; a frame that fills the last place makes the queue
look empty (`Overrun`), which loses all of it.

| Run | Shows |
|---|---|
| `audio` | `ImplementsSampleQueue`: whatever the two threads do to the pointers, the samples between them are those sent and not played, each frame whole and in order; `WaitingIsHeard`: a sample that waits is played, or one sent after it; `TypeOK` |

Two assumptions are in the guards. A callback is much shorter than a frame, so that it
meets at most one `audio_sendframe` (`busy`). The first callback, which sets both
pointers (122), does not meet a frame half sent: nothing would order them, but the device is
started before the first frame and asks for sound at once.

Bounds: a ring of 8, frames of 3, callbacks of 2 samples, steps of 1/3, 2/3 and 4/3
(a step of more than a sample moves the pointer by one, as in the code, and leaves the fraction what
its mask at 199 leaves), 15 samples sent: the ring wraps, is met with less room than a frame, exactly one and more, and
runs empty and full.

### Proofs

`AudioProofs` proves `TypeCorrect` and `SampleQueueImplemented` (`ImplementsSampleQueue`)
for every size of the ring, the frame and the callback, and every build. The inductive
invariant `Inv` has a part for each thread (`MainSound`, `CallbackSound`: where it is and what
its copies of the pointers are worth) and, once the device has started, two that join
them. `Fits`: the samples that wait and those still to come of a frame fit the ring,
and during a callback the distances from its read pointer over the write pointer it has
seen to the current one add up without wrapping. `Ordered`: from the read pointer on the ring
holds samples in the order sent, none older than what was heard, and behind the write pointer
what is stored of a frame but not published yet, without a gap. `Fits` is where the
assumption of one frame per callback is used: a callback that keeps copies is passed by a
frame at most. With two, the first could fill the ring and the second, taking it for an
empty one, write over what the callback still plays. The lemmas before the invariant are
about arcs of a ring: how distances add, and which slots a store leaves alone.

### Frequency control: `AudioRate`

`AudioRate` is the arithmetic of one callback with the constants of the code as CONSTANTS: the two
averages (`Averaged`), the proportional and the differential part of the long term step (150-165) and
the step of the callback (169-188). `Nominal` is `audio_inc_p`, which depends on the device that
opened. The module has no behaviour and no run.

The proportional part stops at half the nominal step ("Allow slow down to 50%", 150), the
differential part (161-165) does not: it takes one off whenever the average fell. As the sign of a
change counts and not its size, a filling that falls slowly and recovers at once takes the
step farther below the limit with each turn; nothing in the code bounds it.

How far it may go is `StepInRange`: the step of a callback is positive and below one sample, whatever
the average filling, exactly while the long term step is from 767 to 111777. The limits of the
proportional part are inside for nominal steps from 1534 to 106455, which are devices from 19373 Hz
to beyond 1 MHz. `AudioRing` needs none of this: its `Step` is any set of natural numbers.

## ESP8266 commands: `EspAt`, `MCEsp`, `EspProofs`

`EspAt` is what the module does with the bytes the program sends, apart from the
UART that carries them. A token of input is a whole command line with its line end,
a `+`, or other bytes that start no command. `WriteAt` and `WriteTransparent` are
`cu_esp_uzebox_write` (99-206) in the two modes that a command can reach; `ProcessAt`
stands for `cu_esp_process_at` (2105-2311) with an operator for each command that
changes state another one reads, and the answer alone (`OK`, `ERROR`, nothing, "this no
fun") for the others. `Poll` is `cu_esp_uzebox_read_ready` (296-333), in which a window
may end and the network is asked; `PinLow` and `PinHigh` are `cu_esp_reset_pin`. `fds`
is the host: `socket` takes the lowest free descriptor, 0 is the standard input,
and all entries of `socks` are 0 until the first reset, as `esp_state` is zero at
power on. What a step puts into the ring is `said`; whether the ring is empty at a
poll is a choice of `Poll`.

The results of the network are inputs: an unknown host, no socket, all addresses
refusing, success; a `send` that fails or takes any number of bytes up to all; receiving
nothing, data or an error. A window is over with whatever the host took (`HandOver`): nothing when
there is no connection (2967) or the send fails, and a part of it after a short send, whose result
the code only compares with -1 (2983). The end of the stream (a `recv` of 0) is ignored by
the code as if nothing had come. That a `send` to a connection that the other side closed may
end the process with SIGPIPE, for which the code has no handler, is left out.

`PinHigh` reads the configuration, which may switch the emulation off (`EmulationModel` 0): bytes are
then dropped (111-114), polls go on, and the pin leaves the connections as they are (541).

History variables: `fresh` are the transparent bytes not handed to the host yet,
`gave` what the host took of the last step's window, what was due then and whether it was the host that
took less, `lost` whether the last step closed or forgot a connected socket, `past` whether the
module was reset, and whether transparent mode was left.

| Run | Shows |
|---|---|
| `esp_at` | `ConnectionsOpen`, `TransparentIntact` and `LossReported` hold for all orders of commands, bytes, polls, failures and resets |

`AT+CIPSTART=1,...` with several connections checks that number 1 is free ("Socket is already in
use", 950) and then sets the number to 0 (997): the socket of connection 0 is closed (2870-2871), the
new one takes its place, and the program reads "Linked".

`TransparentIntact` says what the host takes is what was written, from its first byte on; all of it,
unless the host took less or the answer is UNLINKED. What a short send leaves is dropped and nobody is told.
`LossReported` is about each connected socket that is closed or forgotten: CLOSED or UNLINKED is
said, or the program's own command does it (AT+CIPMUX=0 and AT+CWQAP end connections with OK, AT+CIPSTART
ends connection 0 with the answer for the new one), or the reset pin. Said means put into the ring:
AT+CIPSEND empties the ring (670), a CLOSED that was not read yet included.

Two more deviations are in the model and contradict no property above. A host whose
addresses all refuse gives "Linked" (2884, 2906), with an unconnected socket. The second
transparent byte always ends the window, since the test for a wrapped counter (161)
takes its deadline for a wrapped one.

`TransparentIntact` ends with the first `+++`, after which the code keeps the bytes and
the count of the open window (149-156): they precede the next command, which fails, and
the next session sends bytes of that buffer again. No document says what should happen
there. Sockets that a failed send (2986) or a reset (546) forgets stay open; nobody
promises otherwise, and `ConnectionsOpen` is about the connections that are left. After
a reset only entry 0 is ever opened (997), so that its second half, no socket of two connections, is
about the state before.

Commands may also name a connection 4, which has an entry of `socks` that is neither
polled nor reset: it stays 0, so that starting it is refused and closing it closes
descriptor 0, which is a socket if the standard input was closed before.
`ConnectionsOpen` is stated up to then.

Bounds: two descriptors (one forgotten, one in use; the standard input becomes a
socket once a command has closed it), lines of up to three tokens, a counter of 6, windows of 3
and a wrap threshold of 1, which
keeps the order of the code's values (threshold below window below counter). `View`
leaves out the time in command mode, the bytes in front of a command, and the last
step's output, none of which a later step reads.

### Proofs

`EspProofs` proves `TypeCorrect`, `SocketsOpen` (`ConnectionsOpen`), `BytesIntact`
(`TransparentIntact`) and `LossesReported` for every set of descriptors, every counter, window
and length of a line, and every subset of the commands that `EspAtAssumption` lists, which are the ones
`ProcessAt` tells apart.

A step builds its result in a record (`Work`), command after command and connection after
connection, so that each operator of `EspAt` has one lemma: from a record that
`Keeps` what the step started from it makes another one. `Sound` says that open sockets
of their own stay so, as long as entry 4 is not closed; `NoLoss` that no connection got lost,
or `Reports` that the answer tells. `ConnectionsOpen` is inductive together with the types
because its two halves keep each other: the descriptor that a command closes is no other
connection's, and a new one is free.

`TransparentIntact` needs two more facts. `Counted`: within transparent mode the count of
bytes is the length of the buffer, or the buffer was just handed on. `Clean`: until that
mode is left for the first time, nothing is left of it outside of it, so that an entry
starts from nothing; the first `+++` ends it, as described above.

## Input: `SnesPads`, `KeyboardDongle`, `GameInput`, `MCGameInput`, `MainLoopProofs`

`GameInput` has two sides. Events, one action per kind (`Key`, `PadButton`, `Motion`,
`Other`), go through `ginput_sendevent` and what `main` does with them afterwards: to the
keyboard dongle if it is on, otherwise to the buttons of a player by the keymap and the
modes. The program writes the pins of port A (`WritePins`), which clocks both
`cu_ctr_process` (`SnesPads`) and `cu_kbd_process` (`KeyboardDongle`). Latch and clock are
told by which single pin rises, as in the code; with keyboard and mouse both on the
ports, the value returned is not initialised there (`cu_ctr.c` 114), and any here.
A byte of the dongle is the sequence of its bits, the highest one first, and `Shifted` the
shift of the code: the top bit is what the program sees.

| Run | Shows |
|---|---|
| `game_input` | `NoFalsePress`: what the program decodes as a key press is none of a release; `NoStuckButtons`: a button is pressed only while something held presses it; `ReadsTheLatch`: a program that moves one pin at a time reads what was pressed at the latch, without impossible combinations; `InputTypeOK`: the queue keeps its limit |
| `game_escape` | violated: left Ctrl and F1 do not leave the keyboard ("allows user to break out of keyboard passthrough mode", `cu_kbd.c` 37), because left Ctrl has a scan code (51) and its event is returned from (152) before it is noted as held |

`NoStuckButtons` holds as long as no mode changes while something is held (history
`clean`): after a switch of keymap, player or keyboard the release goes elsewhere, and the
button stays. The release of a key without a scan code leaves a release prefix for the next
code (141), so that a press reads as a release; `NoFalsePress` is the other direction.

Bounds: three events, scan codes of two bits in a queue of four bytes (a key is one to three
bytes, so the limit is met in every position), keys of each kind, one button and one axis on
two controllers, three clocks after a latch, all combinations of pins at once or one after
the other.

`MainLoopProofs` (its second half; the events are those that the main loop passes on) proves
the four invariants for any keys, scan codes, buttons, axes, controllers attached, any number
of events, any width of a byte above one bit, any queue of more than three bytes, any order
of at most 32 buttons and up to 31 clocks after a latch (the latch of the code has 32 bits).
None of the four is inductive. `InputInv` has these parts:

* `Typed`, the types, with the queue's length below the count `in` of bytes since it was empty.
* `DongleInv`, for `NoFalsePress`. The program's decoder and the dongle share a byte in
  transfer: `Transfer` says that the bits already heard and those still in `din` make the byte
  taken from the queue (`Whole`), and that a code of a release has its prefix heard before it.
  `Together` says the same of what is queued behind: of a release, each byte but the prefix
  follows another one of the release. It is false once the count is at its limit, where the
  prefix did not fit; it is claimed only below it, and that is enough because `Fetch` throws such a queue
  away (218) and a key starts the count again once the queue is empty. `HandledKey` proves it for a key, `StartedByte`
  and `WriteHeard` for a clock.
* `LatchInv`, for `ReadsTheLatch`: each port's latch holds what the history says it took, and
  has moved as often as bits were read, once less while the clock is low. `WriteRead` has one
  case per kind of a write; `FilteredIs` is what the filter does to opposite directions.
* `HeldInv`, for `NoStuckButtons`. What is pressed is not enough: ginput remembers directions
  of keys and buttons (`dig`) apart from those of sticks (`ana`), and both are set again by
  every event, so each remembered direction needs something held of its own kind. "Presses"
  is not enough either: a key held while the dongle takes the keys would lose its release, so
  `Reaches` asks for a release that will be seen. And a port that is not served as a
  controller has no direction pressed, or one would stay there. `Toggled` is one key or button,
  `MotionHeld` a stick, and `ModesChange` says which keys switch modes: then nothing else is held, by `clean`.

## Where the code deviates

Two runs are violated: `vfat_reuse` (a deleted file's cache) and `game_escape` (left Ctrl and F1).
The properties of the others are stated as the code has them where it deviates: the output of the RAM
outlives its chip select, OCR1A at its maximum stops the peripherals, the sound step has no lower
limit, AT+CIPSTART replaces connection 0, CMD25 stays at its sector, EEMPE opens no window. The section
of each part tells of them.

## Fairness

`AudioRing`: weak fairness of the callback (SDL asks for sound again and again as long as the
device is open), of `Write` and `Store` (the main thread finishes a frame it has begun) and of
`Reset`, which `main` calls before its loop. Nothing makes the main thread send
frames: `WaitingIsHeard` does not need it.

`MainLoop`: weak fairness of `Dump`, `Pass`, `Frame`, `FrameEnd` and `Quit`: the loop goes
on, as `main` calls it without waiting for anything. None for events, for the program's
writes, or for a start. In the code a pass may be wasted by the frame rate limiter and
then does not look at the indicators; `NoLateWaste` is why `Pass`, which leaves wasted ones
out, is fair.

All other specifications state no fairness: their properties are invariants, action
properties and refinements of safety specifications. That deadlines are met is stated as
`EventsCovered`, a bound in cycles, which is stronger than "eventually".

## What is proved, what is checked

Proved, for all values of the constants:

| Component | Theorems | Beyond the assumptions of the modules |
|---|---|---|
| SD card | `TypeOK`, `TransferAgrees`, `InSector`, `FrameContiguous`, `OcrTruthful`, `DeadlineKept`, `ImplementsBlockDevice` | |
| AVR hardware | `TypeOK`, `PendingNoticed`, `EventsCovered`, `ImplementsEveryCycle` | the last two: OCR1A, and no other register, below its maximum; the last one: no EEPROM, no reserved flash mode |
| SPI | `TypeOK`, `ImplementsSerialMemory`, `DeselectedUntouched` | |
| Virtual disk | `TypeOK`, `ChannelAgrees`, `PendingIsLast`, `ServedByOwner`, `BrokenMeansLoop`, `CacheTransparent`, `ImplementsSectorDisk` | no deleted entry; the refinement: names convert to and fro |
| Audio | `TypeOK`, `ImplementsSampleQueue`, `StepInRange` | |
| ESP8266 | `TypeOK`, `ConnectionsOpen`, `TransparentIntact`, `LossReported` | |
| Main loop | `TypeOK`, `SavedOnExit`, `KillKeepsDump` | |
| Input | `InputTypeOK`, `NoFalsePress`, `NoStuckButtons`, `ReadsTheLatch` | |
| Pace | `PaceBounded`, `HalfDrawn`, `NoLateWaste` | |

The assumptions of the modules are the types of the constants and the order of lengths and
times that the code's numbers have; TLC evaluates them in every run. The ones that carry a proof are
named in the sections above: powers of two in `SpiRamAssumption`, a frame shorter than the ring in
`AudioAssumption`, finitely many host files in `HostFilesAssumption`.

Everything else is model checked on the instances described above. Liveness
(`WaitingIsHeard`, `SavedEventually`) is out of the prover's reach, as is what recursive
definitions compute in general. The modules of the instruction set use bitwise operators,
which the prover does not handle: the properties of the run `avr_cpu` are all that is left
of the safety properties without a theorem.

`AvrCpu` defines a `TypeOK`, too; it documents the state, and is implied neither by
nor part of its run.

## Not modelled

* `frame.c`: rows, synchronisation, pixels; sequential within a frame, and its result a picture.
  With it the video and audio output of the AVR (PORTB, PORTC, OCR2A).
* ESP8266: the UART's ring, timing and delay slots, GPIO, station and access point settings,
  sleep and the serial bypass, which change no state of `EspAt`; the configuration file but for the
  switch of the emulation; logging.
* `cu_mouse.c`: the encoding of movements is commented out, `cu_mouse_process` returns its
  argument; only the scale and whether the mouse is on are state (in `GameInput`). The
  multitap is not compiled.
* `cu_ufile.c`, `cu_hfile.c`: parsers that run once before the emulation starts. For a .hex
  file `main` reads the number of SPI RAM banks of a header that was not filled (477):
  `SpiBus` starts with any number.
* `capture.c`: one value per frame to or from a file; the pause at the end of a replay is in
  `MainLoop`. `cu_haptic.c`, `guicore.c`, `textgui.c`, `conout.c`, `avconv.c`, `chars.c`:
  output only. `filesmin.c`: the Emscripten file layer without directories.
