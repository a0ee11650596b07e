# A verification development for Face-Detection

Face-Detection is a camera design for a DE2-115 board. A camera pipeline in SystemVerilog shows a
live picture, samples it into a 20 by 20 grid of luminances and runs a Haar cascade over it. A
second attempt at the cascade runs as firmware on a Nios II processor that shares a register file
with a hardware classifier. The cascade tables come from a Python script that reads OpenCV's XML.
The firmware talks to the developer's terminal through the vendor's JTAG UART driver, on top of the
vendor's runtime (the HAL), whose sources the repository holds: interrupts, alarms, time of day and file descriptors.

This directory holds TLA+ models of these parts, the TLC configurations that check them, and
TLAPS proofs about all of them. Paths below are relative to the repository.

## 1. Inventory

| Component | Source | State | Operations | Talks to |
|---|---|---|---|---|
| Luminance conversion | `RGB_XYZ_Transformations.sv` | none (combinational) | `RGB_Normalizer`, `RGB_To_XYZ` | display read-out in, `ImageScaler` out |
| ImageScaler and frame store | `ImageScaler.sv`, `DE2_115_CAMERA.sv:680-718` | `ADDR_local` (fed back to its own input), `BW_out`, `VALID`, `DONE`; 400 words `integral_buffer` | one block on a change of luminance, one on a change of its output | coordinates from the sensor's clock domain, luminance from the display's |
| HAAR_Comparison in hardware | `HAAR_Comparison.sv` | `accumulate`, `integral`, `is_face` | one block on `START`, two stages written out | reads the frame store; `START = Scaler_DONE && !KEY[2]` |
| Detection path of the top level | `DE2_115_CAMERA.sv:671-726` | the above and the key | the wiring | all of the above |
| Avalon slave | `avalon_mm_interface.sv` | 400 cells and the registers 509 (start), 510 (done), 511 (verdict); `EXPORT_DATA` | reset, write with byte enables, read, side store of the classifier's word | processor and classifier, which drives 509 |
| Classifier | `Classifier.sv` | line, window and integral buffers, `DONE` | one block on a change of the pixel | pixels in, words and `DONE` out |
| Firmware | `software/HAAR_Comparison/main.c` | locals of `main` and `HAAR_Comparison` | wait for the start, read the image, decide, publish, signal | the registers of the slave |
| Cascade table generator | `HaarXmlParser.py` | two count lists at module level | `haar_parser`, `sci_notation_to_float`, `C_Code_Gen` | XML file in, header text out |
| JTAG UART driver | `software/HAAR_Comparison_bsp/drivers/src/altera_avalon_jtag_uart_*.c` | two ring buffers, interrupt enables, inactivity count and timeout | interrupt routine, alarm, read, write, close, ioctl | device registers; program; host terminal |
| HAL interrupts and system clock | `HAL/src/alt_irq_handler.c`, `alt_iic*.c`, `alt_alarm_start.c`, `alt_tick.c`, `alt_settod.c`, `alt_gettod.c`, `drivers/src/altera_avalon_timer_sc.c` | PIE bit, enable mask, handler table; tick count, alarm list; reset time | disable and enable all, register, mask, dispatch; tick, start, stop; set and get the time | the timer's interrupt, drivers' and program's callbacks |
| HAL file descriptors | `HAL/src/alt_main.c`, `alt_dev.c`, `alt_open.c`, `alt_close.c`, `alt_get_fd.c`, `alt_release_fd.c`, `alt_fd_lock.c`, `alt_fd_unlock.c`, `alt_fcntl.c`, `alt_ioctl.c`, `alt_io_redirect.c`, `alt_exit.c` | device list, `alt_fd_list`, `alt_max_fd` | redirect, open, close, set flags, lock, unlock | program and C library above, drivers below |
| HAL support code | the rest of `HAL/` | little or none | printing, caches, DMA, flash, profiling, loading | |
| Cascade tables | `software/HAAR_Comparison/HAAR_Constants.h` | constants | none | generator out, firmware in |
| Camera, SDRAM, VGA | `Sdram_Control/`, `VGA_Param.h` | vendor blocks; most of their source is not in the repository | | sensor and display |
| System on chip | `final_proj_soc/` | generated | | processor and slave |

At this commit the instance of the system on chip in the top level is commented out
(`DE2_115_CAMERA.sv:728-748`): the display path and the processor path are two systems. They are
modelled as two.

### What is hard here

* Two clock domains meet in `ImageScaler`: a luminance is paired with whatever coordinates the
  sensor has moved on to.
* Blocks such as `always @(BW_in)` have no clock and assign their outputs on some paths only. A
  simulator runs them once per event; synthesis makes transparent latches of them, and the address
  runs through such a latch back to its own input.
* State that nobody resets: `accumulate` and `integral` of the hardware cascade, the offsets of the
  software cascade, the count lists of the generator.
* The handshake of four parties on the slave's registers, with a reset at any step.
* Rings shared without a lock between the driver's calls and an interrupt routine that may come
  between any two of their steps, while the host empties and fills the device's FIFOs.
* Interrupts between any two instructions of the HAL; critical sections inside critical sections; a list of
  alarms that is walked while the callbacks on it change it; due times on a counter that wraps.
* A pool of descriptors in which every failing path of a call must give back what it took.
* Arithmetic at a boundary: truncating divisions, unsigned comparison with negative thresholds,
  differences that wrap, an address that reaches the end of its array.

### What makes each component correct

| Component | Properties |
|---|---|
| Luminance | close to the weighted mean; monotone in each channel |
| Capture | a stored cell is a sample of the grid, in order, is never overwritten; the end is reached once and is reported |
| Hardware cascade | a verdict depends on the image, not on earlier runs; a failed stage means no face |
| Detection path | the cascade runs when the image is complete and the key is pressed |
| Slave and firmware | an exported "done" comes with the verdict it belongs to; the hardware is never shown one verdict as two or an old one as new; the verdict is about the image calculated; it is signalled in the end |
| Software cascade | the loops compute the documented sum over a stage's features and a feature's rectangles; they stop at the first failing stage |
| Classifier | the image depends on the pixels of the line |
| Generator | numbers keep their value; counts and data of a header agree |
| Cascade tables | every stage can turn an image down, and the verdict depends on the whole window |
| Driver | both directions lose, repeat and reorder nothing; no wakeup is lost; calls end |
| Interrupts | a critical section is never interrupted, however sections nest; a handler meets its own context |
| System clock | a callback runs on the tick it is due, and no tick overtakes it; the list stays whole; a tick ends; a time set is the time read |
| File descriptors | nothing leaks; the console stays usable; a locked device has one user |

Not all of them hold. Section 5 lists where the code does something else.

## 2. Modules

| Module | Models | Notes |
|---|---|---|
| `Luminance` | `RGB_XYZ_Transformations.sv` | pure operators |
| `FaceCapture` | `ImageScaler.sv` and the frame store | `Scale` is the scaler's block with its four paths, `Store` the top level's block; `PixelClock` and `LuminanceChange` are the surroundings |
| `HaarHardware` | `HAAR_Comparison.sv` | `Run` is the block with `START` high, `Idle` with it low |
| `FaceDetection` | the wiring of the three above | extends `FaceCapture` and `Luminance`, instantiates `HaarHardware` |
| `AvalonRegs` | `avalon_mm_interface.sv` | one operator per kind of clock edge |
| `Handshake` | abstract: a verdict is decided, told and taken back | what firmware and slave promise the hardware |
| `FaceFirmware` | `main` on top of `AvalonRegs` | one action per access of the processor, and `Clock`, `Camera`, `Reset` around it; refines `Handshake` |
| `Sums` | none: sums over the first entries of a table | recursive functions, for `HaarSoftware` and `HaarXmlParser` |
| `HaarSoftware` | `HAAR_Comparison()` of `main.c` | one action per step of the loop nest |
| `HaarTables` | `HAAR_Constants.h` | the entries `main.c` can reach, extends `HaarSoftware`; `OnHeader` says that its tables are the header's |
| `Classifier` | `Classifier.sv` | one action per pass of the outer loop |
| `SciNotation` | `sci_notation_to_float` and the printing of its result | pure operators |
| `HaarXmlParser` | `haar_parser`, `C_Code_Gen` | one action per generated table and one for a parse that raises; `GenInit`, `GenNext`, `GenSpec`, as it stands beside `HaarTables` in a proof |
| `ByteStream` | abstract: an ordered lossless stream of bounded content | what a direction of the driver promises |
| `JtagUart` | the interrupt-driven driver and, from `final_proj_soc_jtag_uart_0.v`, its device | refines `ByteStream` twice |
| `HalIrq` | critical sections, registration and dispatch of interrupts | one action per instruction; two contexts |
| `Timers` | abstract: alarms that run, are owed a call, and are called | what the system clock promises the users of its alarms |
| `HalAlarms` | `alt_alarm_start`, `alt_alarm_stop`, `alt_tick` | extends `HalIrq`: the timer's routine and its callbacks; refines `Timers` |
| `HalClock` | `settimeofday`, `gettimeofday` | one action per call and per tick |
| `HalFiles` | `alt_main` and the calls on descriptors | one action per call |

`MC<Module>.tla` and its `.cfg` files give a module the small instance TLC runs.
`<Module>_proofs.tla` holds its theorems. `FaceDetection_proofs` has those of `FaceCapture` too, `HalAlarms_proofs` those of `HalIrq`
and `HalClock`, and `HaarSoftware_proofs` those of `HaarTables`, `SciNotation` and `HaarXmlParser`. Operators that stand beside a definition under a different
name (`SamplePastEnd` beside `Sample`, `RoomAllSlots` beside `Room`, `ReleaseAny` beside `alt_release_fd`, ...) are variants with a
plausible slip. They are not part of any specification: substituted for the definition, each makes
the property it is listed with in `PROJECT.json` fail, which shows that the property depends on it.

### Choices worth knowing

**Two readings of an unclocked block.** `LevelSensitive = FALSE` is the language's: a block runs
once for each change of its trigger, and nothing else moves until it has. `TRUE` is the synthesised
one: latches that may be evaluated at any time and any number of times while open, the address loop
included. A behaviour of the first is a behaviour of the second with respect to the variables that
model hardware, so invariants are checked under the second and counterexamples are shown under the
first. Combinational glitches are not modelled. Latches and memory power up low, as the device's
do; the sums of `HaarHardware` power up with any value of `PowerUp`.

**History variables.** `FaceCapture` records every sample taken, its place and its luminance (`samples`), and which of
them a slot holds (`origin`),
`HaarHardware` the number of runs, `FaceFirmware` the last verdict, `Classifier` the line before the
block, `HalAlarms` how many ticks each alarm has to go (`due`) and whether a callback of this tick stopped the alarm
noted as next (`cut`), `HalClock` what was set since the last tick. `armed` of `HalAlarms` and `held` of `HalFiles` are
what a correct caller knows: it uses them to keep the contracts below. No guard of the code's actions depends
on the others, but for the bound `MaxRuns`.

**The slave.** `integral_indx` is an input that nothing drives; the build ties it low, so `Index`
is 0. The classifier's array is connected to a single word, whose value the model leaves open.
Register 509 is cleared by the reset and driven by the classifier: after a reset it holds either
value, and only the first rise of `DONE` is sure to set it.

**The firmware's reads.** `FaceFirmware` reads each cell once. The code reads a cell once per
rectangle that covers it, but a cell changes only at the firmware's own writes or at a reset, so
all these reads agree. The cascade itself is the constant `IsFace`; `HaarSoftware` models it.

**Doubles.** `main.c` computes in doubles whose values are integers and decimal fractions of a few
digits. `HaarSoftware` scales them to integers. Its cells are divided by 10000000 as unsigned ints,
which truncates; that is modelled (`Scale`).

**Numbers of the XML file.** A mantissa is one like 1.5, so it matters only by the power of ten it ends up scaled by. The
slice `n[:n.find('-') - 1]` is modelled by how many digits of the exponent it leaves on. Three more things decide what is
printed: `float` makes infinity of a power above 308 and zero of one below -323; `10**exponent` (line 26) raises
`OverflowError` above 308 instead, which ends the process, and underflows quietly; and `.20f` (line 66) prints what is below 1e-20 as
zero. Rounding within the digits of a double, or of the last decimal, is left out: "as meant" is up to rounding.

**The driver.** It is modelled as the board support package builds it: not the small variant, no
operating system (so one program and one call at a time; the flag operations are empty), unoptimised
(so the waiting loops read their variables every time). An interrupt routine runs to its end between
any two steps of a call, and the host works at any time, also during the routine. The device is the generated Verilog's:
it raises the write interrupt when its FIFO holds at most `WriteThreshold` bytes, and the read interrupt when at
most `ReadThreshold` places are free or when the host has paused with bytes there (`pause_irq`). Reading the data register clears
`pause_irq`, even if it finds no byte. Sending and pausing set the activity bit, fetching does not. A byte written to a
full FIFO is dropped; the host is told when the other FIFO is full and sends no more. Levels and flags follow without the
register stage in between, as the routine's accesses to the device are several clock edges apart. Bytes are numbered in
order, so a byte in the wrong place shows. Dummy reads that only flush the bus are left out.

**The two abstract services.** `Handshake` has a decided verdict and a told one, each possibly none. Its point is in the
guards: nothing is decided while something is told, and nothing is told that was not decided. A reset forgets the decision, but for one edge the
hardware may still be shown it; that is what the export register does. `FaceFirmware` maps the
local of `main` to the first from `Decide` to the next reset, and the exported pair to the second. `Timers` has, for every alarm that runs, the
ticks it has to go. A tick counts all of them down and needs that none is owed its call; only the end of a call that was owed sets an alarm
going again. `HalAlarms` maps `due` of the alarms in `armed` to it. An alarm counts as started when it is linked.

**The classifier's line.** `N` is at least 4: with shorter lines the block would read window entries that do not exist.
A word has more than two values, so that a pattern of up to 4 is not lost in the width by accident.

**The HAL's interrupts.** `HalIrq` has two contexts, the program and the interrupt routine, and each has the list of
instructions it still has to execute. A call puts its instructions in front; an interrupt is taken between any two of
them while PIE is set. Interrupts of the Nios II do not nest here, as nothing calls `alt_irq_interruptible`. The copy
`alt_irq_active` and the register IENABLE are always written together inside a critical section, and are one variable.
A device holds its line until its routine clears it.

**Contracts of the HAL's callers.** A program starts an alarm only while it is not on the list and stops one only after
it was started once (its links are null before); it masks and unmasks only interrupts that have a handler. It may take
a handler back by registering `NULL`, which masks the interrupt (`alt_iic_isr_register.c:95`). Callbacks call at most one of start and
stop, and do not start the alarm that is running. The HAL checks none of this. What it does check is left out, as the
call then changes nothing: an interrupt number that does not exist (`alt_iic_isr_register.c:79`), an alarm without a
callback or a system without a clock (`-EINVAL` and `-ENOTSUP` of `alt_alarm_start.c`).

**Width of ticks.** TLC's integers have 32 bits, and a run cannot reach 2^32 ticks. `Word` is a parameter; a start takes
the counter plus the delay plus one modulo `Word` as the code does modulo 2^32. Delays go up to `Word - 2`: with 2^32 - 1
the sum comes out as the present tick and the callback runs at once (section 5).

**Descriptors.** `HalFiles` keeps what the calls do to the pool. Return values and `errno` are left out, and so are `read`,
`write`, `lseek`, `fstat` and `isatty`, which change no descriptor. There is one thread, so the semaphore around
the pool is empty, and no file system is registered, so a name is a device's or nobody's.

**Rounded tables.** `HaarTables` holds scores and stage thresholds as multiples of 1/10000, rounded down.
`VerdictIsOneBlock` also states that no stage on any image of the run is decided by less than the rounding.

## 3. Runs

| Run | Instance | Shows | States |
|---|---|---|---|
| `capture_done` | 3 cells, raster 7 by 3, event-driven | finding: a full frame is not reported (`FullIsDone`) | |
| `hardware_cascade` | 18 images, 3 power-up values, 3 runs, latches | `TypeOK`, `OnlyFirstRunFindsFaces`, `ScoresAddUp`, `VerdictIsFirstFeature` | 154 k |
| `detection` | 3 cells, raster 7 by 2, 4 colours, latches | `TypeOK`, `NeverDone`, `SlotsHoldSamples`, `WriteOnce`, `CloseToWeightedMean`, `Monotone`, `DisplayNeverChanges` | 909 k |
| `firmware` | 4 cells, 2 byte values, 3 resets | `DoneExportsVerdict`, `ImageIsBlank`, `ShakesHands`, `VerdictIsSignalled` | 196 |
| `software_cascade` | 2 stages, 3 features, 5 rectangles, all 256 images of 4 cells | `VerdictInClosedForm`, `Returns` | 4 k |
| `software_tables` | the header's 22 stages, 86 images of 400 cells | `VerdictIsOneBlock`, `OnlyFirstStageRejects` | 143 k |
| `classifier` | line of 4 pixels, 3 values, words of 8 bits | `ImageIsOnePixel` | 82 k |
| `tables` | 2 stages, every number with up to 3 exponent digits from 0, 1, 2, 3, 8, 9, 5 calls | `TablesAgree`, `RightIffConvertible` | 455 k |
| `jtag_uart` | rings of 3 slots, FIFOs of 2 bytes, 3 bytes in both directions together | `TypeOK`, `Receives`, `Transmits`, `MaskedOnlyWhenFull`, `QueuedIsArmed`, `WrittenIsFetched`, `CallsEnd` | 304 k |
| `hal_alarms` | 2 alarms, timer and 1 device, 2 routines, ticks wrap at 3 | `TypeOK`, `CriticalSectionsHold`, `HandlerIsWhole`, `CallbackOnTime`, `ListIsArmed`, `KeepsTime`, `TickReturns` | 1198 k |
| `hal_files` | 6 descriptors, 3 names, flags with a bit of the HAL's | `NothingLeaks`, `ConsoleStaysOpen`, `LockExcludes`, `LockIsAlone` | 23 k |
| `clock_set` | word of 16, 10 microseconds a second, 5 ticks | finding: a time set is not the time read (`SetIsRead`) | |

The runs `hardware_cascade`, `detection`, `jtag_uart` and `hal_alarms` check a type invariant, because widths and
indices could go wrong there. Elsewhere the types are plain, and the properties would fail to evaluate on a wrong one; those of
`FaceFirmware`, `Classifier` and `HalFiles` are proved.

### The bounds

* `capture_done`, `detection`: the window of the raster holds more grid points than a row of the readers, as the real
  one holds 21 where they assume 20. Three cells include the first (never written), one in the middle and the
  last, whose increment runs past the array. `AddrSpace` is larger than `Cells`, as 512 is than 400.
  The raster wraps, so that samples of a second frame meet a full store. The colours are black, white, one whose three
  channels all truncate, and one a step brighter in blue; every luminance may follow every other. Nothing bounds the run.
* `hardware_cascade`: images lie on both sides of each threshold of stage 0 with the rest dark or
  bright; two more have the smallest and largest score. `MaxRuns = 3` has a first run and two that
  start from older sums. The width of the sums is a parameter and enters the proofs as an assumption
  that no sum wraps; a 101-bit sum of at most 8306591 a run needs more runs than a board will live.
* `firmware`: the cells are 0 (the undriven index), two in the middle and the last. Two values of a
  byte are enough for blank and not blank. `MaxResets = 3` allows a reset in the edge after one and a third later.
* `software_cascade`: cells take 0, 5, 10 and 19 with divisor 10, so that sums of truncations and
  truncated sums differ; stages have one and two features, features one and two rectangles.
* `software_tables`: the tables are not scaled. An image is one of two backgrounds below the divisor, with one cell at 0, just
  below the divisor, at it, or at 2^31 - 1; the cells are corners of the rectangles, their neighbours outside and the
  ends of the image. A cell at or above the divisor is what makes any sum nonzero. Two such cells at once add no case:
  the feature thresholds are all below 1 (`SidesDecide`).
* `classifier`: with four pixels the window has all cases (diagonal, wrap, overlap of rows). Words of
  8 bits make the differences wrap.
* `tables`: an exponent of three digits covers every length the slice can leave behind and reaches past a double's range.
  Of 0, 1, 2, 3, 8 and 9 exponents are made on both sides of each limit: 20 and 21 (decimals), 308 and 309
  (overflow), 323 and 328 (underflow), and padding. `MaxCalls = 5` is one call for each of the four
  parameters and one more that repeats one or prints nothing.
* `jtag_uart`: a ring of 3 slots holds 2 bytes, so 2-byte copies, wrap-around, full and empty rings
  all occur. FIFOs of 2 bytes with thresholds 0 (reading) and 1 (writing) have levels on both sides of each threshold:
  a single byte received stays without an interrupt until the host pauses. `MaxBytes = 3` bytes, in any mixture of directions, fill a ring
  with one byte left in the FIFO, so that the interrupt is masked; `MaxCall = 2`. `DefaultTimeout = 2`, `IntMax = 4` keep the
  inactivity count in `0 .. 2`, with a timeout that is reached and those that never are. Behaviours stop producing bytes at the bound.
* `hal_alarms`: two alarms are the least for a callback to stop the noted next one, or to start one before or behind the walk.
  With `Word = 3` every alarm is soon due past the wrap; delays and periods are the smallest and the largest allowed.
  One device beside the timer has its handler registered, replaced by another, masked and taken back. Nothing bounds the run.
* `hal_files`: three descriptors beside the standard ones fill up, and leave a gap below `alt_max_fd` when the middle one is
  closed. The names are the two devices and one that is neither.
* `clock_set`: as with 2^32 and a million, 16 is no multiple of 10, so the overflow shows; it does at the eighth tick.

### Fairness

* `FaceFirmware!FairSpec`: the processor runs, the slave is clocked and the camera keeps delivering.
  All three are free-running hardware. Resets are not forced. `VerdictIsSignalled` excepts the
  behaviours in which a reset took the start signal back and nothing drives it again, which is
  what the code does there.
* `HaarSoftware!Spec`: the function runs (nothing preempts it in `main`).
* `JtagUart!FairSpec`: interrupts are served, the alarm's among them, the processor runs, and an attached host fetches what
  the device holds. Nothing makes the host send or pause, or the program call. A read may therefore wait for bytes that
  are in the device and raise no interrupt. `CallsEnd` says that a write or a close ends; that such a read ends if its timeout is
  one the inactivity count can reach (the alarm takes the silent host for gone); and that, if the host does pause again and
  again, it ends whatever the timeout. The last is stated with that fairness as a hypothesis, because the code does not provide it.

* `HalAlarms!Spec`: the processor executes the instructions it has. Neither the program's calls nor any device is forced:
  a tick's walk must end without another interrupt.

`FaceCapture`, `HaarHardware`, `FaceDetection`, `Classifier`, `HaarXmlParser`, `HalFiles` and `HalClock` are checked for safety
and have no fairness. Deadlock checking is off in the runs of `HaarSoftware` and `HaarXmlParser` only: a function that
has returned and a generator that has made its bounded calls stop.

## 4. Proofs

Every safety property and every refinement that a passing run checks is also a theorem.
All theorems hold for every value of the constants allowed by the named assumptions of the modules, and the
proofs use no other assumption. Three groups have a hypothesis instead. The theorems about `HalClock` have its conditions on
the constants (`Configured`), which are what its own module and configuration give. The theorems about the real tables
have `OnHeader`: the constants are those of `HAAR_Constants.h`. TLC evaluates it as an assumption of the run `software_tables`.
`BoardNeverReportsAFace` has that the cascade turns the blank image down, which `BlankIsTurnedDown` proves of the header.
TLC checked every inductive invariant but `HalClock`'s on the instance of section 3 before it was proved.

**`FaceDetection_proofs`, the capture path** (from `GeometryAssumption`, `LuminanceAssumption`, `ReadingAssumption`: sizes are
positive, the address can count the cells, black is a luminance). The inductive invariant `IInv` adds `AddressInv` to `TypeOK` and
`SlotsHoldSamples`. It says that `DONE` is low, that the address is the number of samples taken, all of them on the grid, and
that a latched `VALID` means the scaler still drives the last one. Without the first the latched address could be 0 with `VALID` up, and slot 0 be
written; without the last the store, which may be evaluated any number of times, could not be shown to write the
same sample each time. From `IInv`:
`TypeCorrect`, `DoneIsDead`, `OnlySamplesStored` (`SlotsHoldSamples`), `CellsAreKept` (`WriteOnce`), under both readings
of the blocks; and `CaptureIsOneShot` (`FrozenWhenFull`, which no run checks: TLC found it first, then the proof
made the run superfluous).

**`HaarHardware_proofs`** (from `WidthAssumption`, `ImageAssumption`, `ReadingAssumption`). Lemmas bound the
score of each stage over all images, from which a run adds between 3782855 and 8306591. With the sum tied to
the number of runs, the first run already exceeds the stage threshold of 822689, so no later run can report a
face (`SecondRunFindsNone`), and from zero the verdict is that of the first feature (`OneFeatureDecides`).
Also `TypeCorrect` and `RunsAddUp`.

**`FaceDetection_proofs`, the composition** (from the above and `ColourAssumption`). A composed step is a step or a stutter of
`FaceCapture`, so its invariant carries over: `DONE` stays low, hence `START`, hence the verdict on the display
(`DisplayIsConstant`). `PixelInv` says that the scaler's input is the luminance of the pixel on the display;
bounds on each truncating division give `LuminanceIsClose` and `BrighterIsBrighter` for every set of colours.

**`FaceFirmware_proofs`** (from `RegisterAssumption`, `VerdictAssumption`: the registers differ, bytes can be 0 and 1, the
cascade gives a verdict). A reset clears the registers but shows the old pair on the export for one edge more, so what is
exported does not follow from the registers. `IInv` therefore says for each point of `main` which registers are still
blank (`CellsBlank`), that `HW_DONE` is up only behind the verdict (`MarksFollow`), and that an export that shows "done" after
`main` has returned has caught up (`ExportCaughtUp`). From it `ExportIsTheVerdict` (`DoneExportsVerdict`), `FirmwareSeesNothing`
(`ImageIsBlank`) and the action property `VerdictIsKept` (an exported pair changes by a reset only), for any number of resets.
The refinement `FirmwareShakesHands` (`ShakesHands`) needs one thing more, `TakenBack`: while `main` has a verdict and has not
returned, no "done" is exported. It does not follow from the registers either; it holds because every access of `main` before its
decision is an edge on which the export catches up with the cleared registers. Last, `BoardNeverReportsAFace`: `main` only ever reads the blank
image, so if the cascade turns that down no face is ever exported. With `BlankIsTurnedDown` below this is so for the repository's
tables, whatever the camera sees.

**`HaarSoftware_proofs`** (from `TableAssumption`: the counts of the tables are naturals and lead to entries that exist,
scores and stage thresholds are numbers; TLC evaluates it on the header's tables too). The closed form is made of sums
`SumBelow(f, n)`, a recursive function. That it exists and does what it says is proved first (`SumSteps`), by
induction over the naturals in the form that every nonempty set of them has a least element. `IInv` has one part per loop: before a
stage the accumulator is the running score so far, within it also the scores of the features done, within a feature the
integral is the sum of the rectangles done; and every stage left behind has reached its threshold. From it
`VerdictIsClosedForm` (`VerdictInClosedForm`) for all tables and images, `LoopsStayInTables`, and `SidesDecide`: of an image
only the side of each scored feature's threshold counts. The last is why the images of `software_tables` stand for more than
themselves: all feature thresholds of the header lie below 1, so images in which the same sums are zero have one verdict.

**`HaarSoftware_proofs`, the header's tables** (under `OnHeader`). The run tries 86 images; the theorems are about every image of 400
words. `Column` and `RectSum` are naturals, so every sum is 0 or at least 1, and with thresholds below 1 a feature's side is whether a cell under it
reaches the divisor. If one of the 56 cells of the first rectangle does, all features fall on the right side (each of
them starts with that rectangle, as the offsets never move) and the running scores pass all 22 thresholds (`BrightPasses`). If none
does, the running score of stage 0 stays at 2751 of the 8226 it needs (`DarkFails`). Both leave more than the rounding of the tables. So `OneBlockDecides`
(`VerdictIsOneBlock`), `LaterStagesAlwaysPass` (`OnlyFirstStageRejects`) and `BlankIsTurnedDown`.

**`HaarSoftware_proofs`, the generator** (from `CascadeAssumption`, `DigitsAssumption`). `ConversionIsRight` is about one number, for
exponents of up to 308 digits (a longer one might itself be read as infinite): what the slice leaves on the mantissa scales it by nothing exactly if
the digits left are zeros or none, and `ScaledIsRight` is about the range: within it, a power is printed as it is, and outside it never is. The lemmas on
flattening (`Flattened`, `KeysOfFeatures`, `KeysOfRectangles`) say where in a flattened sequence of sequences an entry lies: at the sum of the lengths before it. They are
proved by the least element again, about the recursive function behind the community modules' fold. The inductive invariant `GenInv`
says that a process that has not parsed yet has empty lists (`OneParse`) and that each printed array is the whole table of the file (`ThresholdsPrinted`,
`ArraysPrinted`). From it `ThresholdsRightIffConvertible` (`RightIffConvertible`), `GeneratedTablesAgree` (`TablesAgree`) and
`GeneratedLoopsInRange`: every complete header meets the conditions on counts that the proofs about `main.c` assume in `TableAssumption`. Generator and
firmware fit together, for every cascade and not only for the one in the repository.

**`Classifier_proofs`** (from `SizeAssumption`). The window pass fills a row from the entries of the row before; `IsRowSteps` and `RowExists`
say what it leaves, cell by cell. Each row comes out as the same pattern of small factors times one pixel, whatever the window held before
(`RowRepeats`, `RowCells`), because the passes read only entries they have written; that independence is why one pass decides the image. The
integral buffer is then made of sums and differences modulo the width of a word, and the lemmas `ModAdd`, `ModScale` and `ModCongruent` carry the factor
through them (`ImageScales`). The inductive invariant `ClassifierInv` adds to the types that the line is not changed
until the last pass (`LineIsOld`). `OnlyTheLastPixelCounts` (`ImageIsOnePixel`) holds for every length of the line, width of the words and stream of pixels.

**`JtagUart_proofs`** (from `SizeAssumption`, `TimeoutAssumption`: among the sizes, each threshold is below the FIFO's depth). Lemmas about a ring: the room and the
content computed from two indices, and what putting and taking do to the slots. `RxRing` and `TxRing` tie each ring to the
byte numbers: the slots between the indices hold the bytes between the last one taken and the last one put, in order, with
the bytes a call has copied but not yet accounted for. `ReadCall` and `WriteCall` say what a call relies on between its steps although
interrupt routines run there: the routine only ever makes more room, or more bytes, than the call counted. `RxArmed` and `QueuedIsArmed`
are the enable bits; the first names the one window in which the read interrupt may be off with room in the ring, a
read that has advanced and is on its way to unmask it. From `IInv`: `TypeCorrect`, `ReadIsUnmasked` (`MaskedOnlyWhenFull`),
`QueuedBytesAreArmed`, and, step by step under the refinement mappings, that both directions implement `ByteStream`
(`ReceivingIsAStream`, `TransmittingIsAStream`).

**`HalFiles_proofs`** (from `FilesAssumption`: more descriptors than the standard three, distinct devices, and status flags
that are neither access modes nor the HAL's own). `BootInv` lists what each stage of `alt_main` has
done, among it that `alt_max_fd` has passed the standard descriptors for good; `ConsoleFree`, that no descriptor of the
console is locked, is needed at each lock: the three standard ones share the device, and at least one lies where
`alt_fd_lock` looks. From `IInv`: `TypeCorrect`, `PoolNeverLeaks` (`NothingLeaks`), `ConsoleIsOpen` (`ConsoleStaysOpen`) and the action
properties `LocksExclude` (`LockExcludes`) and `LocksAreAlone` (`LockIsAlone`).

**`HalAlarms_proofs`** (from `IrqAssumption`, `AlarmAssumption`), about `HalIrq` and `HalAlarms` together. `MainCode` and
`IsrCode` are tables: by the next instruction, what the rest of the call can be, which PIE bits its open sections saved,
and what it relies on. They make the nesting of sections provable: every rest closes what was opened, in the order of the
saved bits. `Contexts` says that the routine runs only between two sections of the program. `Linked` is the list: links in
both directions, and no set of alarms that the links never leave. That is stated without paths or lengths, so
linking and unlinking are each proved in one step over all such sets. The clock facts `Quiet`, `InWalk` and `InCallback` say where the
walk stands: every alarm that is due, or still flagged at the wrap of the counter, lies ahead of it, and every other
alarm's time is the counter plus what it has to go, modulo `Word`. `Trapped` is the case that a callback stopped the noted next
alarm. `Tables` relates handlers, contexts and the enable mask: every enabled interrupt has a handler, but for the few instructions, inside
a section, between the handler's removal and the mask (`Dropping`). From `IInv`: `TypeCorrect`, `SectionsAreHeld`
(`CriticalSectionsHold`), `HandlersAreWhole` (`HandlerIsWhole`), `ListIsRight` (`ListIsArmed`) and `CallbacksAreOnTime`
(`CallbackOnTime`), for any alarms, interrupts, sequence of calls and width of the counter.

The refinement `AlarmsKeepTime` (`KeepsTime`) has one lemma per instruction that touches an alarm: linking is a start of `Timers`, unlinking a stop
or nothing, the tick a tick, a callback's return a call or nothing; everything else is a stutter. The invariant had to say more for it than for the safety
properties. An alarm is linked only with ticks to go, in callbacks of a walk that is already cut off from the list too; and whatever such a walk does,
the alarm whose callback runs is either off the list or owed this call.

**`HalAlarms_proofs`, the time of day** (under `Configured`: word, tick rate and `ALT_US` are positive, no more ticks than
microseconds a second, microseconds of a time below `ALT_US`). It bounds finding 2: `SetIsReadBeforeWrap` gives `SetIsRead` as long as
the ticks in microseconds fit the word, and `ProductDecides` says that past it the time is read back exactly when the 32-bit
and the 64-bit product leave the same microseconds, but for time zero.

**Model-checked only.** Liveness (`VerdictIsSignalled`, `Returns`, `WrittenIsFetched`, `CallsEnd`, `TickReturns`) is beyond
the prover, and so is `ENABLED`, on which fairness rests. The two properties that are violated are shown by counterexamples.

## 5. Findings

Two runs show the code doing something other than its comments say. `PROJECT.json` quotes the lines.

1. `capture_done`: `ImageScaler.sv:49` raises `DONE` at 400 cells inside the branch for fewer than 400, so it
   never does. With `DisplayIsConstant`: the cascade of the display path is never started.
2. `clock_set`: `alt_settod.c:84` turns ticks into microseconds in 32 bits, `alt_gettod.c:92` in 64. After 4294968
   ticks, 72 minutes, a time that is set is not the time that is read. `SetIsReadBeforeWrap` proves that it is until then.

Other divergences were met. Some follow from properties of passing runs:

* The hardware cascade reports a face exactly when stage 0 failed (`HAAR_Comparison.sv:64`); `VerdictIsFirstFeature` says
  which images that is from a cleared sum, `OnlyFirstRunFindsFaces` that it does not happen twice.
* The firmware decides on the blank image of the reset (`ImageIsBlank`), against "calculated by hardware" (`main.c:42`):
  `avalon_mm_interface.sv:63` stores the classifier's words on processor writes only, and the first of those comes
  after the last read.
* `main.c:28` and `main.c:27` never advance `rect_count` and `feat_count`, against "true if it passes all 22 stages"
  (`main.c:21`). On the real tables the 22 stages come down to whether one cell of one rectangle holds 10000000 or more
  (`VerdictIsOneBlock`), and no stage but the first ever rejects (`OnlyFirstStageRejects`).
* `HaarXmlParser.py:20` promises to convert scientific notation to a float. `RightIffConvertible` says exactly
  which numbers come out right; OpenCV's positive numbers with a negative exponent do, down to 1e-20. Smaller ones are printed as
  0 (`HaarXmlParser.py:66`), and a positive exponent from 309 on raises instead of converting (line 26).
* `altera_avalon_jtag_uart_init.c:158-159` and `_read.c:190` turn the receive interrupt off for a full ring and on again
  once there is space, counting on the bytes left in the device to interrupt then. They do only when its FIFO is almost full or the host pauses once more
  (`final_proj_soc_jtag_uart_0.v:437`): the second part of `CallsEnd` needs that hypothesis.
* `alt_fd_lock.c:61` stops before `alt_max_fd`, so a lock is granted although the descriptor there has the same device
  open, against lines 43 to 45. `LockIsAlone` states what holds. The standard descriptors keep flags over a close, so a
  lock is not given back by it, against line 47; `ConsoleStaysOpen` shows that none of them ever gets one after boot.
* A callback that stops the alarm after it in the list leaves `alt_tick` with a next alarm that is linked to itself
  (`alt_tick.c:102`); the walk then never ends. `TickReturns` excepts exactly that.

Others are described here only:

* `HAAR_Comparison.sv` reads cell `20 * row + column`, but the store's index is advanced before the first
  write, a row of the window has 21 grid columns, and samples of equal luminance raise no event: cells are
  not where they are read.
* `Classifier.sv:63` says that `DONE` is "set to 0 elsewhere, later". Nothing does.
* A second call of `C_Code_Gen` in one process, or a parse by another table's call before `GenNumbers`, would print the
  counts more than once. The script's main block makes one call per process, which is why `TablesAgree` holds.
* An alarm started with a delay of 2^32 - 1 fires on the next tick (`alt_alarm_start.c:82`).
* The time of day jumps back when the tick counter wraps, after 49.7 days (`alt_gettod.c:91`).

## 6. Not modelled

* Camera, SDRAM and VGA blocks: vendor code, of which only wrappers and parameters are in the repository. They
  appear as the raster and the stream of colours.
* The system on chip: generated. `FaceFirmware` sees it as one access per clock edge of the slave. Its JTAG UART is modelled with the
  driver, and its reset controller as the reset of `FaceFirmware`.
* The entries of `HAAR_Constants.h` that no code reads: with the offsets of `main.c` stuck at zero these are 1922 of
  2135 features and all rectangles but three. They are data, and most of the lines of the repository's sources.
* `SystemVerilog_Gen` of the generator and all output formats: printing only.
* HAL support code. It is vendor code without state that interacts (printing, cache flushes, argument checks, stubs that
  return `ENOSYS`), or code this program does not reach (DMA and flash interfaces, profiling, logging, which is
  compiled out, exception handlers), or code that runs once before everything else (loading). Much of `HAL/inc` is
  declarations. Together with the generated tables, `system.h` and the small driver variant this is why the models
  stand for a small share of the lines.
* `alt_irq_interruptible` and interrupts that nest through it: nothing calls it.
* The weights of rectangles, dropped at `HaarXmlParser.py:93`: no part of the code has a place for them, so
  there is nothing to check the sums against.

## 7. Plan

The order was: the display path (`FaceCapture`, `HaarHardware`, `Luminance`, `FaceDetection`) with its
proofs; the processor path (`AvalonRegs`, `FaceFirmware`, `HaarSoftware`, `Classifier`); the generator; the driver
and its abstract specification; the HAL (`HalIrq`, `HalAlarms`, `HalClock`, `HalFiles`); the real tables
(`HaarTables`); the proofs about all of these; the abstract services `Handshake` and `Timers` with their refinements. What could come next:

1. `JtagUart` with its alarm driven by `HalAlarms` instead of coming at any time. `Timers` is the interface to compose them over.
2. The driver's interrupt routine registered through `HalIrq`, so that its critical sections are the HAL's.
3. An abstract pool of descriptors above `HalFiles`, in which a program sees only names and handles.
