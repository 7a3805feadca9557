# Verification of the DE0 VGA controller

The repository puts a frame buffer that lives in the SDRAM of an Altera DE0
board on a VGA screen, 640x480 with 12-bit colour. A Nios II processor writes
the frame buffer; a hardware block fetches it by DMA and shows it. This
directory holds TLA+ models of that block, of its driver, of the application and
of what the application waits on (the JTAG UART driver, the file descriptors and
alarms of the HAL), the TLC runs that check them and TLAPS proofs of the main
results.

Run everything from this directory:

    tlc -config DmaSafe.cfg MCDmaReadMaster.tla        # one run
    tlapm DmaReadMasterProofs.tla                      # one set of proofs

`PROJECT.json` lists the runs, what every definition translates, the hazards
and the mutants (a changed definition that must break a property).

## The system

All paths are relative to `src/`.

| Part | Source | State | Operations | Talks to |
|---|---|---|---|---|
| Signal generator | `hw/ip/vga_controller/vga_controller_vga_signals.vhd` | pixel clock, `px_cnt`, `line_cnt`, `s_hactive`, `s_vactive` | an edge of clk50, asynchronous reset by GO | gives `px_clk`, `screen_active`, `h_sync`, `v_sync` |
| DMA read master | `.../vga_controller_dma_vga_logic.vhd`, process `dma_fsm` | `dma_state`, `address`, `pending_reads`, `burstcount` | an edge of clk50 in each of four states, reset by GO or `v_sync` | Avalon bus (burst reads), writes the FIFO |
| FIFO | `.../vga_controller_fifo.vhd` (Altera `dcfifo`) | 64 words, two pointers that cross clock domains | write (clk50), read (pixel clock), `aclr` | between the two processes |
| Pixel logic | `.../vga_controller_dma_vga_logic.vhd`, process `vga_fsm` and the RGB outputs | `vga_state`, `pxcnt`, `curr_segment`, `fifo_read` | an edge of the pixel clock, asynchronous reset by `screen_active` | reads the FIFO, drives R, G, B |
| Registers and wiring | `.../vga_controller_registers.vhd`, `vga_controller.vhd` | base address, GO | writes by software | all of the above |
| Driver | `.../HAL/src/vga_driver.c`, `HAL/inc/vga_driver.h` (and an older copy in `sw/de0_vga_driver`) | the frame buffer, `vprintln_y_off` | `de0_vga_init`, `put_frame_buffer`, `put_fb_string`, `vprintln` | memory the DMA reads |
| Application | `hw/de0_vga_qsys/software/de0_vga_qsys_application/hello_world.c` | a line buffer | start-up, then an endless echo of stdin | driver, registers, JTAG UART |
| JTAG UART | driver `.../de0_vga_qsys_bsp/drivers/src/altera_avalon_jtag_uart_*.c`, core `.../submodules/system_jtag_uart_0.v` | two rings and `irq_enable` shared by program and interrupt routine; two FIFOs, `pause_irq`, `ac` in the core | read, write, close, ioctl; the routine; the timeout; the host | stdin and stdout of the application |
| HAL descriptors | `.../de0_vga_qsys_bsp/HAL/src/alt_open.c`, `alt_close.c`, `alt_get_fd.c`, ... | `alt_fd_list`, `alt_max_fd` | open, close, ioctl, fcntl, redirection at start-up | the drivers |
| HAL alarms | `.../HAL/src/alt_tick.c`, `alt_alarm_start.c`, `HAL/inc/sys/alt_llist.h` | tick counter, list of alarms | start, stop, tick with callbacks | timeout of the JTAG UART driver |
| Older controllers | `hw/vga_controller/*.vhd`, `hw/de0_vga_qsys/system/synthesis/submodules/dma_read_master.vhd` | as above, other read masters | as above | superseded |
| Vendor parts | Qsys interconnect, SDRAM controller, Nios II, PLL, the rest of the HAL | | | generated or copied by the vendor's tools |

What makes it hard:

* **Two clock domains.** The read master runs at 50 MHz, the pixel logic at
  25 MHz. Each learns of the other's use of the FIFO late, and the FIFO checks
  neither overflow nor underflow.
* **A master that cannot be stalled by its consumer.** A request of up to 63
  words is made on the strength of a flag; when the words return they are
  written unconditionally.
* **Asynchronous resets by data.** `v_sync`, decoded from a counter, resets the
  read master and clears the FIFO once a frame; `screen_active` resets part of
  the pixel logic once a line; GO resets everything but `line_cnt`, at any
  moment. The bus hears of none of these.
* **Real time.** A memory that is late once moves the phase of pixels against
  the line.
* **Software that shares memory and a register with the hardware**, at any time.
* **An interrupt routine without locks.** The program and the routine of the JTAG
  UART share two rings and a word of interrupt enables, each side reading the
  other's pointer while it moves, and each spin loop relies on an interrupt that
  the other side must have left on.
* **Lists that change while they are walked**, by the callbacks of alarms, and a
  clock that wraps.

What makes each part correct:

* *signal generator*: an active area of exactly 640x480, never during a pulse;
  complete lines, in order; frames that keep coming;
* *read master*: the words of the frame in order, from a base that is fixed for
  a frame; an exact count of what is on the bus; room for every word that was
  asked for; a bounded prefetch; a starved reader that is served;
* *pixel logic*: the pixel of this row and column on the output; a read request
  once per word;
* *controller*: a right picture stays right while the memory is in time; a new base
  reaches the screen;
* *driver, frame buffer*: the hardware shows each pixel where it was written; a
  fetch that races a write tears no other pixel; nothing is stored outside;
* *driver, text*: no character is clipped; a text stays until its line is used
  again; lines are written in turn;
* *application*: the controller starts on a finished buffer only; all texts go to
  the page in turn;
* *JTAG UART*: both directions lose, double and reorder nothing; no interrupt
  that something waits for stays off; the routine ends; waiting calls are served,
  or, with a timer, fail when the host is gone, and only then;
* *descriptors*: none is lost or given twice; a lock keeps others away; standard
  input and output stay usable;
* *alarms*: each is called on its very tick; a tick ends, if callbacks leave the
  alarm that comes next alone.

## The modules

| Module | Models |
|---|---|
| `VgaSignals` | the signal generator |
| `DcFifo` | the FIFO: its state and operations, to be used by the modules that decide when they happen |
| `DmaReadMaster` | `dma_fsm`, extending `DcFifo`, with bus, reader and software as environment |
| `WordStream` | what the read master promises, as a specification of its own |
| `VgaFsm` | `vga_fsm`: its state and operations |
| `VgaController` | the composition of all of them, one oscillator driving both domains |
| `FrameBuffer` | `frame_px_w` and `put_frame_buffer` against the fetches of the read master |
| `TextConsole` | `vprintln`, `put_fb_string` |
| `LinePrinter` | what `vprintln` promises, as a specification of its own |
| `Application` | `main`, extending `TextConsole` |
| `JtagUart` | the JTAG UART driver, its interrupt routine, the core and the host |
| `Channel` | what each direction of it promises, as a specification of its own |
| `HalFiles` | the file descriptors of the HAL |
| `HalAlarms` | the alarms and the tick of the HAL |
| `Timers` | what the alarms promise, as a specification of its own |
| `Division` | two lemmas on quotient and remainder |
| `MC...` | the modules TLC is given with a `.cfg` |
| `...Proofs` | theorems and their proofs |

### VgaSignals

One action per edge of clk50 (`PxRise`, `PxFall`: s_px_clk toggles) and one each
for GO going and coming (`AssertReset`, `ReleaseReset`). `counter` and `sync`
are two processes sensitive to the same edge that share *shared variables*; VHDL
does not order them. `order` picks one of the orders at the start. The literals
of the architecture are constants, so the same module is checked with the real
raster and composed with a small one. `line_cnt` is left alone by the reset, as
in the code, so a raster resumes on the line where it was stopped.

### DcFifo

`fifo` is the content. A write is seen by the reader `RdLag` periods of clk50
later and a read by the writer `WrLag` periods later; `rdpipe` and `wrpipe` are
these pipes. `wrusedw` has log2(DEPTH) bits: a full FIFO reports 0. The first
write without room or read without a word sets `broken`: with overflow_checking
and underflow_checking OFF, flags and data mean nothing from there on, so every
value of a flag is an outcome, until `aclr`. The content is dropped then, since
nothing depends on it. The behaviour of `dcfifo` is external to the repository
and modelled from its documented ports; the generics in the wrapper fix the rest.

### DmaReadMaster

One action per state of `dma_fsm` (`Idle`, `NoSpace`, `ReadingWaits` and
`ReadingAccepted` for the two values of waitrequest, `Complete`), each with the
parameter `valid`: a word returns at this edge or none does. What the code does
ahead of the `case` (decrement `pending_reads`, write the FIFO) is `EveryEdge`
and `Decremented`, in each action. A word is its own address, in words, so the
order of words and the identity of frames can be spoken of. `AssertReset` is
`v_sync` falling or GO being cleared; words of the old request stay on the bus
(`inflight`) and return in the next frame if the reset was shorter than the
burst. `frame_base`, `popped` and `clean` are history variables.

`MaxInflight` and `MaxAddress` bound what the bus accepts. A real bus may refuse
a request for any time as well.

### WordStream

Four actions: `SetBase`, `Begin`, `Deliver`, `End`. A frame delivers consecutive
words from the base that was set when it began. `DmaReadMaster` implements it
under the refinement mapping at the end of that module: the next word is the
head of everything stored, on the bus and still to be asked for, and an overflow
ends the frame early.

### VgaFsm and VgaController

`VgaFsm` has one operation per branch of `vga_fsm`. A segment is the word it was
loaded from and how far it has been shifted, so a pixel on the output can be
compared with the pixel that belongs there.

`VgaController` instantiates the three parts as `vga_controller.vhd` wires them
(`dma_reset == ~go \/ ~VSync`). `Clk50Edge` is an edge of the 50 MHz clock; the
edge of the pixel clock it causes (`PxEdge`) follows before anything else does,
and runs counter, sync, vga_fsm, the read side of the FIFO and, through v_sync,
the reset of the read master. `SetGo`, `ClearGo`, `WriteBase` are the software.
The memory is environment and serves as slowly as it likes. What can be said of the
picture depends on how late its words are, so `age` counts the edges of clk50 since
the words on their way were asked for, and `InTime` says that the n-th of them does
not come later than `LATENCY + GAP * n` edges. A 64-bit word is four transfers of
the 16-bit, 50 MHz SDRAM, so a GAP of 4 is its full rate and a larger one a memory
that is shared or interrupted; LATENCY is everything before it: arbitration, the
pipeline of the interconnect, CAS, the opening of a row, a refresh. Within these
limits every word may come at any edge. `settled` says that this frame began with a
quiet bus and no read request left set, and that the memory has been in time since.

### FrameBuffer

`frame_px_w` computes a segment and a slot, loads the segment, masks and ors the
pixel in, and stores. The driver is the only writer, so load and mask are one
step (`PixelWrite`); the store is `StoreTransfer`, once per transfer of the
16-bit memory and in any order, and between the transfers the read master
(`FetchBegin`, `FetchTransfer`) may take any segment. A pixel is split into the
*pieces* that different transfers carry, which is what makes tearing visible.
`PutFrameBuffer`, `NextRow` and `Return` are the two nested loops; `InRows` and
`InColumns` their conditions, with the clipping. The loops of `de0_vga_init`
that whiten the screen and draw the banner write areas the same way, but column
by column in the banner; they are calls for their area. `picture` (what software
means to be on the screen) and `seen` (what a pixel was during a fetch) are
history variables. `PixelAt` is the hardware's view, from the order in which
`vga_fsm` shifts segments; it is a separate definition from `SegmentOf` and
`SlotOf`, the driver's view, and `ShownAsWritten` says that they agree.

### TextConsole, LinePrinter

One action per turn of the loops: `Character` and `Newline` for the two cases of
the switch in `vprintln`, `EndOfText`, `Whiten`, `LineBreak` for what follows
it, `StringCharacter` for `put_fb_string`. Which characters come is
nondeterministic, so every text is covered; a glyph is ink or space. The screen is the set of pixels that are not
white, kept in two parts, `new` drawn by the present call and `old` before it.
The four spacings of the code stay four constants, because the code does not use
the same ones everywhere. `drawn` and `room` are histories: all ink of a call, and
how many lines are left to it before it would come back to the one it began on.

`LinePrinter` is a page of lines with something around it. Until it is `ready`
anything may be shown; it starts with its first line, and from then on a step
writes on the current line or goes on to the next in turn. The refinement mapping
at the end of `TextConsole` cuts the screen into bands of lines; the gaps between
them, the splash and the margins are `around`, which never changes.

### Application

`main` up to its echo loop: the result of the allocation, the two strings that
`de0_vga_init` draws with `put_fb_string` (with any text here), the two register
writes, two literals, then `fgets` and `vprintln` for ever. `AppInit` is the
program before `de0_vga_init`: any memory, `vprintln_y_off` 0. A typed line has
at most `BufferSize - 1` characters, a `\n` only at its end. `Printf` is the return of
each of the calls of `printf` (the two texts in the loop, the message after GO, the
error message); it may as well never come, since stdout is the same JTAG UART and
`write` spins for ever when nobody drains it (`altera_avalon_jtag_uart_write.c:165-181`).
So that the prompt comes back is not claimed. `fgets` does not
return NULL: in this system the JTAG UART driver waits for its host for ever
(`timeout` is INT_MAX without a timer, `FailsOnlyTimed`). `Page` is `LinePrinter`
under the mapping of `TextConsole`, ready when `de0_vga_init` has returned.

### JtagUart, Channel

Three parties. The *program* makes one call after the other and runs one action
per access to what it shares: a scan reads the other side's pointer, a copy moves
the characters (`memcpy`), an advance writes its own pointer. `ReadSpin` and
`ReadCheck` are the spin loop and the test after it, which reads the pointer
again. The change of `irq_enable` and the write of the core's copy are one action,
because interrupts are disabled around them. The *routine* runs one action per
access to the core, from `Interrupt` to the `Control` that finds nothing to do;
the program waits meanwhile. `TakeData` and `CountData` are the two edges of one
read of the data register: the core delivers the character and RVALID at the
first, RAVAIL as of the second, and forgets the pause at the second. The *host*
types, pauses, takes a character, and comes and goes (`Plug`) at any time.

There is no ucosii and no thread, so the semaphores are empty macros, and the
build has no timer: `alt_alarm_start` fails and `timeout` is INT_MAX.
`HasTimer = TRUE` is the same driver in a system with one.

`Channel` is a queue of characters with a capacity: `Put` adds some in turn, `Get`
takes some from the front. The refinement mapping takes the ring and the FIFO
together as the queue, for each direction; a copy that has been made but not yet
released by the advance counts as taken.

Two things the model shows about the code. The comment "If there is still data
available here then the buffer is full" (`altera_avalon_jtag_uart_init.c:158`)
is not always so: a character that arrives between the two edges of a read makes
the routine turn the receive interrupt off with room in the ring. `Armed` says
that it does no harm, because there is something in the ring then whose reading
turns it on again. And reading data clears a pause, so what arrives after the
interrupt was turned on again may wait for the next pause of the host; that is
why `CallsServed` needs a host that goes on pausing.

### HalFiles

One action per call, since there is one thread: `Redirect` (the three turns of
`alt_io_redirect`), `Open` with its outcomes, `Close`, `Lock` and `Unlock` (ioctl
TIOCEXCL, TIOCNXCL), `SetFlags` (fcntl). Devices of this system have no open of
their own, so only that of a file system can fail. Calls are for descriptors that
refer to something: on any other above 2 the code dereferences a null `dev`.
`held` is a history: what the program has been given and has not closed.

### HalAlarms, Timers

Start and stop disable interrupts and are one action each; `alt_tick` runs in the
interrupt of the timer and is a `Tick` and then one `Look` per alarm, with a
`CallbackReturns` for those that are called. While a callback runs it may start
and stop alarms. `saved` is the local `next` that `alt_tick` has read before the
callback. Times are modulo `Wrap`, which stands for 2^32. A time of 2^32 - 1 is not
asked for, which would fire at once (`MaxPeriod <= Wrap - 2`).

A callback may stop any alarm, also the one in `saved`. The description of
`alt_alarm_stop` (`alt_tick.c:61-63`) does not say that this must not be done, and the
function does not look; but the stopped alarm is then linked to itself, `alt_tick`
goes on to it (line 102, 140) and looks at it for ever, unless the callback starts it
again. (If its time has come it is called although it was stopped. `Timers`, which
speaks of the running alarms, does not see that.) `TickEnds` therefore claims that a tick ends *or* a callback has
done this. No alarm of this system does.

`Timers` are alarms as one thinks of them: a countdown each, served when it is at
zero and before time goes on. The refinement mapping is the difference between
`time` and the tick counter, modulo `Wrap`; it says that rollover flags and
comparisons come to the same.

## The runs

| Run | Configuration | Shows |
|---|---|---|
| `raster` | the 800x525 raster of the code | `TypeOK`, `ActiveWindow`, `LinesInOrder`, `FramesKeepComing` |
| `dma_safe` | DEPTH 8, BUFFERWIDTH 4, lags 1 and 1, two bases, resets of any length, fair | `TypeOK`, `PendingExact`, `ThereIsSpace`, `PrefetchBounded`, `IsWordStream`, `Refill` |
| `controller` | 9x4 raster, 2 lines of 6 pixels, words of 3 pixels, DEPTH 8, BUFFERWIDTH 4, lags 1 and 1, LATENCY 1, GAP 4; GO and memory free | `PictureExact`, `StaysSettled`, `SpaceAlways` |
| `controller_punctual` | 53x7 raster, 5 lines of 40 pixels, words of 5 pixels, DEPTH 16, BUFFERWIDTH 15, lags 2 and 2, LATENCY 10, GAP 6; two bases; GO set for good, memory in time | `PictureExact`, `FlipArrives` |
| `frame_buffer` | 4x2 pixels of 12 bits, 2 to a segment, 16-bit transfers, 2 colours; areas that cover the screen and that reach over its right and bottom edges | `TypeOK`, `ShownAsWritten`, `StoresInside`, `TornOnlyWhereWritten` |
| `application` | 3 lines of 3 places, strings above them, typed lines of up to 3 characters | `TypeOK`, `GlyphsInside`, `TextKept`, `GoOnlyReady`, `PrintsLines` |
| `jtag_uart` | no timer, rings of 3 slots, FIFOs of 3 and a receive interrupt at more than 2; one direction at its limits while the other is in light use | `TypeOK`, `Armed`, `RoutineEnds`, `CallsServed` |
| `jtag_timer` | a timer, rings of 3 slots, FIFOs of 2, one direction at a time | `Lossless`, `FailsOnlyTimed`, `AbsenceNoticed` |
| `hal` | 5 descriptors, 2 devices, a file system; 3 alarms, a counter modulo 6, periods up to 4 | `HalTypeOK`, `NoLeak`, `NoJoin`, `LockKept`, `StdioUsable`, `IsTimers`, `TickEnds` |
| `console_remainder` | 3 lines of 3 places, `vprintln` only | **violates** `RemainderWhite` |
| `controller_as_built` | DEPTH 4, BUFFERWIDTH 3 | **violates** `SpaceAlways` |
| `controller_columns` | as `controller` | **violates** `LastPixelShown` |

Why the bounds are enough. `raster` has no bound. The FIFO runs have a FIFO
small enough to be filled, emptied and wrapped within a frame and bursts of both
sizes; a frame is longer than a FIFO, as in the code, so every relation of the two
pointers occurs; a lag makes a word visible to one side and not the other.
In `dma_safe` half a buffer is two words, because a burst of one is a case that the
code does not have and that would hang: a stale word that returns at the edge
that accepts such a request leaves `pending_reads` at 0, and `complete` waits for
it to come down to 1. With the code's 31 and 63 it cannot happen.
`MaxAddress` lets at least one full FIFO be asked for past the end of a frame.
The small rasters have the regions of the real one that the picture depends on (both
pulses, blanking on both sides of a row, rows of more than one word).
`controller` leaves everything to chance but is small; its memory has four edges to a
word, two thirds of the six in which the reader uses one up (the code: four of ten).
`controller_punctual` keeps the proportions of the code that decide whether the words
suffice: a burst of DEPTH - 1, half of it at each later request, words of five pixels;
its LATENCY of 10 at a GAP of 6 is an edge below the limit that `FastEnough` gives for
a FIFO of this size. A master that waits with its request until few words are left
(the mutant `NoSpaceLazy`) shows a wrong picture.

In `frame_buffer` the second pixel of a segment is carried by two transfers and
one transfer carries parts of two pixels, as in the code, where pixels 1, 2, 3
and transfers 0, 1, 2 meet; the second area is cut on both edges. In the
console runs a text can wrap a line and the page, any number of times; the
two spacings are those of the code, glyphs and margins are smaller, which changes
nothing but the number of pixels and of places.

In `jtag_uart` a ring and a FIFO hold two and three characters: both are full, empty
and wrapped, a read or write needs several rounds, and the routine meets the program
at every access. Up to two characters wait in the receive FIFO without raising its
interrupt, as up to 55 do in the code, so that a `read` of them needs the interrupt
of the pause: without that, `CallsServed` fails. The ring has room when a
character comes between the two edges of a read, so the routine does turn the
interrupt off with RVALID low and RAVAIL not zero, where the comment rules it out.
To keep the states few, `LightSpec` of `MCJtagUart` lets the two directions be at work
together only while no more than one character is received; `OneWaySpec`, in
`jtag_timer`, lets nothing begin in one direction before the other has come to rest.
Both hold up only actions without fairness. In `jtag_timer` a copy can be of more
than one character and end at the end of the ring. In `jtag_uart`
characters are all alike, since nothing it claims tells them apart; in `jtag_timer` they
are numbered modulo 3. As a queue cannot be off by as much as its capacity without
being off by one before, that tells a loss, a double and an exchange. `DEFAULT_TIMEOUT` is 2 and INT_MAX 4, the least with all three
kinds of timeout apart.

In `hal` five descriptors leave two beside the standard ones, enough for one to
lock and one to join, and three devices for each to fail; the counter wraps
every six ticks, and three alarms are the ends and the middle of a list. Files
and alarms share nothing, so `MCHal` checks each while the other stands at its
start instead of their product.

`CHECK_DEADLOCK` is off in `App.cfg`, where `main` returns when
it gets no memory, and on everywhere else.

### Fairness

* `VgaSignals`: `WF(Clk50)`. The oscillator runs.
* `DmaReadMaster`: weak fairness of the clock, of acceptance (the arbiter of the
  interconnect serves its masters in turn) and of the memory returning words.
  Nothing is assumed of the reader, of GO or of `v_sync`.
* `Application`: none. Nobody needs to type, nor to read what `printf` writes.
* `JtagUart`: weak fairness of the routine, of the program and of the timeout (the
  processor runs and takes interrupts, the timer ticks), and of `Pause` and `Drain`,
  each only while the host is connected: the debug server polls the core, takes
  what is there, and a poll without data is the pause the driver's `timeout()` itself
  relies on to see an idle host. Nobody needs to type, to stay or to call.
* `HalAlarms`: weak fairness of a tick that has begun: the processor runs and
  callbacks return.
* `VgaController`: weak fairness of the two clock edges. Nothing is assumed of
  the software or the memory. In `controller_punctual` the memory is in time
  (`MemoryInTime`), and the clocks run as long as it can be.

### What the violations say

* **An overflow is possible as built** (`controller_as_built`). The comment in
  `vga_controller_dma_vga_logic.vhd:177` says there MUST be space. `BUFFERWIDTH`
  is 63 of 64 words. When the memory was slow and the reader has just drained
  what it can see, while the last word of the burst is still in the synchroniser,
  a full burst is asked for on top of it. The FIFO then holds all 64 words,
  `wrusedw` wraps to 0, and half a buffer more is asked for. If the reader is in
  blanking meanwhile the words overrun the FIFO. `SizeOK` is the condition on the
  sizes that excludes this; with the sizes of the code it takes a burst on a stale
  rdempty (`SpaceUnlessStale`) and a memory that is late (`SettledHasSpace`).
* **639 columns** (`controller_columns`). The active window is 640 periods long,
  but the first pixel is loaded one period after it opens and the state that
  shows pixels is reset asynchronously the moment it closes.
* **The remainder of a line is not whitened** (`console_remainder`).
  `vga_driver.c:136` says that it is. The whitening goes by another step than the
  text, and stops before the last place; once the page has been filled, parts of
  old characters stay beside new text. A `\n` within a text whitens nothing.

More disagreements are plain from the code and have no run:

* The driver draws control characters (`put_fb_string` all of them, as ink here),
  which `vga_driver.h:130` says are ignored; and `de0_vga_init` does not write the
  registers, which `vga_driver.h:105` says it does. `main` writes them, in the right
  order (`GoOnlyReady`).
* `screen_active` is documented as the reset of vga_fsm
  (`vga_controller_dma_vga_logic.vhd:21`) but does not reset `fifo_read`; after a
  late word the request can stay set through blanking.
* `alt_fd_lock.c:61` looks for other users of a device below `alt_max_fd` and not
  at it, so a lock is granted while the highest descriptor has the same device,
  against lines 43-45. And close() of a standard descriptor keeps its lock, against
  lines 47-49.
* The first descriptor for stdout is /dev/null with flags 0, which is O_RDONLY, so
  writing to it before the redirection fails with EACCES and is not discarded
  (`alt_dev.c:120-149`).
* `settimeofday` computes its offset in 32 bits and `gettimeofday` in 64, so they
  do not agree as `alt_settod.c` says once the product no longer fits.

## The proofs

`VgaSignalsProofs` proves every safety property of `VgaSignals` for every raster
that satisfies `RasterAssumption`, in both orders of the processes. The
invariant is `TypeOK` and `ActiveWindow` itself, which is inductive because it
says what the registered window is in terms of the counters one pixel back.

`DmaReadMasterProofs` proves, for every FIFO, every lag, every burst length of
at least 2, every frame, every bus and every pattern of resets:

* `TypeCorrect`. `TypeOK` alone is not inductive: `Asked` adds that a request is
  never for 0 words, else `pending_reads` could be set to -1.
* `PendingSafe` and `OrderSafe`, from `IInv`: `TypeOK`, `Asked`, `PendingExact`,
  `Ordered` (the order of the words in the FIFO and on the bus, apart) and
  `Fresh` (nothing of the last frame is left when one starts). They hold for
  the sizes of the code: an overflow ends a frame, and the count of the words on
  the bus does not depend on it.
* `SpaceUnlessStale` and `PrefetchUnlessStale`, for the sizes of the code and any others
  with BUFFERWIDTH < DEPTH and WrLag less than half a burst: no word finds the FIFO
  full, and the prefetch stays within a FIFO of the end of the frame, as long as each
  full burst is asked for with room for it (`FreshGrant`; with 63 of 64 words that is
  when the FIFO really is empty, as rdempty says). So the burst on a stale rdempty is
  the *only* cause of the overflow of `controller_as_built`; the test with wrusedw,
  which is late too and wraps, causes none by itself. They add `Room`: the words
  stored, on the bus and being asked for, and the reads that the writer has yet to
  learn of (`Missed`, of those since the request only), stay below DEPTH. A burst takes
  an edge for each word, so at the next request the writer knows of every read
  older than the burst, and what wrusedw overstates still does not wrap.
* `SpaceSafe` and `PrefetchSafe` are the same without `FreshGrant` under `SizeOK`,
  BUFFERWIDTH + RdLag < DEPTH, where a stale rdempty does no harm. **The code's sizes (63 of
  64) do not satisfy `SizeOK`**: these say how much smaller a burst would have to be.
* `Refinement`: the read master implements `WordStream`, for every size. A frame
  that starts with words of the last one still on the bus is mapped to one that
  delivers nothing (`clean`); the `v_sync` pulse is two lines long, far longer than
  a burst, so only a quick clearing and setting of GO makes one.

`VgaControllerProofs` proves the safety properties of the assembled controller, in
which one oscillator moves everything. It takes the raster's invariant from
`VgaSignalsProofs`, instantiated with the reset of the controller.

* `TypeCorrect`: the types, and `Wired`, how the parts stand to each other: the two
  clocks take turns, outside of the window `vga_fsm` rests, during a reset the FIFO
  is empty and the master idle.
* `PictureSafe` and `SettledStays` assume `FastEnough`, which relates the sizes to LATENCY
  and GAP: a word is worth 2 * PXPERREAD edges of clk50, half a burst must be worth more
  than it takes to fetch, the FIFO must hold enough for the next request when the
  master sees no room for one, and the longest burst must return within a line. For
  the code (31 and 63 of 64, five pixels to a word, lines of 800, lags of up to 4 edges
  together) that is **a memory that answers a request within 185 edges of clk50 at 4
  edges a word, the full rate of the SDRAM, 123 at 6, or 61 at 8**. With such a memory
  the picture is exact. Whether the memory of the board is one depends on what else
  uses it (the processor and its caches do) and is not part of the model; a word that
  is later ends `settled`, and nothing is claimed of the rest of that frame.
* `WindowSafe`: a settled frame leaves out no pixel of the window but the last of
  each line. `PictureExact` says what a pixel that is shown is; this says which are
  shown, and that the finding of `controller_columns` holds for every raster.
* `SettledHasSpace`: in such a frame the FIFO is neither overrun nor run dry, with the
  sizes of the code: the stale rdempty needs a memory that is late first.
* `SpaceUnlessStale`: whatever memory, software and raster do, the controller writes into
  a full FIFO only after a whole burst on a stale rdempty, as for the read master
  alone; `SpaceSafe` is its form under `SizeOK`.

`PictureExact` is far from inductive: it looks at the output, and what is there was
asked for many words before. `PictureInv` says of a settled frame, `Served`:

* `InPlace`: which pixel the shift register is at and how many words have been taken
  follow from the counters of the raster alone (`Shows` in the window, `Rests`
  outside of it, where `LinesDone` counts the lines taken).
* `InOrder` and `Pending`: the words stored, on the bus and still to be asked for are
  consecutive from the word the raster is at.
* `Room`: nothing overflows, even by the count of the writer, who sees words late.
* `Supplied`: a word is visible whenever one is wanted. `Stock` is the time, in edges of
  clk50, in which the pixel logic takes the words stored. It falls by one at most at an
  edge of clk50 and rises by what a word is worth when one comes, so it can be compared
  with `age`: at a request it is at least `Target`, while the words are on the way it has
  fallen by no more than `age` and risen by the worth of those that have come, and when the
  last of them comes, in time, it is above `Target` again, since the half burst is worth
  more than it took. In `nospace` the words seen, at most `WrLag` too many, are more than
  half a burst, which is above `Target` too. `Target` is `Least`, what rdempty may hide,
  and the time to the first word. `Starting` covers the first burst, which is over
  before the line in which `v_sync` rises is.

Between two frames, during the pulse, `Drained` says that the words still on the bus
have all come before the first line of the pulse ends, so the next frame is
clean.

The sizes of the run `controller` satisfy `SizeOK` and not `FastEnough`: TLC finds the
picture exact a little beyond the sizes of the theorem, which is a sufficient
condition and not the exact one. Those of `controller_punctual` satisfy `FastEnough`, and
not `SizeOK`, like the code.

`FrameBufferProofs` proves the four properties of `FrameBuffer` for every screen
whose rows are whole segments, every pixel and transfer width and every set of
areas. The invariant is `TypeOK`, `ShownAsWritten`, `TornOnlyWhereWritten` and
two parts that make them inductive: `InFlight` says of every transfer of the
store whether memory has the new or the old of it, so that the last one leaves
exactly `seg`; `SeenCovers` says that what a pixel of the wanted segment is now
is among what it has been seen to be. The heart is that the driver's
`SegmentOf`, `SlotOf` and the hardware's `PixelAt` are inverse to each other,
which needs the rows to be whole segments and the lemmas of `Division`.

`ApplicationProofs` proves of the text output, for every geometry that satisfies
`GeometryAssumption` (that of the code does) and every text:

* `TypeCorrect` and `GlyphsSafe`, from `TypeOK` and `Placed`: wherever a character
  may be drawn it fits. That needs the margin on the right to take the
  difference of the two spacings, the assumption's fifth conjunct.
* `Refinement`: `vprintln` alone implements `LinePrinter`. It adds `OnGrid`: a cursor is
  always at the top of a line of the page, and a line is advanced to the next or,
  from the last, to the first.
* `TextSafe`: while a call has lines left, all that it has drawn is on the screen.
  `TextKept` speaks of the whole past of a call and `Draw` only of the pixels
  before it, so the invariant, `KeptInv`, says where the ink can be: the lines
  from the one a call began on make a block, which wraps around the page; all that
  was drawn is in the part of the block up to the cursor (`StandsOn`), and what is
  cleared or drawn next lies outside it as long as `room` counts lines. The lines
  of `put_fb_string` start wherever its caller says and are not those of the page,
  so a block is counted from a top of its own.

It takes these to the whole of `main`, whose `Spec` begins before
the screen is painted and interleaves `put_fb_string` with `vprintln`:
`ReadySafe`, `AppGlyphsSafe`, `AppTextSafe`, `AppTypeSafe`, and `AppRefinement`, that
`main` implements `LinePrinter` from the end of `de0_vga_init` on. The invariant ties
the place in `main` to what runs in the driver and to what has been painted and
written.

`JtagUartProofs` proves, for rings, FIFOs, thresholds and timeouts of every size,
with and without a timer, and every order in which program, routine and host move:

* `TypeCorrect`;
* `ArmedSafe`. `Armed` needs `RoutineInv`: the routine is in its read loop only when
  there is something in the FIFO or the ring, so when it turns the interrupt off
  there is something to be read. The first conjunct of it is the heart: a pause
  is remembered only with a character in the FIFO.
* `FailsSafe`. It needs `CallInv` (a write waits for exactly the slot that was
  occupied when it looked, so a changed pointer means room) and `CountInv` (a call
  that is about to give up has seen the timeout expire).
* `Refinement`: each direction implements `Channel` (`Lossless`). It needs `SpanInv`:
  a copy takes no more than the ring holds and fills no more than is free, what
  `write` has copied and not advanced over is what the stream has next, and what the
  routine still has to put fits into the FIFO. That the pointers of a ring may wrap
  is settled in lemmas that say what a pointer, the number of characters and the
  contents are without the modulus; the steps of the driver then move a character
  from one sequence to the next, and the queue of the channel is their concatenation.

`HalProofs` proves every property of `HalFiles` for every number of
descriptors, devices and file systems. `JoinSafe` needs that the mark is above
every descriptor in use, `StdioSafe` that the standard ones are never free.

Of the alarms it proves type correctness and, for every set of alarms and every
width of the counter, that they implement `Timers` (`TimersRefinement`).
`AlarmsTypeOK` says that the links of the list agree, which is not enough: two
alarms linked to each other and not to the head would satisfy it, and would never
be called. `Listed` names the sequence `s` of running alarms that the links stand
for, and the place `m` in it up to which `alt_tick` has come:

* `Chain`: `s` has every running alarm once, and `next` leads along it from the head
  and back to it. Inserting and removing an alarm keep that (`InsertChain`,
  `RemoveChain`), also when a callback does it.
* `Place`: the alarm looked at is the `m`-th, and while a callback runs the saved
  `next` is; an alarm started by the callback is put in front of the place, so it is
  not looked at in this tick, unless it is the saved one, stopped and started again,
  from which `alt_tick` then goes through the list once more. If the saved alarm stays
  stopped (`Gone`), no other is looked at any more, and time does not go on.
* `Flags`: alarms before the place are not due any more, and their rollover flag says
  whether their time comes after the counter wraps; in the tick that wraps it, the
  flags of the others are still set. So `alt_tick` calls an alarm exactly when its
  time is equal to the counter (`DueNow`), and when the tick ends none is due.

That a countdown modulo `Wrap` reaches zero when the counter reaches the time is
settled in lemmas without the modulus. `HalTypeCorrect` puts the two together as
the run does.

`BlankDuringSync`, `WordsInOrder`, `WindowFilled` and `SettledFits` are proved and in no
run: `ActiveWindow` implies the first, a word out of order shows in `IsWordStream` when
the reader takes it, `controller_columns` shows where the third stops short, and what
the fourth rules out would show in `PictureExact`.

The assumptions are the `ASSUME`s in the modules, which TLC evaluates in the runs.

Only model-checked: `Refill`, `FramesKeepComing`, `FlipArrives`, `RoutineEnds`,
`CallsServed`, `AbsenceNoticed` and `TickEnds`: liveness under fairness is out of the
prover's reach. Every safety property of a passing run is proved.

## Not modelled

* Glitches of `v_sync` and metastability: below the level of the model.
* The pixel data: a word is its address.
* The interconnect, the SDRAM controller and the processor, except as the
  environment described above. Vendor-generated.
* The small, polled JTAG UART driver and the uC/OS-II branches, which this build
  does not compile.
* The rest of the HAL: start-up, newlib stubs, time of day, the table of
  interrupts, cache maintenance, logging and profiling. No state machine of its
  own, and mostly not called.
* The older controllers, and the older driver with its demos.
* `frame_px_r`, which nothing calls; `charmap` and the shapes of its glyphs.

## Plan

1. `VgaSignals`, `DmaReadMaster` with `DcFifo` and `WordStream`, `VgaFsm`,
   `VgaController`, and the proofs about the first two. Done.
2. `FrameBuffer`, with the driver's stores against the DMA, `TextConsole`,
   `LinePrinter`, `Application`, and the proofs about the first two. Done.
3. `JtagUart` with `Channel`, `HalFiles`, `HalAlarms` with `Timers`, and the proofs
   about the first two; the proofs about `Application`. Done.
4. The proofs of `IsTimers` and of `TextKept`. Done.
5. Proofs about `VgaController`: `SpaceAlways`, `PictureExact`, `StaysSettled`. Done.
6. `ReadMasterV0`, `ReadMasterV1`: the two older read masters, against
   `WordStream`.
