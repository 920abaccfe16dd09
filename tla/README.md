# A TLA+ model of fbcp-ili9341

fbcp-ili9341 mirrors the framebuffer of a Raspberry Pi to a small display on the SPI
bus. It is a pipeline of three threads that share memory without locks: a thread that
polls the GPU for new frames, a main thread that works out what has changed and queues
it, and a thread that keeps the SPI bus busy with the queue. This directory holds TLA+
models of it, configurations that check them with TLC, and proofs that TLAPS checks.

```
 GPU (dispmanx)                                                       SPI display
      | vc_dispmanx_snapshot                                               ^
      v                                                                    | FIFO or DMA
 gpu_polling_thread --- videoCoreFramebuffer[1] ---> main ---- ring of ---> spi_thread
 (FrameTiming)          numNewGpuFrames (futex)     (SpanDiff, SPI tasks   (SpiTransfer)
                        (FrameDelivery)             DisplayWindow,         queueTail (futex)
                                                    ThreeWire)  (SpiQueue)
        ---------------- programRunning, ProgramInterruptHandler (Lifecycle) ----------
```

## Inventory

Locations are files of the repository. "Hard" is what a unit test would hardly reach;
the full list of hazards, each at its line, is in `PROJECT.json`.

### SPI task queue (`spi.h`, `spi.cpp`) - modelled: `SpiQueue`, `TaskFifo`
* State: `SharedMemory`: `queueHead` (moved by the consumer), `queueTail` (moved by the
  producer), `spiBytesQueued` (by both), `buffer`.
* Operations: `AllocTask` (wait for room, perhaps leave an end-of-buffer header and go back
  to offset 0), `CommitTask` (publish, count, wake), `GetTask`, `DoneTask`.
* Hard: the wrap (where "empty" and "full" would look alike), tails that are stale when
  tested, a futex whose argument is one variable and whose word is another, a byte counter
  changed by both sides after the fact.
* Correct when: no task is overwritten before it has run; tasks run once, whole, in order;
  neither side waits for ever; the counter adds up.

### SPI thread and what drives the bus (`spi.cpp`, `dma.cpp`, `kernel/`) - modelled, the DMA backend and the kernel module partly: `SpiTransfer` (with `SpiQueue`, `Lifecycle`)
* State: the SPI peripheral (two FIFOs, the bits of `cs`), the data/control line, two DMA
  channels with their control blocks, the bump allocators `dmaSourceEnd` and `firstFreeCB`,
  `previousTaskWasSPI`.
* Operations: `RunSPITask` by polling, `SPIDMATransfer`, `WaitForDMAFinished`,
  `WaitForPolledSPITransferToFinish`, `END_SPI_COMMUNICATION`, `DeinitSPIDisplay`, `DeinitDMA`.
* Hard: the hardware runs on beside the program; a unit left over in a FIFO makes a status bit
  say something about the wrong one; memory is reused while a channel may still read it; waits
  that also end when the program quits.
* Correct when: the display gets every task whole, in order, with the line at the right
  level; no loop waits for hardware that stands still; no channel outlives its memory.

### GPU polling thread, vsync, histogram (`gpu.cpp`) - modelled: `FrameDelivery`, `FrameTiming`, `Lifecycle`
* State: `videoCoreFramebuffer[0]` (its snapshot) and `[1]` (the published frame),
  `numNewGpuFrames`, the histogram of arrival times, `lastFramePollTime`, the eager factor.
* Operations: snapshot, compare with the published frame, publish, count, wake main; predict
  the next frame and sleep; `VsyncCallback`.
* Hard: the published frame is overwritten while main may be copying it; a failed snapshot;
  unsigned times in a histogram two threads look at; idle modes that feed on each other; a timer
  that is read twice in one prediction.
* Correct when: main never settles on a torn or an outdated frame; the screen is polled in time,
  and seldom when it rests; the histogram stays sorted and young.

### Main loop (`main` in `fbcp-ili9341.cpp`) - partly: all modules but `SpiTransfer` and `ThreeWire`
* State: `framebuffer[0]` (current), `framebuffer[1]` (what the display has been sent), the
  parity and the pending half of interlacing, `displayOff`, `curFrameEnd`/`prevFrameEnd`, the
  controller's write window (`spiX`, `spiY`, `spiEndX`), `frameSkipTimeHistory`.
* Operations: wait for a frame, throttle to two frames in the queue, copy, diff, submit spans.
* Hard: frames counted while it copies; half an image pending while no frame comes; distances
  in a ring to a position two frames old; a window cache that must follow the commands.
* Correct when: once the screen rests, the display shows it; no more than two frames wait.

### Shutdown and signals (`fbcp-ili9341.cpp`, `DeinitGPU`, `DeinitSPI`) - partly: `Lifecycle`, `SpiTransfer`
* State: `programRunning`; the handler also moves `queueHead`, `queueTail`, `numNewGpuFrames`.
* Hard: a handler between any two steps of the threads; waits that do not test the flag.
* Correct when: after a signal or a failed snapshot every thread leaves its loop, `main` ends,
  and nothing is run from the queue that is not a task.

### Diffing and span merging (`diff.cpp`) - modelled: `SpanDiff`
* Operations: the whole frame, one changed rectangle (by scanlines, or linearly from both
  ends), exact and 4-pixel coarse diffs, `MergeScanlineSpanList`.
* Hard: off-by-ones at the end of a group, of a scanline and of a span; a box whose last
  scanline is partial, through any sequence of merges; a list that shrinks while it is walked.
* Correct when: the spans cover every changed pixel, and their sizes are those of the pixels sent.

### Span submission, size of the frame (`fbcp-ili9341.cpp`, `display.h`, `InitGPU`) - modelled: `DisplayWindow`
* Hard: which of the commands that move the window may be left out, in six kinds of build; a span
  that is made wider than what has changed.
* Correct when: the controller writes each pixel where it belongs.

### 3-wire framing (`spi.cpp`) - modelled: `ThreeWire`
* Hard: nine-bit words or-ed into bytes of a ring that hold an older task.
* Correct when: the words are those the display expects, and nothing else is touched.

### Not modelled
Text and font, keyboard, low battery icon, mailbox, allocation helper, the initialization
sequences of the display controllers, the build configuration, the text of the statistics
overlay: pure I/O, tables or drawing. They keep no state that the threads above share, or
(keyboard) act on it only by a choice that the models leave free. `text.h`, a font table, is alone an
eighth of the lines of the repository. Of the modelled parts, "Limits" says what is left out.

## Modules

| module | models | extends or instantiates |
|---|---|---|
| `TaskFifo` | what the SPI task queue promises: a FIFO | |
| `SpiQueue` | the SPI task queue, its producer and its consumer | `TaskFifo` (refinement) |
| `SpiTransfer` | a task on its way to the display: FIFO, data/control line, DMA | |
| `FrameDelivery` | the way of a frame from the GPU to the submitted scanlines | |
| `FrameTiming` | when the screen is polled: prediction, histogram, idle modes, vsync | |
| `Lifecycle` | how the three threads run, wait for each other and quit | |
| `SpanDiff` | the spans of changed pixels of a frame and how they are merged | |
| `DisplayWindow` | the write window, and where the pixels of the spans land | |
| `ThreeWire` | the expansion of a task into marked words | |
| `MC...` | an instance of each for TLC | the module |
| `SpiQueueProofs`, `SpiTransferProofs`, `FrameDeliveryProofs`, `FrameTimingProofs`, `LifecycleProofs`, `SpanDiffProofs`, `DisplayWindowProofs`, `ThreeWireProofs` | theorems | the module, TLAPS |

`SpiQueue`, `FrameDelivery` and `Lifecycle` are written alike. Each thread has a program counter (`pPc`, `cPc`;
`gPc`, `mPc`; `hPc`, `sPc`), and an action is the code between two accesses to memory another
thread uses: a load, a store, an atomic addition or a futex call is a step of its own.
Locals that live across such a step are variables (`pTail` is `tail` of `AllocTask`, `cTail`
is `tail` of `GetTask`). A futex wait is one step that either compares unequal and goes on
or puts the thread to sleep; a futex wake moves a sleeping thread back to its loop.
Operators named "A bug: ..." or "As it would be if ..." are variants of a definition that a plausible
mistake would give; they are used to see that each property can fail, and are no part of any specification.

### SpiQueue
`buffer` holds for each cell the number of the task that was written there, so that an
overwritten task is seen as such when it is run; a header is `Header` cells, a payload any of
`PayloadSizes`. `AllocTask` has its two wait loops (`WriteSentinel`, `AllocReturn`), and each of
`PublishTask`, `CountBytes`, `CommitWakeTest`, `CommitFutexWake` is a line of `CommitTask`. On the
other side `GetTask`, `ReadCmd` and `GetTaskWrap` are the three reads of `GetTask`. `committed`,
`startOf`, `eob` and `bus` are history variables. `Init` is the queue after `InitSPIDisplay`
has run its commands on the main thread, before the SPI thread starts: empty, head and tail
anywhere but at 0. `programRunning` is left to `Lifecycle`.

### SpiTransfer
What `SpiQueue` does in one step, `RunSPITask`, is here a program against hardware that moves on its own
(`Clock` shifts a unit out of the TX FIFO and one into the RX FIFO, and stands still when either
is not ready; `TxMove` and `RxMove` are the DMA channels). Five builds choose who runs the tasks
(`spi_thread`, `main`, the kernel module's timer) and how (polled, DMA for long payloads, DMA for
all). The chain of control blocks is built as the code builds it, five blocks a chunk but for the
last, in which the RX channel restarts the TX channel; `mem` and `cb` are the memory the channels
really read, so that what is overwritten too early is sent. `received` records what the display gets with
which level of the data/control line. `Quit` may come at any time; the tasks of `DeinitSPIDisplay` follow.

### FrameDelivery
A frame is a function from scanlines to contents. The two copies that overlap,
`memcpy(videoCoreFramebuffer[1], ...)` and `memcpy(framebuffer[0], ...)`, go scanline by
scanline (`PublishLine`, `CopyLine`), so main can read a torn frame. `UpdateDisplay` stands for the
diff, the submission and the display going off and on; whether an update is interlaced is a
free choice (it depends on measured rates), its parity is the code's. What is submitted
is taken to be `shown`: the task queue delivers it in order (`SpiQueue`, `SpiTransfer`), to where it
belongs (`DisplayWindow`). The statistics overlay and the low battery icon, drawn into `framebuffer[0]`
after the copy, are not modelled: `current = published` is meant up to them.

### FrameTiming
Time is counted in units and moves on only while every thread waits. In the build `polled`,
`gpu_polling_thread` is the poller and main only takes its frames; in `vsync`, main polls and
`VsyncCallback` wakes it. A prediction reads the timer twice, once in `Predict` and once in `Estimate`, and
`MaxDelay` units may pass between the two, in which the thread has lost the processor. `misled` is a
history variable: it says that the screen has become idle between two such readings. `AddHistogramSample`
with its expiry, the percentile and the eager factor are the code's arithmetic, on unsigned times (`Age`).
The application renders whenever it likes. What `frameObtainedTime` holds before it is set is any of
`Uninitialized`, or its old value.

### Lifecycle
The ring buffer is reduced to positions modulo `Ring` and tasks of one size that divides it;
`Throttle` and `HasRoom` are the code's comparisons modulo the ring. The handler is a program of its own (`hPc`)
that stops main and lets the other threads run: Linux delivers a signal to the process on its
main thread if that does not block it. After the handler has moved the head, the memory there is
arbitrary: `RunTask` on it moves the head anywhere. Main's `TakeFrames` and `SubmitTask` are coarser than in
the other modules, and a display that turns itself off is left out. The forced `exit(1)`
at the fifth signal is left out: `MaxSignals` is less than 5.

### SpanDiff
Runs on the main thread alone, on memory nobody else writes. Of the two framebuffers only the set
`changed` of positions where they differ matters, and `Init` chooses any. `ScanPair`, `ExtendSpan` and
`ScanLastPixel` are the exact method, `ScanGroup` and `ExtendByGroup` the coarse one; the linked list is
a sequence, `i` and `j` are the loop variables of `MergeScanlineSpanList`, and unlinking a span
removes it. `MaxTaskPixels` is `MAX_SPI_TASK_SIZE` in pixels. An interlaced update is not merged.
A build with `ALL_TASKS_SHOULD_DMA` takes the exact method, and merges (`config.h:134-136`). With
`UPDATE_FRAMES_WITHOUT_DIFFING` it takes `EmitFrame` instead, and with
`UPDATE_FRAMES_IN_SINGLE_RECTANGULAR_DIFF` the actions from `FindTop` to `EmitRectangle`: the rectangle is
searched by scanlines or, where the framebuffer has no gap between them, linearly from both ends, backwards in groups (`SkipGroupBack`) and then by pixels (`FindLast`).

### DisplayWindow
Main's decisions span by span (`MoveToRow`, then one of four ways to set the columns) against a
controller that has a window and a cursor and puts each pixel at the cursor. A setup says which
options of `display.h` and `config.h` are on, what of the panel is covered, and how large the GPU's
display is; `FrameOf` is what `InitGPU` makes of it. `differs` is where the panel does not show
`framebuffer[1]`: filling a task copies its pixels there, writing them to the right place clears them.
The spans of a frame are any that a diff can return, in every build. `WidenSpan` makes two pixels of one
where `ALIGN_TASKS_FOR_DMA_TRANSFERS` is on; a pixel that comes to lie beside the frame (`Beside`) belongs
nowhere on the panel, and writing it leaves the place that it hits wrong.

### ThreeWire
`Interleave8BitSPITaskTo9Bit` with its fast path for groups of eight words and its slow path for
the rest, and `Interleave16BitSPITaskTo32Bit`, on a ring buffer that is full of old bytes, in place. The
result is compared with a definition of the stream by the bit (`NarrowBit`, `WideByte`).

## Runs

| run | shows | distinct states |
|---|---|---|
| `spi_queue` | no task is overwritten, lost, repeated or reordered; no lost wake-up; exact byte counter; `AllocTask` returns, every task runs; refinement of `TaskFifo` with fairness | 144,263 |
| `spi_transfer` | five builds: tasks whole and in order with the right data/control level; no polling loop stands still; DMA memory safe; quitting ends, or one build hangs in its last commands | 108,211 |
| `frame_delivery` | no frame forgotten or slept through; the resting screen is shown, both fields | 112,674 |
| `frame_timing` | histogram in order; seldom polled at rest; until a prediction is misled, polled in time in every idle mode, and skipped frames fit their array | 7,221,244 |
| `lifecycle` | the queue is undisturbed while the program runs; at most two frames pending; main leaves its waits; an idle program quits | 140,361 |
| `span_diff` | no changed pixel is lost; spans are as large as they say, sorted, bounded; the loops end | 446,810 |
| `display_window` | each pixel lands where it belongs, whatever windows came before, in the builds without the findings below; the cache is the controller's window | 1,302,465 |
| `three_wire` | framed tasks are what the display expects; nothing else in the ring is touched | 42,524 |
| `lifecycle_spi_thread` | violation: the SPI thread can sleep through the signal and hang the exit | |
| `span_rectangle` | violation: the changed rectangle's last scanline can end beyond its box | |
| `display_widen` | violation: a span can be widened past the frame | |
| `frame_timing_preempted` | violation: a time is taken for an interval, and polling stops | |

Bounds, and why they are enough:
* `SpiQueue`: 8 cells, a header of 1, payloads of 0, 1 and 3, up to four tasks. Every place
  a task can end relative to the end of the buffer occurs, wraps happen up to twice, the
  buffer fills, and the head is met at 0, at the sentinel, behind and ahead of the tail. The
  counter's modulus of 64 stands for 2^32: large enough to hold what is queued, small enough to see an underflow.
* `SpiTransfer`: FIFOs of 3 units (RXR from 2 on), chunks of 3 and tasks of none, 3 and 5 units: a
  payload the FIFO holds and one it does not, one chunk and two. Memory for 12 units and 10
  control blocks is taken up by one long task, so that the second reuses it. Two tasks meet every
  handover between polled and DMA, and `previousTaskWasSPI`, the allocators and the FIFOs are all that one
  task leaves to the next. The exit's two follow.
* `FrameDelivery`: two scanlines (one of each field, and enough to be torn), two colours, two
  changes of the screen. With the frame grabbed before the first change main can be behind
  by two frames and copy a mixture of them.
* `FrameTiming`: the intervals of the code in their order, scaled to a few units (a frame 4, idle
  6 and 8, ages of 10, 13, 16 and 20); three samples, of which the percentile and the two most
  recent differ; time enough for the deep idle mode to be entered and left (75 - 40). A thread is preempted
  for one unit (`MaxDelay`): that is enough for the two readings to be on either side of any age.
  Main waits for the SPI thread not at all or for longer than a frame (6, `MaxThrottle`). `TimeModulus` stands
  for 2^64. `CHECK_DEADLOCK FALSE`, as time ends at `MaxTime`.
* `Lifecycle`: tasks of two cells (so that a position can be misaligned), one task a frame, a
  queue of three frames, as the ring has room for almost three frames of pixels: so it is the
  throttle that bounds what is pending, and not the room. One frame counted and not taken, one signal.
* `SpanDiff`: all 4096 sets of changed pixels of 4 columns by 3 scanlines, two groups of two
  pixels a scanline, spans merged over one wasted pixel, tasks of at most 7 pixels. Two groups
  show each end of a span of the coarse method, three scanlines a merge with a box that
  already spans two, and boxes of 8 and more pixels are refused.
* `DisplayWindow`: a panel of 3 by 3 and any one or two spans a frame, over any number of frames: a
  span may peek ahead at one that follows, and finds the window in every state that spans of
  frames before can leave. Ten setups: each option on and off, bars and covers on each axis
  (`LandingSetups`). `display_widen` has an aligned build with a bar beside the frame. An aligned build for a
  controller that keeps its cursor is in no run (see Findings); that the cache and the window are sound in
  these two builds as well is proved.
* `ThreeWire`: 0 to 17 bytes, which end at each place of a group of eight words, with none, one
  and two groups before it. One byte with a single bit, in any place, among others that are all zeroes or all
  ones: each bit of the result depends on one bit of the task. Two bytes behind the task are watched.

Fairness. The threads are ordinary Linux threads: each that can run does run in the end, so
every thread's steps are weakly fair; in `SpiTransfer` so is the hardware: the SPI clock, and each DMA
channel. Nothing else is fair: no signal has to come, the screen need not change, the main
thread may stop submitting. `FutexTimeout` is fair because a timer ends the wait. `lifecycle` sets
`CHECK_DEADLOCK FALSE` because all threads may be asleep, which is how the system rests.

Each property of a passing run has a mutant in `PROJECT.json`, a bug in one action that
makes TLC report the property.

## Findings
* `SpiThreadQuits`: between its test of `programRunning` and its futex wait the SPI thread
  misses a signal handler altogether: head and tail were both moved, so they are equal
  again, and the wake-up found nobody. `pthread_join` in `DeinitSPI` then never returns.
* `RectanglesWellFormed`: the last scanline of the changed rectangle is aligned to 16 pixels without
  being clipped to the frame, so in a frame of any other width it can be wider than its box.
* `DisplayShowsBuffer1` (`display_widen`): where DMA needs spans of two pixels (`ALIGN_TASKS_FOR_DMA_TRANSFERS`), one
  of one pixel is widened to the right if there is room on the drawable part of the panel
  (`fbcp-ili9341.cpp:399`), not in the frame. With a bar beside the frame a change in the last column
  is so sent with a pixel too many, which the controller writes at the start of the window's next row.
* `PolledAlways`: `EstimateFrameRateInterval` returns a time where an interval is expected (`gpu.cpp:285`). It gets
  there if the screen becomes idle between the two readings of the timer (`gpu.cpp:318`, `:281`); the thread then
  sleeps for as long as the machine has been up. `PolledInTime` is what is left: it holds until then.

Seen while modelling, without a run of their own:
* A failed snapshot does not end the program, though `gpu.cpp:126-127` says 'We can only terminate here' and counts
  on a service that restarts it: `MarkProgramQuitting` alone wakes nobody, main sleeps or spins on
  `numNewGpuFrames` (`fbcp-ili9341.cpp:163`), the SPI thread sleeps on. `Lifecycle` has this behaviour
  (`SnapshotMayFail`); `~programRunning ~> mPc = "quit"` fails.
* With an SPI thread, no DMA and no chip select signal, the thread clears TA after its last batch (`spi.cpp:457`), and
  the tasks of `DeinitSPIDisplay` (`spi.cpp:632`) wait for a FIFO that nothing clocks out (`spi.cpp:371`). `QuitEnds`
  names this build and this place (`HangsAtExit`).
* `config.h:147-148` promises that an idle screen is polled 'first at 10fps, and ultimately at only 2fps'. `gpu.cpp:321`
  returns 100 ms after a minute too; the 500 ms of `gpu.cpp:284` are out of its reach. So `RestsWhenIdle` is about
  10 fps, and `PolledAlways` asserts as much of a screen that has rested for longer.
* During the sleep of a misled prediction `VsyncCallback` goes on counting, and main then writes the times of all
  these frames to an array of 240 entries (`statistics.cpp:32`), in a loop that is bounded by a time in
  microseconds (`fbcp-ili9341.cpp:312`, `config.h:15-18`). `SkipHistoryInBounds` holds until then.
* An SSD1351 keeps its cursor between two writes (`ssd1351.h:25-27`). With `ALIGN_TASKS_FOR_DMA_TRANSFERS` main leaves
  out the columns of a span that begins at `spiX` and ends before `spiEndX` (`fbcp-ili9341.cpp:428`), though the span
  before may have left the cursor inside its last row: the pixels then land beside their place. With the setup
  `Whole(TRUE, TRUE, FALSE)`, `DisplayShowsBuffer1` fails.
* A signal while main waits in the throttle (`fbcp-ili9341.cpp:190`) or for room (`spi.h:336`): the SPI
  thread leaves after the task it is running, and the wait never ends. `MainStopsWaiting` is
  therefore stated only while the program runs; four more signals force an exit.
* Past its test of `programRunning` the SPI thread can fetch a task from a head the handler has moved
  by one byte. `QueueSoundWhileRunning` says that this is only so when the program quits.
* `spiBytesQueued` is counted after the task is published, so it can pass through zero downwards. Main
  never reads it at such an instant in a way that counts (`BytesQueuedExact`).
* `diff & 0xFFFF == 0` (`diff.cpp:391`) is parsed as `diff & (0xFFFF == 0)`; a span can start one pixel
  early. The display is right (`ChangesCovered`).
* The update is skipped while the display is off, and the same iteration may then turn it on
  (`fbcp-ili9341.cpp:391`): it shows the frame before until the next one.
* With vsync an update that only sends the other field enters a `frameObtainedTime` that was never
  written (`fbcp-ili9341.cpp:247`, `:382`). A value a little ahead of the timer would put the
  histogram out of order; the run and `FarFromClock` allow its value of the iteration before, and others
  that are far from the timer.

## Proofs
TLAPS proves what follows for every value of the constants that satisfies the named assumption
of the module (`QueueAssumption`, `TransferAssumption`, `FrameAssumption`, `TimingAssumption`,
`LifecycleAssumption`, `DiffAssumption`, `WindowAssumption`, `SizesAssumption`), which TLC evaluates for the
instances of the runs. In each module an inductive invariant holds initially and is kept by every
action, one lemma or one case for each; the properties follow from it. Where a theorem needs more than
the assumption, its statement says so; with the exception of `SkipsFit` the instance of the passing run that
checks the property satisfies these hypotheses too.

* `SpiQueueProofs`: `QueueInvariant`, and from it `TypeCorrect`, `TasksStayIntact`, `TasksRunInOrder`,
  `NoWakeupLost`; `QueueImplementsFifo` is the safety part of the refinement of `TaskFifo`. That no task is
  overwritten is not inductive: it needs where the live tasks are (`Layout`: one behind the other from
  the head to the tail, perhaps by way of the end-of-buffer header and offset 0), and what each step of
  `AllocTask` and `GetTask` already knows from variables the other thread goes on changing
  (`AllocationSafe`, `FetchSafe`): a stale head only hides room, a stale tail only hides tasks.
  `BytesAreExact` is about the counter that both threads change late: `Counted` says what it holds modulo its
  width between any two of their steps. That this is the true number where main reads it follows from the
  layout: what is counted of the live tasks fits into their cells (`LiveTasksFit`), and the buffer is
  smaller than 2^32. The sum over the tasks (`BytesOf`) is reasoned about by induction on a set of
  numbers (`SetInduction`), as every set of numbers that is not empty has a least one.
* `FrameDeliveryProofs`: `FrameInvariant`, and from it `TypeCorrect`, `FramesAreDelivered`,
  `NoFrameSleptThrough`. While main copies, the lines it has copied are the published ones unless the
  counter has grown since main loaded it (`CopyInv`): so a torn frame is always copied again.
* `LifecycleProofs`: `LifecycleInvariant`, and from it `TypeCorrect`, `QueueIsSound`, `AtMostTwoFrames`. What
  the throttle guarantees depends on how much main has yet to submit of a frame (`FramesBounded`): at each
  step of a frame, what is pending behind the ends of the last two frames and what is still to come are
  bounded together. That moving the head and the tail is harmless rests on `Quitting`: it happens
  only after `programRunning` is cleared. The arithmetic modulo the ring is in lemmas of its own
  (`BehindIs`, `BehindMoves`, `AlignedApart`).
* `SpanDiffProofs`: `Inductive`, and from it `TypeCorrect`, `Coverage` (`ChangesCovered`), `Order`
  (`SpansInOrder`), `LineSpansWellFormed` and `AllSpansWellFormed` (`SpansWellFormed`). Of the methods that go
  by scanlines the invariant says that each changed pixel before the place the scan has reached is in a
  span of the list or in the one being extended (`RowsDone`, `ColumnsDone`, `InSpan`), and that each span
  has the size of its pixels (`Sized`); the lemmas about the merge are that the box of two spans contains
  both and that the new size is that of the box with its last scanline. Of the rectangle it says where the
  first and the last changed pixel can still be, by scanlines and in memory (`TopFound`, `Bounded`,
  `Same`). `AllSpansWellFormed` needs `FrameWidth % Align = 0`, without which `span_rectangle` refutes it, and
  `~BehindMayDiffer` (see Limits).
* `SpiTransferProofs`: `Inductive`, and from it `MemoryFreedIdle`, `BusIdle`, `SentInOrder` (`TasksSentInOrder`)
  and `TypeCorrect` for every build (with `single_dma` the last two until the program quits). The
  invariant follows the units: which of them was written
  last to the TX FIFO, by the driver or by the channel (`At`, `Nr`), that the FIFO holds the ones just before
  it without a gap (`Fifo`), and that the display got last the one before those (`LastReceived`). So what
  is clocked out next always follows what was clocked out last. With DMA, what the RX channel has taken
  and what is in the two FIFOs is together what the TX channel has moved (`RxChannel`), so when the RX
  channel is done nothing is left of the transfer. Of `single_dma`, where a task is a chain of control
  blocks that the channels work through by themselves, `ChainInv` says where the header and the blocks of
  each chunk of the chain under way are in memory (`ChainUnderWay`), which chunk the two channels are at
  (`ChunkMoves`, `ChunkStarts`), what was moved of it, and that the memory the next
  task takes lies behind the chain or is taken after the wait for it (`PrepareChain` is the hard step:
  it writes while the channels read). It holds until the program quits: from then on
  `WaitForDMAFinished` does not wait, and a chain may be overwritten under way.
* `FrameTimingProofs`: `BaseInvariant` (`OnTime`: nobody sleeps beyond the end of its sleep, so an action with a
  time of its own takes place at that time), and with it
  - `TypeCorrect`;
  - `PolledHistogramSound`, `HistogramIsSound`: without vsync all entries are readings of the timer, in order
    (`ClockOrder`). With vsync they are all readings, or all one and the same value that nobody wrote
    (`Stretch`), as a change from one to the other makes the older ones expire: if `FarFromClock`, that is,
    if such a value differs from every reading by more than `MaxSampleAge`;
  - `IdleScreenRests`: what is idle at the last poll is predicted as idle (`Resting`);
  - `MainLeavesTheHistogram`: the last frame is recent wherever main is on its way to
    `EstimateFrameRateInterval` (`Recent`), if a frame and the `MaxInterlaced` updates that follow it keep main
    waiting for less than `DeepIdleAge` (in the run 1 + 3 * 6 of 20, in the code less than a second of 60);
  - `PolledEveryIdleInterval`, `ScreenPolledInTime`: each poll has its time from the one before
    (`PolledSchedule`); with vsync the counter of callbacks is a multiple of their interval
    (`Counter`), which dates the next frame (`VsyncSchedule`). Both are about `PolledInTime`, so they hold until a
    prediction is misled, for any `MaxDelay` and any `MaxThrottle`;
  - `SkippedFramesFit` (`SkipHistoryInBounds`): frames are counted a `FrameInterval` apart, main takes all that
    wait and enters all but one, and expires what is older than `SkipAge` each time; so from any entry on there
    are no more frames, skipped or waiting, than there were intervals since it and in the time main may have been
    away before (`SpreadOut`, with `PolledHistory` and `VsyncHistory` for how long that is at each place). It
    needs `SkipsFit`: the array lasts for `SkipAge`, two of the longest sleeps, the longest wait for the SPI
    thread and two units. In the code this is 1.2 s and that wait, and 240 entries at 60 Hz last for 4 s.
    Without vsync it holds whatever a prediction returns, with vsync until one is misled. The run, with
    room for 2 entries, does not satisfy `SkipsFit`: it shows the least number that is enough for its constants.
* `DisplayWindowProofs`: `WindowInvariant` and `CacheIsCoherent`, for every build. The window is inside the panel
  because the frame is (`FrameOnPanel`, about the arithmetic of `InitGPU`) and the spans are inside the frame,
  but for the pixel by which one can be widened (`SpansFit`); that the window that was sent is the one
  remembered is shown for each of the ways to set the columns. `PlacesInvariant` and `TypeCorrect` are for every
  build too: they need only that the frame has pixels (`FramesHavePixels`) and that there are two columns where
  spans of one are widened (`SpansCanWiden`). `PixelsLand` (`DisplayShowsBuffer1`) says that at each step of the
  submission the cursor is where the next pixel of the span belongs, and that no pixels differ but the ones
  still to be written (`Written`). It needs two hypotheses more: no bar is beside the frame where spans
  are widened (`WideningFits`), and a controller that keeps its cursor is sent the columns of every span
  (`ColumnsAlwaysSent`). `display_widen` is a build without the first.
* `ThreeWireProofs`: `TaskInvariant`, and from it `TypeCorrect` and `ExpandsInTask`. After the words of some
  units, the next bit is nine times their number from the start (`Place`), so all fit into what
  `NumBytesNeeded` rounds up (`PayloadFits`).

Only model-checked are: liveness, which is beyond the prover (`AllocTaskReturns`, `EveryTaskRuns`,
the fairness of `ImplementsFifo`, `LatestFrameShown`, `MainStopsWaiting`, `QuitsWhenIdle`, `TasksRun`,
`QuitEnds`, `DiffEnds`, `TaskFramed`); and `TypeOK` of the build `single_dma` of `SpiTransfer` after the
program has quit, when a chain may be overwritten under way.

## Limits
* Steps of threads interleave as if memory were sequentially consistent. On ARM the barriers
  (`__sync_synchronize`) matter; whether they suffice is not checked.
* The build is the default one, with an SPI thread on several cores, without the kernel module and without
  vsync, except where a module names its builds. Times are free choices except in `FrameTiming`.
* Left out of the modelled parts: displays with 16-bit commands; the pixel copies written in assembly;
  `OFFLOAD_PIXEL_COPY_TO_DMA_CPP`; the time-outs of stalled DMA transfers, which end the program;
  `CheckDMAChannelNotStolen`; the interrupt handler, loading and unloading of the kernel module;
  the wait of `THROTTLE_INTERLACING`; the backlight.
* `SpanDiff` and `DisplayWindow` count in pixels, with the arithmetic of the code but small numbers; the
  floating-point arithmetic of `InitGPU` is done in fractions. A payload of seven bytes, with which
  `size8BitTask - 8` would wrap and the fast loop run on, is sent by no display and excluded by
  `SizesAssumption`. The first full cursor window of a frame right of column 0 reaches beyond the panel
  (`ClearedEnd`, `fbcp-ili9341.cpp:458`); the controller of the model takes it as it is.
* `SpanDiff` is checked with `BehindMayDiffer = FALSE`: the linear search reads up to two words behind the
  two framebuffers (`diff.cpp:187`), which are taken to be equal.
* `FrameTiming` is checked with intervals of several units: a poll that is predicted less than a unit too
  early is not told from one on time. Of the places where a thread can be preempted only the one in the
  prediction takes time.

## Plan
Modelled in this order, the most important first: the task queue and its refinement, the way of a
frame, the life of the threads, the diff; then the bus with DMA, the timing, the write window, the 3-wire
framing; then the proofs, in the same order. What would add most next:
1. the interrupt handler of the kernel module as a sixth build of `SpiTransfer`;
2. the barriers: a model of `CommitTask` and `GetTask` with stores and loads that the processor may reorder.
