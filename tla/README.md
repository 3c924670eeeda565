# A verification of the PSP recompiler's runtime

This directory holds TLA+ models of the runtime that a statically recompiled
PSP game is linked with (`src/src/rt`) and of the reference interpreter it is
tested against (`src/src/ref`): specifications translated from the code, TLC
configurations that check them on small instances, and theorems that TLAPS proves
for every instance. File and line references are to the repository;
`PROJECT.json` maps every definition to the lines it translates.

## 1. Inventory

A game's MIPS code is translated offline to C functions over one register file
(`CpuState`). They call into the runtime for everything else.

| Component | State it keeps | Operations | Hard behaviour | What makes it correct |
|---|---|---|---|---|
| **Thread scheduler**, `sched.c` and the thread handlers of `hle.c` 165-200 | thread table `s_tcb`, `s_cur`, virtual clock, next vblank | create, start, exit, terminate, delay, sleep/wakeup, priority, wait for end, wait for vblank, yield, the loop of `sched_run` | interleaving of threads, preemption, vblank interrupts in the middle of a thread, deadlines racing the clock, termination of the loop | one thread runs; registers are never lost; no wakeup is lost; delays keep their time; the loop gives up no wait that has a deadline or that a vblank ends; the best ready thread runs |
| **Semaphores, event flags**, `hle.c` 1582-1700 | `s_sync` | create, delete, wait (timed or not), signal, set, clear, poll | several waiters woken for one signal, timeouts racing signals, deletion under a waiter | an atomic object as the threads see it; no signal lost; no wait cut short |
| **Controller ring**, `hle.c` 1108-1222 | 64-entry ring, two indices | one sample per vblank, blocking and peeking reads | overflow, two readers racing for one sample, no interrupt handler | indices count the unread samples; no reader forgotten |
| **Movie ring**, `mpeg.c` | ring header in guest memory, 8 contexts | put (calls back into the guest), get AU, creation, deletion | state read before a guest callback and used after it; creation failing half way | packets are neither lost nor overwritten; the movie ends |
| **Guest callbacks**, `hle.c` 1369-1462, `mpeg.c` 99-118 | the register file saved on the host's stack, callback table | enqueue a list, finish and fill callbacks | a callback that gives way to a thread that calls back too | each activation finds its own registers |
| **Files**, `hle.c` 832-1015 | 63 descriptors with a pending result | open, read, write, seek, close, each also "async" | results of a closed or reused descriptor, a size kept from the opening | a wait returns the result of the client's own operation; an offset stays in its file |
| **Disc image**, `iso.c` | start of the file system | detection of a wrapper, lookup | padding at the end of a sector, names of directories and files | a path leads where the tree says |
| **Dialogs and keyboard**, `hle.c` 583-715, `osk_win.c` | two status machines, the slot's owner | start, poll, update, shutdown | polled in any order, one dialog started over another | each dialog's walk ends, and its result reaches its own caller |
| **Savedata**, `savedata.c` | directories and files on the host | 15 modes | one of several writes failing | what was saved is what is loaded |
| **Audio**, `hle.c` 1047-1095, `audio.c` | 8 write cursors, one read cursor, mixing ring | reserve, output, host feeder thread | a host thread that drains concurrently, overrun, falling behind | a frame mixed is played when it is due; an output returns |
| **SAS voices**, `hle.c` 1464-1580 | 32 voices | key on/off, pitch, mix a grain | loops, ends and new keys in the middle of a grain | a voice plays its blocks in order and ends once |
| **Partition memory and stacks**, `hle.c` 81-163, `sched.c` 262-287, `recomp.c` 47-55 | bump pointer, 256 blocks, stack top | load, allocate, address, free sizes, a thread's stack | a full table, odd sizes | areas are disjoint and aligned until blocks and stacks meet |
| **Guest clock**, `hle.c` 757-800, 1333-1366 | microseconds, scan lines | readings, the vblank's tick | readings across a frame's end | a clock never goes back |
| **GE lists**, `ge.c` 2131-2440 | GE registers, call stack | 256 commands | nested calls, signal and end pairs, words written one by one at a cursor | calls and returns match; a word lands where it was meant |
| **Software rasteriser**, `ge.c` | depth buffer, framebuffer | vertex reading, clipping, triangle assembly, pixel operations, sampling | boundaries: shared edges, the near plane, swizzled rows, masks in narrow formats | see section 3 |
| **GPU targets**, `ge_gpu.c` | 8 targets, depth buffers, pending batches | acquire, upload, readback, evict, CPU writes, transfers | two copies of every framebuffer | the newest pixels are never dropped |
| **GPU texture cache**, `ge_gpu.c` 675-812 | decoded textures, the built state | get, rewrite, evict, submit | an image replaced under a batch not yet drawn | a pending primitive's image is still its own |
| **Recompiled-code runtime**, `recomp.c` | function table | register, look up, dispatch, unaligned access | colliding addresses, a full table | the last function registered is found |
| **VFPU interpreter**, `vfpu_interp.c` | 128 lanes, prefixes, condition codes | vector and matrix instructions | prefixes used up on some paths and not on others | a prefix changes one instruction |
| **Reference interpreter**, `src/src/ref` | registers, memory, trace | one step per instruction | delay slots, likely branches, links, faults, numeric edges | MIPS control flow; the results the manual and the code's rounding give; a complete trace |
| Window, decoder bridge, fonts, start-up, diagnostics, name table, offline recompiler, test gates | | | | see section 8 |

How they interact: guest code calls handlers in `hle.c`; handlers that block
call `sched_block_on`, which switches to the scheduler's fiber; the scheduler
delivers vblanks, which latch a pad sample, tick the clock, wake the vblank
waiters and call the game's interrupt handler; that handler, like the movie and
GE callbacks, is guest code and calls the same handlers again. Display lists run
inside the enqueueing call and hand their primitives to the rasteriser or to the
GPU's targets and textures. All of it runs on one host thread, except the audio
feeder.

The hazards of the code, each at its line, are in `PROJECT.json`.

## 2. Plan

Order, by how much of the program depends on it. All of it is done; section 8 says
what the models leave out.
Each `...Proofs` module extends the modules it proves things of.

1. `Scheduler`, `SchedulerProofs`.
2. `Monitor` (abstract), `SyncObjects` (over `Scheduler`, implements `Monitor`),
   `SyncProofs`, `MonitorProofs`, `MCSyncObjects`, `MCWaiters`, `SyncClaims`.
3. `MpegRing`: put with the fill callback as steps of its own during which other
   threads consume; contexts; end of stream.
4. `GeTargets`, `MCGeTargets`: the render targets, with `GeTargetsProofs`.
5. The services: `CtrlRing`, `Dialogs` with `Savedata` (a store whose host calls may
   fail), `AudioOut` (the only real host concurrency) and `SasVoices`, composed in
   `Sound`; `MCServices`, `ServicesProofs`.
6. The machine: `Interp`, `Allegrex` and `Vfpu`, which `Instructions` puts together,
   `Runtime`, `GuestCalls`, `GuestMemory`, `FileIO`, `IsoFs`, `Clock`; `MCMachine`,
   `MachineProofs`.
7. Pictures: `GeList`, `VertexFormat`, `GeClip`, `GeMesh`, `PixelPipe`, `Texels`,
   `TexCache`; `MCGraphics`, `GraphicsProofs`. `PictureProofs` has the theorems of
   `GeClip` and `Texels`, and those of `MpegRing`.

## 3. Modules

### Threads

**`Scheduler`** is `sched.c`. One action is one call of a guest thread, up to
the moment it returns to guest code or switches to the scheduler, or one pass
of the loop of `sched_run` (`Dispatch`, `IdleSleep`, `IdleVblank`). The variable
`tcb` is `s_tcb`: state, priority, `wake`, `wait_obj`, `wakeups`, `sleeping`,
`started`, and three abstractions:

- `saved` says that the block holds the thread's live register file. It becomes
  TRUE where the code copies `*s_cpu` to `saved`, FALSE when the scheduler copies
  it back and runs the thread.
- `fresh` is `vbl_seen != s_vbl_count`.
- `call` is where the thread's fiber is parked: what remains to be done when it
  is resumed. `ResumeWaitEnd` is the second and later turns of the loop of
  `h_WaitThreadEnd`; calls with nothing left to do return in `Resumed`.

Absolute times do not matter to the code, only comparisons with the clock, so
`wake` is the time left and `due` the time to the next vblank, negative when
late (lateness beyond one period makes no difference to `vblank_pace`). Each
reading of the host clock lets `0..MaxElapse` units pass. In turbo mode there is
no host clock. The guest's vblank handler either does nothing or wakes one
thread. A thread's uid is its slot.

**`SyncObjects`** extends it with `h_CreateSema` to `h_PollEventFlag`. `want`
holds the arguments of the wait call a thread is parked in; `ResumeWait` is a
turn of the wait loop after the thread was resumed: the deadline is looked at
first, then the object. Uids are not reused, as in the code. **`Monitor`** is
what the objects promise: a wait takes in one step, when the object satisfies
it. `ImplementsMonitor` is that promise, with `waiting` read off `call`,
`wait_obj` and `want`. **`SyncClaims`** states what a comment says and the code
does not do (section 7).

**`GuestCalls`** is `ge_call_guest` of `hle.c` and its twin in `mpeg.c`, over a
scheduler reduced to the switch of threads. Registers are represented by the
activation they belong to: a thread and the number of callbacks it is inside.
`CallGuest` keeps the caller's in `frames`, `GuestReturns` restores them, and
`Switch` may come between.

### Services

**`CtrlRing`** is `sr_ctrl_sample` and `ctrl_fill_n`. The scheduler is reduced to
"a woken thread runs later". `behind` counts what was really latched since the
last consuming read and is only compared with, never used. The contents are
left out: the sample `i + 1` old is always `i` cells before the write index.

**`MpegRing`** is the packet ring of `mpeg.c` and the contexts as far as they
concern it. `packets`, `read`, `writePos`, `avail` and `linked` are the ring's fields in
guest memory; `fill` holds the local variables of `mpeg_ringbuffer_put` while it
is inside the game's callback. `PutBegin` runs up to the first callback and
`CallbackReturns` from the return of one to the next or to the end of the call;
in between every other action may happen, for the callback is guest code that
can be preempted. `unread` counts what was really fed and not taken, and no
action of the code reads it. Assumed of the game: one ring, which it neither
rebuilds nor feeds a second time during a fill. A ring without a callback, which
counts every piece as filled, is the callback that always returns the whole piece.

**`FileIO`** has one action for each call on descriptors. A file is its length, a
client is a guest thread with one file at a time. The asynchronous twins perform their
operation at once and leave a result, as the code does. `due` is what `sceIoWaitAsync`
owes a client, for a descriptor it has open or has closed asynchronously; `overtaken`
says that another client has since made an asynchronous call on the same slot. A write
through descriptor 1 does nothing, for the code takes that for the standard output.
`OnDisc` stands for the missing host stream of a file on the disc image and is no host
file's name.
**`IsoFs`** opens an image, wrapped or not, and looks paths up in its
directories record by record, over the padding at the end of a sector. `Directory`
says what a well-formed directory is: each record begins a sector or where another
ends, none crosses a sector's end, no two have one name. The code checks none of
this; a mastering tool's image has it, and it is assumed. `LookupRaw` is a path that
names a sector instead (`sce_lbn`).

**`Savedata`** is `sr_savedata_execute` over a directory per save. What a file
holds is the number of the save that wrote it. A request names no data file, names one
without giving its content (no buffer, or a size the code passes over), or gives it. A
write of the host may leave the old content or a torn file; the torn file may be
reported as written (`unflushed`), for the result of `fclose` is ignored.
`Resolve` is the name a request leads to: its
own, the first of its list that is there, or the first of its list. **`Dialogs`** extends it with the status
machines: `Start` runs the request, `DlgGetStatus` and `SavedataUpdate` advance
and write the result, `DlgShutdown` ends whatever there is. `game` is the game's
own polling loop.

**`AudioOut`** has the guest's calls and the feeder as actions, for both work on
the ring under one lock. A cell holds the frames mixed into it since it was
cleared, each as its channel and the frame it is meant for; frames are counted
from the read cursor. **`SasVoices`** keeps of a stream its blocks' flags and of
what is heard the place in the stream; a grain is one action. **`Sound`** is both, and
what they promise together.

**`Clock`** is the microseconds and the scan lines a guest reads, ticked by the
vblank.

### The machine

**`Interp`** is the control of the reference interpreter: what an instruction
computes and whether a branch is taken is left open, and so is the instruction
at an address, at each visit. What is kept is the delay slot, annulment, links,
stops, faults, and the lines of the trace. **`Allegrex`** is the arithmetic it
leaves out, on registers of `WIDTH` bits: for one instruction at a time, its
operands and its result. A float is a number of units, `POINT5` of them to a half, and
`Single` the float nearest to a sum, so that `round.w.s`, which adds a half, is as
inexact as the code. **`Vfpu`** has the lanes registers name, the prefixes, the
instructions that only move, choose or set numbers with their values, and the
rest with any result; a number is counted in twelfths. **`Instructions`** states what
the two promise together.

**`Runtime`** has the four halves of unaligned accesses on two words of bytes, and
the table of functions with its probing. **`GuestMemory`** has the loader's
segments, the blocks above them and the stacks below the top of memory. As in the code,
nothing keeps the two apart, and a stack may be smaller than its control area. The only
bounds are the number of threads and that addresses do not wrap.

### Graphics

**`GeList`** is the list interpreter: an action per kind of command, the list's
content left open, a register's word represented by the place it was meant for.
**`VertexFormat`** keeps of a read of a vertex the bytes it touches. **`GeClip`**
keeps of a vertex its clip-space depth and w, as exact fractions, and whether it
lands off the grid. **`GeMesh`** keeps vertices on the grid `raster_tri` snaps them
to and counts how often a pixel is covered. **`PixelPipe`** takes one fragment
of a triangle, sprite, line or point through every test and write mode, with one colour
channel and alpha. In clear mode, triangles and sprites are a `Clear`; lines and points are
tested like any other fragment (`by` is "line" for both).
**`Texels`** has the places of texels for the sampler and for the decoder.

**`GeTargets`** is `ge_gpu.c` without pixels. The game knows one memory, VRAM;
every framebuffer it draws to has a second copy in a GPU image, and batches
change the image only when they are submitted. For each part of a framebuffer
the model keeps whether VRAM (`vram`) and whether the image (`fresh`) holds the
pixels the game would see if there were one memory. A draw makes both old, until
the batch is submitted; a readback, an upload, a snapshot and a transfer copy the
bit with the pixels; a CPU write makes VRAM new. `tgt` is `s_tgts`, with `clean`
for `clean_gen == render_gen`; `deps`, `cur` are `s_deps`, `s_cur`; `pend` is
`s_batch`; `tmpl` the built state while `s_flushgen` lets it be reused; `snap` the
snapshot image. `spoiled` collects the parts whose newest pixels a CPU write beside
them discards (`hook_vram_dirty` drops the whole image), the one loss the code
accepts; nothing in the model depends on it. A handler is one action: it is
a chain of operations from state to state, each named for its C function or for
a step of it, so that their order is that of the code. Framebuffers do not
overlap, Vulkan calls succeed. The least recently used target is any but
the current one. DMA that reads a framebuffer, and a display that shows
one in another format than it was drawn in, get VRAM as it is, for the code reads
nothing back for them; `ReadersSeeNewest` speaks of the other readers.

**`TexCache`** is `tex_get` with what a later batch depends on. A key stands for
the address, format, size, filter and palette of a texture and its content for
the hash; an image has the number of the descriptor made for it, which the pool
may give out again, and an upload may be refused.

`TakenOnce` of `MpegRing`, `FeedbackIsCopied` of `GeTargets` and
`ScissorBoundsAllWrites` of `PixelPipe` state what the code does not do; see
section 7.

### Composition

`MCMachine`, `MCServices` and `MCGraphics` each extend several components that
share no state, with a variable `part` that chooses at the start which one a
behaviour runs; the others stay in their initial states. So a run checks each
of them completely, and not their product, which would only interleave steps
that do not touch one another. Components that do share state are composed for
real: `SyncObjects` with `Scheduler`, `Dialogs` with `Savedata`, `MpegRing`'s callback
with its other callers. `MCWaiters` chooses in the same way between a run with a
semaphore and one with an event flag, over all of `SyncObjects`.

Definitions whose comment begins "variant:" are not part of a model. Each is a
plausible mistake in the definition that follows it, and shows that a property
notices.

## 4. Runs

| Run | Instance | What it shows |
|---|---|---|
| `sched_paced` | 2 threads, 2 priorities, period 2, clock steps 0..1, one banked wakeup | the safety of the scheduler with every call: `OneRunning`, `ParkedIsSaved`, `SleeperHasNoWakeup`, `StrandedOnlyByReturn`, `StopIsFinal`, `DelayNotCutShort` |
| `sync_sema` | 2 threads making every call, one semaphore, timeouts, clock steps 0..1 | `WaitNotCutShort`, `ImplementsMonitor` when waits, sleeps, vblanks and timeouts interleave |
| `sync_waiters` | turbo mode; 3 threads and a semaphore of 0..2, or 2 threads and a flag of 2 bits | a signal that satisfies some of several waiters, every wait and clear mode: `NoSatisfiedWaiter`, `ImplementsMonitor` |
| `live` | 2 threads, 2 priorities, delays and timeouts below and above the period | `TopReadyRuns`, `LoneWaitsEnd` (a delay, a timed wait) under fairness |
| `services` | dialogs over 2 saves, 2 of them made, with data named, given or neither, one blob; 2 channels over a ring of 6 frames in blocks of 2; one voice, 3 streams, 3 pitches; a pad ring of 4 with 2 readers | `SaveThenLoad`, `FinishedMeansOwnResult`, `SoundInOrder` (`MixedForItsFrame`, `PlaysInOrder`), `CountsUnread`, `ParkedOnlyWhenEmpty`, and under fairness `WaitsEnd` (`DialogEnds`, `OutputReturns`, `OneShotEnds`, `ReadReturns`) |
| `machine` | 3 instructions and 2 bytes; registers of 4 bits; one matrix of the vector unit, 3 instructions; words of bytes 0..1; a table of 3; 3 threads with 2 callbacks each; a memory of 32 units below addresses of 36; 2 clients and 2 descriptors; 32 discs, with raw paths too; 3 frames | `InterpreterFaithful` (`FlowsAsMips`, `TraceReplays`), `InstructionsExact` (`ArithmeticExact`, `PrefixUsedOnce`, `MatrixHasItsVectors`), `RuntimeKeepsFaith`, `EachFindsItsRegisters`, `GuestMemorySound`, `FilesServed` (`DescriptorInFile`, `OwnResult`), `FoundByName`, `TimeMovesOn` |
| `graphics` | 2 segments of 2 words and a stack of 2; vertex types of every width and alignment; triangles of 3 depths and 3 w; meshes of two triangles on 7 points; 5 pixel formats; textures of up to 16x16; 3 textures for 2 places, 3 draws; a ring of 3 packets with 2 movies | `ListRunsInPlace` (`LevelsApart`, `WordsInPlace`), `OneFieldPerByte`, `DrawsWhatIsInFront`, `OneSurface`, `KeepsTheRest`, `TexelsAsLaidOut` (`TexelsApart`, `SameTexels`), `PendingHaveTheirImage`, `RingFilledRightly` (`FillsOnlyFree`, `WritesInOrder`), `EndsDrained` |
| `targets` | 2 targets, 3 framebuffers of 2 parts, 1 depth buffer, 2 formats, batches of 2 | every order of draws, evictions, reinterpretations, CPU writes, transfers, palette loads and presents: `ValidIsNewest`, `NewestKept`, `CopiesAreCurrent` (`CleanIsCurrent`, `SnapshotIsCurrent`), `PendingCanBeDrawn`, `ReadersSeeNewest` |
| `claim_*` | the smallest instance that shows it | section 7 |

Bounds. Two threads are enough for every pairwise interaction of the calls, for
the code treats threads by comparison and by object only; three are used where
one event concerns several waiters. The delays 1 and 3 lie below and above the
period 2, so that the idle loop takes each of its branches: sleeping to a
deadline, waiting for a frame, both in sequence. `MaxElapse` of 1 makes a
deadline, or the vblank, pass between any two readings of the clock.
`MaxWakeups` bounds the wakeups banked on a thread (the code counts without
limit); 1 tells "none" from "some". `MaxCount` bounds a semaphore likewise. The
guest of `sync_waiters` (`PlainNext`) makes no thread calls but creating, starting,
ending and delaying threads, to leave room for a third thread and for flags;
`sync_sema` has them all. The pad ring's 4 entries stand for 64; `ServicesProofs`
covers every size. No run with threads uses symmetry: they are compared by index.

A movie ring of three packets wraps twice within the bounds, and the movie of
four in the claim is longer than the ring. The clients of `machine` are only compared,
so `MCClientSymmetry` is sound; no property of that run is a liveness property.
Registers of 4 bits have every relation of signs, carries and halves that 32
have, and every pair of operands is tried; the accumulators are those at the
ends of the range. A table of 3 with four functions collides, wraps and fills.
The floats have 3 significant bits, which are enough for both ways in which
adding a half is inexact: below a half, and where floats are whole numbers apart.
Memory units are 8 to a page and 4 to the alignment, with sizes that are
multiples of it and not; three stacks and a few blocks cross within it, and one of the
stacks' sizes is smaller than the control area. Of the two descriptors only the second
takes writes, so that two writers of one file are covered by the theorem alone.
Three callbacks' threads, two deep, are enough for one to be switched out between the saves of two others. Directory sectors of 5 units make records
end at, before and across a sector's end. Scan lines and microseconds run over
several frames and past the end of one.

The ring of 6 frames holds a buffer of 4 and not two, so that a push is cut; a
buffer of 1 is smaller than the block, so that a channel falls behind. A voice's
blocks of 3 samples are crossed at pitches below, at and above the native one.
Two saves, one of them named by a list, are enough for a name to resolve
differently before and after a save.

In `graphics` a call beyond the stack of two, a return beyond its start and a
jump across a segment all happen; a matrix of 3 elements has a cursor of up to
5; textures are larger than a swizzled tile each way and also smaller; a
triangle's vertices lie on both sides of the near plane and behind the eye, in
every order; two triangles meet in edges of every slope, through pixel centres
among them; with 3 textures for 2 places every new one evicts another. In
`targets` one framebuffer more than there are targets makes every new one evict
another; one framebuffer has two formats, each with a depth buffer of its own,
and only it is sampled; two parts tell what a CPU write covers from what it does
not. The other two framebuffers, and the parts, are interchangeable and nothing
compares them, so symmetry is sound.

Deadlock is checked except in `machine` and `graphics`, where it may be reached
by right: an interpreter that has met a fault, a list that has ended, and parts
whose bounds (`MaxRun`, `MaxFrames`, one fragment per behaviour) are exhausted have
nothing left to do.

## 5. Fairness

`Scheduler!Fairness` is weak fairness of three things. The loop of `sched_run`
is host code that runs whenever no thread does. A resumed call continues, for
its fiber was switched to. A thread that stays in guest code runs down
`sr_timeslice`, which translated code decrements at branches, and yields. No
fairness is assumed of any other call: a guest thread need not ever sleep, exit
or signal. `SyncFairness` adds the resumed wait.

`ServicesSpec` assumes, for the service at work: that vblanks go on and that a
woken reader runs; that a game which waits for a dialog goes on polling it,
which is what waiting means there; that the host runs the feeder, that the device
plays what it was given and that a delayed output is resumed; and that a game which
waits for a voice goes on mixing grains. It assumes nothing of the calls by which
a game starts, ends or replaces anything.

## 6. Proofs

Each theorem holds for every value of the constants that satisfies the ASSUMEs of
its module. All are safety: an invariant, an action property or a refinement.

| Module | Theorems | Of |
|---|---|---|
| `SchedulerProofs` | `TypeCorrect`, `MutualExclusion`, `RegistersSaved`, `WakeupsKept`, `EndReleases`, `StopsForGood`, `DelaysRunTheirTime` | `TypeOK`, `OneRunning`, `ParkedIsSaved`, `SleeperHasNoWakeup`, `StrandedOnlyByReturn`, `StopIsFinal`, `DelayNotCutShort` |
| `SyncProofs` | `SyncTypeCorrect`, `NoSignalLost`, `WaitsRunTheirTime` | `SyncTypeOK`, `NoSatisfiedWaiter`, `WaitNotCutShort` |
| `MonitorProofs` | `ObjectsAreAtomic` | `ImplementsMonitor` |
| `PictureProofs` | `RingIsFilledRightly`, `MovieEndsDrained`, `TexelsLaidOut`, `FrontIsDrawn` | `RingFilledRightly`, `EndsDrained`, `TexelsAsLaidOut`, `DrawsWhatIsInFront` |
| `GeTargetsProofs` | `GpuCachesAreSound`, `TypeCorrect`, `ImagesAreNewest`, `NothingIsLost`, `CopiesStayCurrent`, `BatchesCanBeDrawn`, `ReadersAreServed` | the invariant `IInv`, `TypeOK`, `ValidIsNewest`, `NewestKept`, `CopiesAreCurrent`, `PendingCanBeDrawn`, `ReadersSeeNewest` |
| `ServicesProofs` | `SavesCanBeLoaded`, `DialogsReturnOwnResult`, `FramesArePlayedWhenDue`, `VoicesPlayInOrder`, `SoundIsInOrder`, `RingTypeCorrect`, `RingCounts`, `NoReaderForgotten` | `SaveThenLoad`, `FinishedMeansOwnResult`, `MixedForItsFrame`, `PlaysInOrder`, `SoundInOrder`, `CtrlTypeOK`, `CountsUnread`, `ParkedOnlyWhenEmpty` |
| `MachineProofs` | `InterpreterIsFaithful`, `RuntimeIsFaithful`, `FilesAreServed`, `CallbacksKeepRegisters`, `MemoryIsSound`, `ClocksMoveOn`, `LanesAreNamed`, `ArithmeticIsExact`, `InstructionsAreExact`, `PathsAreFound` | `InterpreterFaithful`, `RuntimeKeepsFaith`, `FilesServed`, `EachFindsItsRegisters`, `GuestMemorySound`, `TimeMovesOn`, the two parts of `InstructionsExact` and the whole, `FoundByName` |
| `GraphicsProofs` | `ListsRunInPlace`, `TexturesKeepTheirImages`, `EachByteHasOneField`, `MeshesAreOneSurface`, `FragmentsKeepTheRest` | `ListRunsInPlace`, `PendingHaveTheirImage`, `OneFieldPerByte`, `OneSurface`, `KeepsTheRest` |

**The scheduler.** The inductive invariant `IInv` is mostly `Good(tcb, ntcb, cur)`,
a property of a table. The checked invariants alone are not inductive: a slot that
will be allocated must be known to be dormant and never run; a thread that was
never started must have its registers in its block, because `Start` does not reset
them; a sleeper must be known to carry its own index as `wait_obj`, or a
wakeup would not recognise it; and a delay must have a deadline, or the loop could
stop over it. Each operation on the table (`Wakeup`, `Start`, `Block`, `Exit`,
`Terminate`, ...) has one lemma that it keeps a table good. The operations that only
end waits, run clocks down, latch vblanks or set priorities share one, `MilderGood`.
Each action then follows from the lemmas of the operations it is made of.

`StopsForGood` follows from the last pass of the loop: the vblank it delivers leaves
nobody waiting for one (`NoneAwaitsVblank`), so that of those left the next could only wake
a thread in `sceKernelSleepThread`, by the guest's handler (`OnlySleepersWoken`). That it
wakes none is not claimed; see section 7. `DelaysRunTheirTime` rests on
`NextHolds`: a wait held by something that is neither a thread nor the vblank
survives every operation but a start of its thread and the thread's own end. Its
set of objects is a parameter, empty for delays. Besides `IInv` it needs
`RunnerRuns`, that the thread in `s_cur` is not itself waiting.

**Semaphores and event flags.** `SyncInv` adds to `IInv` and `RunnerRuns` the types of
the objects (`Values`, `Table`), that every thread inside an object's wait waits for
an object that exists or did, with arguments of its kind (`WaitsForKnown`), and
that those still blocked could not take (`ParkedUnsatisfied`). The last is only
inductive because a wait is entered by the wait call alone. So the scheduler's steps
are first shown to keep the relation `NoNewWait`: no thread that was in no object's wait
comes to be in one, and none goes back from ready to blocked. `StepKeeps` then has
the argument once: a step that starts no wait and raises no object that it
does not wake leaves nobody satisfied. `WaitsRunTheirTime` takes `NextHolds` with the
object waited for.

**The refinement.** A thread waits in `Monitor` while it is inside an object's wait and
not dormant, ready or blocked alike, so that waking, testing again and blocking again
are stuttering. `MonitorProofs` shows the complement of `NoNewWait`: a scheduler's
step ends no wait but that of a thread it makes dormant (`KeepsWaits`, `EndsOne`), which is
`Monitor`'s giving up. Each call is then one step of `Monitor` or none (`StepRefines`),
without any assumption about who is woken in which order.

**The render targets.** A handler of `ge_gpu.c` is a chain of operations on one record,
so the invariant `Sound(g, spoiled)` is a property of such a record, and each
operation has a lemma that it keeps it. It contains the run's invariants and what
they need of each other: a readback of a clean target copies nothing, so
`ValidIsNewest` needs `CleanIsCurrent`; an upload takes from VRAM what a new target
must find there, so it needs `NewestKept`; and a target that is given up submits its
batches first, which needs its depth buffer. Operations that only draw share one
lemma (`SamePlaces`: nothing was acquired or given up). Where a handler goes through
all targets, by a recursive function, the proof takes the first one after which the
invariant fails (`WFMin` of the library) and shows that there is none: this is how
induction over numbers is done without an operator as a parameter.
`ReadersSeeNewest` follows from the invariant alone, by what each reader copies first.

**The machine.** `InterpInv` ties the delay slot to the trail (the processor is in a slot
exactly when the instruction before was a taken branch, and leaves it for that
branch's target), for programs without a branch in a slot. `TableInv` says of an address's
probe sequence that nothing before the address is free or the same address, which
is what registering another function in the first free place must not disturb. `MoveInv` keeps what the first half of an
unaligned store wrote while the second is still to come. `FileInv` gives every
client's descriptor to that client alone and its slot the result the client is due; the
slot of a client that has closed asynchronously holds 0, whoever opens it, until an
asynchronous call overtakes.
`CallsInv` states the order of the registers saved on each thread's host stack, from the
outermost activation in, and that a thread without the processor has its innermost
ones in its block. `MemInv` keeps blocks between the module and the bump
pointer, and stacks above the lowest one's address, which stays a multiple of the
alignment, without which a control area could reach below a stack large enough for
it. Blocks and stacks are only compared while the pointer is below that address.
`ClockInv` relates what was last
returned to what the next reading starts from.

`VfpuInv` adds to the two properties of the vector unit that without a vpfx the
prefixes are the identity, without which a move could not be told to be one. The rest
is geometry: the lanes of a row or column are as many as its size and different
(`LaneIs`), and those `mreg_idx` gives for a matrix are those `vreg_idx` gives for its
columns or rows. The arithmetic of the integer unit has no invariant to speak of,
for each result is judged by the operands beside it; what is proved is arithmetic, for
registers of any width. Everything rests on the laws of the powers of two (`PowerIs`,
`PowerSum`, proved from their recursive definition by the least counterexample) and on
the uniqueness of quotient and remainder (`DivModIs`). From these come what a word
keeps of an integer (`WordIs`, `HiLoIs`), C's division from that of magnitudes
(`QuotIs`), the bits of a sum of two fields, one above the other (`BitLow`, `BitHigh`), by
which extraction, insertion and sign extension are read, and how far a converted float
may be from its integer (`CastWithin`), for `round.w.s` from how far the rounded sum may
be from the sum: a float is nearest to itself, so that the sum is exact wherever it is a
float, and otherwise lies no farther off than the operand itself.

`IsoInv` is that the opened image's offset is where its file system starts. That a walk
finds a name is shown backwards, from the end of the directory: no record lies across
the offset the walk has reached (`Clear`), so the next offset holds a record, or
padding up to the next sector, or the end. The walk and the lookup of a path are
recursive functions; that each exists, and is what the tree says, is again shown
from the least number at which it would not be.

**The services.** `SavedInv` is `SaveThenLoad` with the types of what is stored: the work
is in showing that a name that was resolved to a directory is still resolved to it
after the save. `ResultInv` follows the block and the result of the game's own
request through both status machines. `RingInv` says of each cell of the mixing ring
that its frames are due when it is played and each less far ahead than its channel
has queued, so that a frame mixed next meets none of its own channel's that is due
later. A grain of
the voices is a recursive function of the samples before it, and `InOrder` is shown
to hold after each of them by the same argument from the least counterexample.
`CtrlRing`'s three invariants are inductive together: `CountsUnread` needs the indices
in range, and the ring's `%` is removed by `ModRing`, `Distance` and `NextIndex`.

**Pictures.** `ControlInv` ties each return address on a list's stack, with the
offset saved beside it, to the level the list called from; `RegisterInv` has every
register made of two commands' parts be what the last of each said. `Drawable` says that
each draw of a batch, and the built state reused for the next, names an image some
texture has. It is inductive only with the images pairwise different and with the built
state included: a texture is evicted safely since every batch that names its image
was submitted before. `BytesInv` gives every byte read so far to one field of one vertex,
from the layout's alignment. `MeshInv` counts, per pixel, the triangles complete so
far that cover it. That two triangles with an edge in common are one surface is then
geometry over integers: the box `raster_tri` scans holds every pixel of the
triangle (`BoxHolds`, a centre is the mean of the corners weighted by the areas across,
and floor and ceiling leave its pixel in); the two directions of an edge have opposite
signs, and exactly one of them is a top or left edge, so a centre on it is one
triangle's (`EitherSide`); and a centre between the ends of an edge is strictly inside the
others (`BetweenEnds`). `PixInv` keeps what the pixel held before the fragment; that a
masked bit survives is the arithmetic of 8 bits scaled to 4, 5 or 6 and back.

The place of a swizzled texel is a number with the digits tile row, tile, row, word
and byte, each below a bound of its own (`SwizzledIs`). Two places are equal only if all
digits are (`SameDigits`, `SameIndex`), and the last is below the texture's size
(`IndexBelow`); so places and texels are as many (`PlacesCount`). `CoordIs` brings a
coordinate into the texture by the code's remainder and by the GPU's repeat or clamp, to
the same texel. `ClipInv` says that what was drawn is what the primitive at hand is drawn
as. Of a triangle, the six ways in which one or two corners are behind the near plane, and
that in which none is, each give the border of what is in front as three or four
vertices, in order (`PlacesInOrder`); a created vertex lies on the plane between the
two ends of its side, and its w is their mean (`CreatedIs`).

**The movie.** In `MpegRing` a feeding call's local variables are related to the ring as it
is now (`FillInv`): what the call read before the callback is an upper bound of what is
unread, since others only take, and the place it writes next is where the
packets it has not counted yet lead. `RingInv` says the same between calls.

The proofs corrected the models. The instance of `FileIO` gave one host file the
name of `OnDisc`, so that the two were confused; an assumption now excludes it.
Making room in the texture cache submitted the batch but
evicted from the cache as it was before, its flags included. A texture
without a buffer width has rows as long as it is wide, which `Texels` had left out.
And directories on the disc of `IsoFs` lacked the two entries for themselves and their
parents, and what makes them well formed was only a matter of the instance.

Every invariant and every action property of a passing run is a theorem. Only
model-checked are the liveness properties, since the prover has no rules for fairness.
The library's theorems of induction take an operator as a parameter, which the provers
cannot instantiate: wherever a proof needs induction, over a path, a table or a
width, it takes the least counterexample in a set that it defines (`HasLeast`).
No property is about the results of the logical operations and comparisons of
`Allegrex`, each being its own definition.
Type invariants are not among the runs' properties: those of `Scheduler`,
`SyncObjects`, `CtrlRing` and `GeTargets` are theorems, those of the other modules
with proofs are conjuncts of their inductive invariants. `DelayNotCutShort`,
`WaitNotCutShort`, `EndsDrained`, `TimeMovesOn` are action properties.

## 7. Where comments and code part

Four runs end in a counterexample; `PROJECT.json` quotes the lines.

- `claim_signal_timeout`: a wait signalled in time but resumed late reports a
  timeout.
- `claim_mpeg_taken`: a packet taken during a fill is available again when the
  fill ends, for the count read before the callback is written back. The ring
  then claims packets it does not hold, and a movie ends later than it should;
  `RingFilledRightly` and `EndsDrained` show that the error is always on that side.
- `claim_feedback`: the state built for a primitive is reused while the GE's state is
  the same, but the framebuffer is not part of what is compared. A texture drawn
  to another target, then to its own, is bound without the snapshot that
  feedback needs.
- `claim_scissor`: a line, point or sprite outside the scissor writes depth there,
  for the test stores the depth before the scissor is looked at; only triangles
  have their bounds cut first.

The models contain more such behaviours, for which no run is kept.

- Threads: one whose entry function returns is made dormant without waking those
  that wait for its end, unlike an exit (`sched.c` 251; `StrandedOnlyByReturn` shows
  that nothing else does so). Threads of equal priority do not take turns,
  although `sched.c` 11 says they round-robin: one that yields is chosen again if
  its index is lower (323). When every thread waits without a deadline the loop
  ends (607), although the watchdog counts on vblanks being delivered then
  (`hle.c` 1337): a sleeper that the enabled vblank handler would wake at a later
  vblank is given up with them, for the loop asks only whether its last one woke it.
  Terminating a thread does not preempt the caller in favour of a waiter it readied (`sched.c` 545-556). Threads that keep switching to each other
  within their timeslices hold back vblanks for ever, which `sched.c` 339-344 says
  the yield path prevents. A deadline that passes between `pick_next` and the
  reading of the clock costs a whole frame (594).
- The pad: without a registered vblank handler no sample is latched (`sched.c`
  220), although `hle.c` 1108 speaks of one per vblank; and a blocking read
  returns an old sample after four wakes whose samples other threads took
  (`hle.c` 1196).
- Textures: `ge_gpu.c` 99 says that an entry's flag stands while not-yet-submitted
  batches refer to it. `ReferencedIsPending` of `TexCache`, which says so, fails in five
  steps: making room for a primitive may submit, which clears every flag, after
  the primitive's texture was looked up and before its batch is appended. A later
  change of that texture then rewrites the image under the batch. The reuse of the
  built state also skips the hash of the texture's content, which
  `gpu_sdl3vk/README.md` 75 calls "hash on use".
- Files: the search for a descriptor starts at 1 (`hle.c` 868), but what is written to a
  descriptor below 2 is reported as written and dropped (904), so that the first file
  opened loses its writes. A client that closes asynchronously and waits after another has
  opened the same slot and made an asynchronous call on it is given the other's result;
  996-997 have one client that waits at once in mind.
- Saves: one that names a data file without buffer or size, or with 64 MB and more,
  succeeds without writing it (`savedata.c` 249), and a load with the same parameters
  answers that there is no data (296-301). The result of `fclose` is not looked at (113),
  so that a file the host could not finish is reported as saved.
- The interpreter: `round.w.s` adds a half in single precision (`interp.cpp` 79): it
  takes 0.49999997 to 1 and 8388609 to 8388610, where the nearest integer is 0 and the
  number itself.
- The rasteriser: in clear mode, lines and points are depth-tested if the test is on (`ge.c` 1139, 1158).
  They write depth that the clear asked to keep and do not clear depth it asked to
  clear. A vertex type with a reserved colour code, 1 to 3, puts the field offsets back
  to the beginning (204, 222).
- Memory: nothing stops the partition's blocks and the threads' stacks from meeting, and
  the control area of a stack below 0x810 bytes lies partly in memory below the stack,
  which the next thread created is given.
- Callbacks share one guest stack at 0x09df8000 (`hle.c` 1387): registers are safe
  when two are under way (`EachFindsItsRegisters`), what they pushed is not.

## 8. Not modelled

In the modelled components: entry points and arguments, logging and the
watchdog; the vblank handler's freedom to call anything but a wakeup; reuse of
one uid for objects of different kinds; counts above the bounds named; the bytes of
files and the strings of `PARAM.SFO`; directories and status of the host's files,
which keep no state; volumes, envelopes and sample values of sound, and pitches
above native between blocks; a dialog started before the one before it has
ended; memory whose addresses wrap; vertex types with a reserved colour code; of movies,
timestamps, stream registration,
elementary-stream buffers and decoding; of the rasteriser, transform, lighting
and interpolated attributes (floating-point functions of the vertex), and
palettes; of the GPU, pixels, depth contents and
pipelines; of the recompiled code's runtime, tracing, plain memory accesses and
tabulated mathematics; floating-point arithmetic, in both interpreters, but for the
conversions to integers; what a clear of a sprite writes off the screen.

Components left out for good: fonts (a pure function of a file), the window and
the movie decoder's bridge (the order of calls is that of the libraries), start-up
(straight-line code), the name table (generated data), diagnostics, the offline
recompiler (it runs before the program, on text and graphs of unbounded size)
and the test scripts.
