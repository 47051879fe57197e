# vibeee: a TLA+ model of its kernel core, its sound and window paths and its C library

vibeee is a small operating system for the Eee PC: a preemptive, single-CPU
kernel in Zig, services and programs outside it that talk over channels, pipes,
events and shared memory, and a C library for ported programs. This directory
models

- the part of the kernel that everything else rests on: threads that sleep,
  wake, die and are collected, and the objects they sleep on;
- two paths from a C program to the machine: sound, from `vb_sound_write` to
  the period interrupt, and the virtual framebuffer, from the window manager's
  events to the Doom port;
- what the C library computes and keeps: text, numbers, formatting, streams,
  the environment and the heap.

It checks them with TLC on small instances and proves part of them with TLAPS
for every instance.

Paths below are relative to the repository root; `kernel/` is `src/kernel/`.

## 1. Inventory

| part | state | operations | what is hard about it |
|---|---|---|---|
| wait queues (`kernel/wait.zig`) | per queue a LIFO chain of waiters, per waiter the fired index | `wakeOne`, `wakeAll`, `blockOn` | one thread on several queues, wake racing deadline racing kill |
| lock (`kernel/lock.zig`) | `held`, a queue | `hold`, `release` | no ownership hand-over: a released lock is only announced |
| events (`kernel/event.zig`) | saturating count, a queue, references | `signal`, `waitOne`, `poll`, `waitMany` | many waiters, many events, consumed counts |
| pipes (`kernel/pipe.zig`) | ring, reader and writer counts, two level-triggered events | `read`, `write`, `retain`, `release` | blocking and event-driven users of the same ends, inherited ends |
| channels (`kernel/channel.zig`) | pending calls, reply table with generations, ready event | `call`, `recv`, `reply`, `stopServing` | the table points into callers' stacks; deadlines and deaths on both sides; handles in flight |
| handles (`kernel/handle.zig`, `refcount.zig`) | table of slots, counts in objects | `alloc`, `close`, transfer | one reference per holder through every failure path |
| service registry (`kernel/svc.zig`) | table of names, change event | `register`, `lookup`, `unregister` | dead servers' entries, three-step registration |
| scheduler (`kernel/sched.zig`, `sched/`) | active and expired levels, sleepers, corpses, all-threads list | `spawn`, `yield`, `sleepUntil`, `blockCurrent`, `unblock`, `schedule`, `kill`, `exitWith`, `reap` | intrusive lists shared by interrupt and thread context |
| process tree (`kernel/sched.zig`, `exec.zig`, `syscall/proc.zig`) | parent, awaited flag, exit status, exit queue, child queue and event | `spawn`, `waitFor`, `waitChild`, `exit`, `kill`, adoption | death of parents and children in any order |
| userspace block devices (`kernel/ublk.zig`) | volumes with slots, an area of shared memory, a doorbell, users inside | `attach`, `publish`, `survey`, `next`, `done`, `detach`; `claim`, `run`, `freeSlot` | a server that is slow, dies or comes back while callers are inside |
| interrupts to userspace (`kernel/irqevent.zig`) | lines with owners, completions owed | `attach`, `acknowledge`, `release`, watchdog | shared lines, stuck and dying owners |
| shared memory (`kernel/shm.zig`) | segments, frames, references, mappings | create, map, unmap, release | a mapping that outlives its handle |
| block layer, cache (`kernel/block.zig`, `bcache.zig`) | devices, partitions, cached sectors | read, write, flush, wrap | cache reused across re-attach |
| FAT, VFS (`kernel/fat*`, `vfs.zig`) | clusters, directories, mounts, leases | file operations | order of writes, media that go |
| memory (`pmm.zig`, `heap.zig`) | frame bitmap, free lists | alloc, free | |
| sound service (`user/sndd/main.zig`, `proto/audio.zig`, `lib/audiograph.zig`) | graph of nodes, ports and links, per port a ring of shared memory and an event, a doorbell, whether the device plays | node, port, link, drop; doorbell, period, start and stop of the device, wake of the machine, end | two processes meet in a ring without a lock; a device that stops when it is quiet; clients that die, a machine that sleeps |
| sound in a program (`user/lib/sound.zig`, `libc/vibeee.zig`, `lib/spsc.zig`, `lib/audio.zig`) | its end of the ring, a bank of voices | `vb_sound_*`, `vb_mix_*` | full rings, waits without a deadline, voices that end inside a pass |
| virtual framebuffer (`user/framebuffer.zig`, `libc/vibeee.zig`) | pixels, where they are shown, whether closed | open, read a key, present, close | desktop or bare screen; configure, close and the manager's end in any order |
| screen and keyboard (`kernel/display.zig`, `input.zig`), window manager (`user/eeewm`) | owner of each, queues of events | acquire, read, release; focus, chords, kill | releases that go elsewhere |
| Doom port (`apps/doom/doomgeneric_vibeee.c`) | screen buffer, sounds found, sound up | what the engine calls: init, draw, key, sound | an engine that calls in any order and never ends by itself |
| C library (`user/libc`, `lib/str.zig`, `decimal.zig`, `lib/stream.zig`) | streams with a buffer, the environment's list | the functions of the headers | limits, ties, contradicting flags; buffered and descriptor position apart; allocations that fail half way |
| user heap (`lib/heap.zig`) | pieces tiled by blocks and holes, bins | `alloc`, `free`, `realloc` | marks kept in neighbours |
| examples (`examples/*.c`) | | | what a program over these calls relies on |
| console, log, probe, panic | screens, queues | drawing, formatting | mostly layout |
| init (`src/user/init.zig`) | services, restart counts | start, supervise, collect | waits on child and registry events |
| other services and programs (`src/user`, `apps`) | | | USB volume server is modelled with `ublk` |

Everything the kernel does between `saveAndDisableInterrupts` and
`restoreInterrupts` is atomic on the single CPU; system calls otherwise run
with interrupts on (`arch/x86/syscall_arch.zig`), so between two such sections
any thread may run. A thread that blocks gives up the CPU inside the section
and resumes inside it. These two facts decide what one action is: an action
runs from one such point to the next, whole.

What makes each part correct is stated in section 3, next to the run that
checks it. The hazards the properties are aimed at are listed with their lines
under `hazards` in `PROJECT.json`.

## 2. Modules and the code

`PROJECT.json` maps every definition to its lines. The modules build on one
another the way the code does:

    WaitQueue ── KernelLock
        │
    EventObject ──┬── KernelEvent
                  ├── Pipe ········ refines ByteStream
                  ├── Channel
                  ├── SvcRegistry
                  ├── Ublk
                  └── Processes
    RunQueue ──── Scheduler

    WaitQueueProofs ──┬── KernelLockProofs       (each extends the module
                      ├── KernelEventProofs       it is named after)
                      ├── PipeProofs
                      ├── ChannelProofs
                      ├── SvcRegistryProofs
                      ├── UblkProofs
                      └── ProcessesProofs

    MixBank ──┬── SoundService ── SoundPrograms ···· refines SoundContract
              └── DoomSound ──┐
    VirtualWindow ────────────┴── DoomPort

    CText ── CFormat ─┐
    Environ ──────────┤
    Heap ─────────────┼── Conform ········ its streams refine PlainFile
    Stdio ────────────┘

| module | models | state | actions |
|---|---|---|---|
| `WaitQueue` | `wait.zig`, `sched.blockCurrent`, `sched.unblock` | a record: queues, run state, and which queues fired, per thread | operators `WakeOne`, `WakeAll`, `Unblock`, `Block`, `Leave`, `Fired` |
| `EventObject` | the counting latch of `event.zig` | count and queue per event | operators `SignalLocked`, `Consume`, `BlockOn` |
| `KernelLock` | `lock.zig` | `held`, the queue, where each thread is | `Hold`, `HoldAgain` (back from `blockOn`), `Release`, `Kill` |
| `KernelEvent` | `event.zig`: `signal`, `poll`, `waitMany` | the events, what each thread waits for, deadlines | signal, poll, wait, wake, expiry, kill |
| `ByteStream` | what a pipe promises | the bytes in transit | put some, take some |
| `Pipe` | `pipe.zig` with the system calls on its ends | ring, open ends, `readable` and `writable`, the call of each thread | read, write, wait_many on an end, inherit, close, kill |
| `Channel` | `channel.zig`, and `sys_call`, `sys_recv`, `sys_reply` of `syscall/ipc.zig` | pending list, reply table, generations, call records on clients' stacks, handle tables and reference counts | call, wake, recv, reply, wait on `ready`, close, stop serving, expiry, kill |
| `SvcRegistry` | `svc.zig`, the system calls around it, the look-and-wait loop of `init.zig` | table, references, the step each process is in | create, place, announce, install, withdraw, unregister, look up, connect, close; look, wait |
| `RunQueue` | `sched/queue.zig` | levels and their bitmap | operators `Push`, `Popped`, `Pop` |
| `Scheduler` | `sched.zig`: threads as the scheduler sees them | two arrays, sleepers, reap list, slices, address spaces, current thread | create, publish, yield, sleep, block, wake, tick, kill, exit, reap |
| `Processes` | `sched.zig`, `exec.zig`, `syscall/proc.zig`: threads as parents see them | life, parent, awaited, killed, exit and child queues, child event | spawn, exit, kill, wait for one by pointer or by id, or for any, with or without a deadline; look, sleep, time out; supervise, collect |
| `Ublk` | `ublk.zig`, `syscall/driver.zig`, the server in `user/usbd/volume.zig` and its loop in `main.zig` | volumes and slots, segments held, scan threads, where callers and servers are | attach in its three steps, publish, survey, next, finding none, waiting for the doorbell, done, detach; enter, claim, offer, wait, free, leave; expiry, kill |
| `MixBank` | the voices of `lib/audio.zig`, `vb_mix_*` | per slot the samples, the place in them, gains, looping | operators `Put`, `SetGain`, `Fill`, `Reads` |
| `SoundContract` | what `vibeee.h` promises of a stream | per program whether it has one, frames waiting, made and heard | open, put some, take some, close |
| `SoundService` | `sndd/main.zig` with `audiograph.zig` and the client's requests of `lib/sound.zig` | nodes, owners, links, rings, events, doorbell, engine, fate | create node and port, refuse, link, an opening that fails, drop; doorbell, starting or failing to, period interrupt, a pass one feeder at a time, its tail stored and then its event signalled; wake, quit |
| `SoundPrograms` | `beep.c`, `mixing.c`, Doom's beat, over `vb_sound_*` and `spsc.zig` | where each program is | fill, publish, ring, wait, time out, drain, kill |
| `DoomSound` | the sound module of `doomgeneric_vibeee.c` | sound up, stream open, sounds found, bank | each function the engine may call |
| `VirtualWindow` | `framebuffer.zig`, `vb_window_*`, `vb_display_*`, `vb_key_read`, ownership in `kernel/display.zig` and `input.zig`, the manager's side in `eeewm` | desktop, screen and keyboard owners, queues, window, pixels, keys down | operators for each call; key edge, configure, close request, drop, end of the manager |
| `DoomPort` | `doomgeneric_vibeee.c` on both, and `frames.c` | where port and `frames.c` are, the canvas, keys the engine holds | init, wait for surface, key, draw, sound call, leave, exit; acquire, draw, release |
| `CText` | `string.zig`, `stdlib.zig`, `lib/str.zig` | | operators, beside C's own definition of each answer |
| `CFormat` | `format.zig`, `length.zig`, `decimal.zig` | | layout of fields, rounding, `%g`, scanning, and what C says of each |
| `Heap` | `lib/heap.zig` | pieces, blocks with their marks, holes on bins | operators `alloc`, `free`, `realloc` and the parts of soundness |
| `Stdio`, `PlainFile` | `stdio.zig`, `stream.zig`; what C promises of a stream | disk, buffer, place, pushed byte, flags | operators for each call; the abstract file's steps |
| `Environ` | `env.zig` | list, whether owned, room | operators `getenv`, `setenv`, `putenv`, `unsetenv` |
| `Conform` | `conform.c`, `bigheap.c`, `greet.c` | section, last fact said, environment, heap, file | one action per section, any argument of small sets |

Conventions. One action is one stretch of code between two points where
another thread can run (section 1), so a blocking call is two actions or more:
up to `Block`, and from `Leave` on. A deadline is `none`, `ahead` or `passed`;
`Expire` moves it on and wakes the sleeper, as `wakeSleepers` does. `Kill`
marks a thread and wakes it. What a program may do with the system calls is
left open, in any order, except where a module's heading says otherwise
(`Pipe`: a thread told that its end is ready uses it; one told the other end
has gone stops; `Careless` lifts this). Payloads are left out except the bytes
of a pipe, the frames of a stream and the bytes of a file, which refinements
are about. In the C library a character is a number where its order or class
matters and a name where it does not. `MC*` modules only name constants.

`Scheduler` and `Processes` split `sched.zig` along its two audiences; both
model exit, kill and reaping, each with the state its properties are about.

## 3. Runs

`tlc -config <run>.cfg <module>`; each takes between two seconds and four
minutes on two workers. `conform` ends in the violation it is there to show.

| run | states | shows |
|---|---|---|
| `lock` | 2,587 | two threads are never inside; a free lock that is waited for has the waiter `release` chose on its way, and gets a holder, unless that waiter is killed before it runs |
| `events` | 75,250 | waits that overlap in any order: no sleeper beside more signals than woken threads are coming for, and a timeout only over such signals, unless a thread woken for the event came back without its signal; a signal reaches its waiter, or is taken or left so |
| `pipe` | 54,990 | the ring is a FIFO stream (refinement); the holders of an end are not all asleep while it could go on, and the last close of one end reaches everyone on the other; a blocked call comes back once the other side is gone, or when it can go on and has no rival |
| `channel` | 813,007 | lists and frames name each other and a token answers its own call and no later one; with one slot and two servers, a call there is a slot for is heard unless a server told of it went away; references equal holders through every failure of a transfer, one that is undone after the first of two handles too; a channel that stops being served lets its callers go |
| `sched` | 104,497 | the lists are sound, no runnable or sleeping thread is off them, and what has been freed is on none; deadlines wake and corpses are freed, and every ready thread runs once threads only compute |
| `proc` | 89,019 | the tree has no cycle, waits are for children that are there and not dead, every corpse has a collector, nobody sleeps beside a corpse they asked for, a supervisor hears of the children it spawned, killed processes end, statuses are taken |
| `ublk` | 600,584 | a slot's memory has one user while the server may touch it, area and doorbell are freed when the last user leaves a volume that is gone, neither sooner nor never; an answer is the request's own; nobody waits on a dead volume, a freed slot is taken unless a killed claimer had its wakeup, an offer between the server's look and its wait is heard; everyone gets off a volume that is gone |
| `svc` | 2,181,084 | references equal holders, a name has one entry, a live server is found, a watcher hears of names that come |
| `sound` | 366,542 | every frame is heard once, in order and as written; nobody waits on a side that waits for it, unless a start of the device failed or the machine slept; a stream is what `vibeee.h` says (refinement); while the device interrupts, everyone who asks plays to the end or is refused |
| `doom` | 915,579 | port and `frames.c` draw only into what is theirs; no key stays down that was let go, with two keys that share a name and one that has none; voices read only their lump and only while there is a stream; a close and a dead manager end the game |
| `libc` | 115,167 | every answer of the library over small inputs is C's, except in seven named cases, where it never is; heap and environment are sound after any calls, failed ones included; a buffered stream is a plain file (refinement) |
| `conform` | | violation: `%G`, which `conform.c:112` asks, keeps the zeroes C cuts (item 28 of section 5) |

**Bounds.** Three threads show every race between a waker, a woken thread and a
third that gets there first; the lock has four so that two may still be asleep.
Counts saturate at 2 (`MaxCount`; the code's limit is that of an integer): 0, 1
and "more than one, and full". The pipe holds 3 bytes, so that a message of 4
wraps and blocks half way. The reply table and the volume have one slot for two
callers, so that full, free and reused occur, and the channel two servers to be
told of it; generations wrap after 2 or 3, and the
servers' memory of old tokens is kept below the wrap (`Memory`, `Forgotten`),
which is the assumption the 24 and 14 bit fields of the code make. Two
priorities and two arrays show preemption and the change of epoch. Four
processes give boot, init, a parent and its child, and every order of their
deaths; the ids `sys_wait` is asked for are one of a process that may be
anybody's child, and 0, any. The sound rings hold 2 frames, the depth both programs ask for, with
indices that wrap at 4; streams are longer than that, and the device stops after one quiet period, so
that full, empty, wrapped and stopped all meet. The window's queues hold two
events, so that a close finds one full; at most two of its three keys are down. The C library is asked of every text of
up to three characters over two cases of a letter and a separator, every
numeral of up to four characters into a type of four bits, every mix of flags
with widths and precisions below, at and above the figures, reals with ties and
carries; the heap has four classes, three bins and a memory that runs out, the
stream's buffer two bytes and the disk four, which can be full. Identifiers (threads, channels, processes, segments) are reused as soon
as they are free, which is harsher than the code. There is no symmetry
reduction, since most runs check liveness or have named roles.

Some properties hold up to a behaviour that section 5 describes. Where that can
be told from the state it is a history variable, set by the step that goes wrong
and cleared by the one that makes it good, so that everything else under the same
kills, timeouts and failures is still checked:

- `lostTurn` (`KernelLock`): the waiter `release` chose was killed before it ran;
- `leftBehind` (`KernelEvent`): events a thread was woken for and came back
  without, having another's signal or being ended;
- `missed` (`Channel`): a call still queued that a server was told of and then
  gave up, or whose slot came free without a reply;
- `lostRoom` (`Ublk`): a killed claimer took a wakeup for room with it;
- `engine.down` (`SoundService`): playback after a start that failed or a sleep
  of the machine, until the next start that succeeds;
- `ousted` (`SvcRegistry`): a channel whose entry another's failed registration
  took; `lost` (`VirtualWindow`): releases the window was never sent.

Others are stated of fewer behaviours: `ReferencesBalance` while no client has
been killed (after that references are at least as many), `AnswerIsItsOwn` in
the first attachment, `SupervisorIsTold` without the corpses init adopts. Two
hazards are thus described and not caught, those of items 1 and 13. The pixels
freed twice (item 20) are a value `DrawsIntoItsOwn` lets through, and `sound`
does not mix depths (item 15).

**Deadlock** is checked where the system never stops (`events`, `sched`,
`svc`) and not where programs may end or everyone may rightly wait.

**Fairness.** Weak fairness on what a runnable thread does next inside the
kernel: the scheduler gives every runnable thread the CPU (`EveryoneRuns` is
that promise, checked in `sched`). Weak fairness on `Expire` of
an event's waiter: the clock goes on and `wakeSleepers` looks at every sleeper
(`NothingStaysOwed`). Of a channel nothing is assumed but that a caller who is
runnable runs. A
holder of the lock finishes, because its wait for the medium has a deadline.
`Exit` of a killed process is strongly fair, because the mark is looked at on
every return to user mode, and a process that keeps returning meets it. In
`sound` a program that can run does, and the service answers its requests and its
doorbell. That a device which plays interrupts is a premise of `EveryPlayerEnds`
(`DeviceInterrupts`) and not of the specification. In `doom` the engine's loop
goes round, which polls keys and draws. Nothing
is assumed of what programs do of their own accord: no client calls, no server
answers, nobody reads, nobody is started, killed or put to sleep unless it
happens to.

## 4. Proofs

`tlapm <module>.tla` checks each module of proofs, in minutes (ten for
`UblkProofs`). The theorems hold for every
value of the constants that meets the named assumptions: any set of threads,
events, ends, processes or servers, any capacity, count limit and table size,
any set of threads that may be killed. Only `Pipe` and `Ublk` have theorems
with a hypothesis, which excludes what section 5 describes; that of `Pipe` is
about constants, and `MCPipe` asserts it of the run's.

Every inductive invariant below was an invariant of a TLC run before it was
proved. Each is a conjunction of named parts, and a proof of a step has one
part per action. State records (queues, events) go through lemmas about rigid
values, one per operation; `WaitQueueProofs` holds those of `WaitQueue`: what
`WakeOne`, `WakeAll`, `Block`, `Leave` and `Unblock` do to the type, to who is
on a queue, to who is awake and to what has fired.

**`KernelLockProofs`** (assumes `Killable \subseteq Threads`).

- `TypeCorrect`.
- `MutualExclusionHolds`. `MutualExclusion` is not inductive: a step of
  `HoldLoop` needs to know that the lock is marked held while anybody is
  inside. `InsideMeansHeld` is that strengthening.
- `NoStrandedWaiterHolds`. The invariant is `HandOver`. Its part
  `WaitersAreKnown` says that a waiter has a node on the queue, once, exactly
  while `release` has not chosen it, and is awake once it has been chosen;
  a killed waiter is awake too, with its node still there. Release then chooses
  somebody if anybody waits. The chosen thread enters, or waits behind another
  holder, or answers `error.Ending`; in the last case with the lock free the
  turn is lost (`lostTurn`) until the next `hold` that gets in.

**`KernelEventProofs`** (threads are finite; a count has room for one signal; a
wait names an event once), without hypothesis.

- `BookkeepingHolds`: a thread has a node on exactly the events of its wait
  that have not fired for it, and a thread some event fired for is awake.
- `NoLostWakeupHolds` and `TimeoutIsHonestHolds`, for waits that overlap in any
  way. The invariant adds `SignalsAreCovered`: while a node is on an event that
  is not in `leftBehind`, no more signals are on it than threads were woken by
  it and have not looked yet. Signal adds one to both sides or finds nobody
  queued; a woken thread that looks takes one from both, or comes back without
  it and the event is left behind, which is item 3 of section 5.
  `TimeoutIsHonest` is an action property and follows from the invariant before
  the step.

**`PipeProofs`** (capacity at least one, finitely many threads, each of one end).

- `TypeCorrect`: the ring's places stay inside it, for every size of transfer.
- `ImplementsByteStreamHolds`: the whole refinement, which is a safety
  property. The mapping is the sequence read off the ring; a write appends to
  it and a read takes a prefix, by lemmas on the ring's arithmetic modulo the
  capacity.
- `SomebodyGoesOnHolds`, if `CarefulHolders` (nobody told that an end is ready
  ignores it). The invariant: nodes are once each (`OneNodeEach`) and belong
  to callers of that end (`NodesAreCallers`), who hold it open
  (`CallersAreOpen`); whoever sleeps is queued (`AsleepIsQueued`); an event is
  down while its end cannot go on, and down beside an end that can only if a
  holder took the signal and has yet to use the end (`EventsFollow`); and the
  property itself.
- `NoStrandedEndHolds`, if also at most one holder of an end polls
  (`OnePollerEach`). What it says of the last close relates a state to the
  one before, so the proof carries the step relation `SleepersWereBarred`
  (whoever sleeps after a step slept before it, or cannot go on) beside the
  invariant. With more pollers item 4 of section 5 breaks it.

**`ChannelProofs`** (finite sets of clients, servers and objects; the client that
starts with the objects has room for a handle to each; no client is called `none`,
`ready` or `recv`, the names of the other queues and of a free slot).

- `ListsMatchCallersHolds`, without hypothesis. The invariant `IInv` follows a
  call through its stages. `WaitOK`: a caller is on its record's queue from the
  call to the answer, a server on the list it waits for until that list wakes
  it, and whoever was woken is awake. `ListOK`: a call that is not answered is
  on one list exactly, pending or in flight, and the channel is served.
  `RecordOK`: what a record still holds of its messages at that stage.
  `TokensOK`: remembered tokens have consecutive generations modulo
  `MaxGeneration`, and the last token of a slot in use is the live one. That is
  what keeps an old token from naming a new call when the slot is taken again:
  the tokens remembered are at most `MaxGeneration`, and so many
  consecutive generations are different.
- `ReferencesBalanceHolds`, without hypothesis beyond the one the property
  states (no caller killed). `BalanceOK` counts the holders of an object as four
  cardinalities. Every step that moves a handle moves one member between those
  sets; where a caller was killed, references are at least as many as holders,
  so nothing is freed under a holder in any case.
  Where `deliverHandles` gives up midway, the handles it had installed, the one
  refused and those left are the whole message, each dropped once.
- `CallIsHeardHolds`, without hypothesis, for any number of slots, callers and
  servers. The invariant adds `Hears`, which while no call is `missed` says:
  the ready event is up only beside a queued call; while it is up and a server
  is queued for it a woken one is coming; while it is down beside a queued call
  some server was told and has yet to receive, or is in `recv`; and while a
  server is queued in `recv`, as many are woken there as calls are queued, or as
  slots are free. The last is a disjunction because a full table makes a woken
  server go back to sleep: it is the slot that is announced then, by the reply
  that frees it.

**`SvcRegistryProofs`** (finite sets of servers and clients), without hypothesis.

- `RegistryIsSoundHolds`. The invariant `TableInv` says that a channel's count
  is the number of entries and of processes that refer to it (`Balanced`, two
  cardinalities), that a name has one entry, that a server's channel is served
  until the server itself stops (`ServersServe`) and is nobody else's
  (`OwnChannels`). Each action changes the count by the one member it adds to
  or takes from those two sets.
- `ServedNameIsFoundHolds`, a part of `TableInv`.
- `WatcherHearsOfNamesHolds`, by `WatchInv`: the watcher sleeps only queued and
  on an event that is down, and while the event is down every live name has
  been seen or has a server that has yet to signal.

**`ProcessesProofs`** (init exists, and is not the thread that started it),
without hypothesis.

- `TreeIsSoundHolds`. `TreeInv`: init is the boot thread's child and that
  thread nobody's (`Roots`), a status is kept only for a parent and then the
  scheduler does not collect it (`StatusesAreKept`), a thread in `waitFor` waits
  for a child of its own whose status is kept (`WaitsForItsOwn`), no corpse is
  without a collector, and `NoParentCycle`. That the parent relation
  has no cycle is stated as: every set of processes has a member whose parent
  is outside it, which needs no recursion, and which an adoption keeps because
  it moves children to init only.
- `NobodySleepsInVainHolds` and `SupervisorIsToldHolds`, by `WaitInv`: nodes on
  the queues belong to live waiters and whoever sleeps has one
  (`NodesAreWaiters`), nobody sleeps for a child that is dead,
  asked for by pointer, by id or as any (`NobodySleepsOnACorpse`, by
  `DeadWanted`), and in the supervising loop a count that is down
  has no dead child to tell of (`CountsTell`). Init is left out of the last,
  item 1 of section 5.

**`UblkProofs`** (finitely many callers, none of them a server; slots and
generations at least one; `None` is no area, server or number), if
`AttachesApart`: at no time are two servers inside `attach` with the same index.
The kernel does not see to that (item 10 of section 5). The only server of the
tree does: `usbd` is "one process, one event loop" (`user/usbd/main.zig:3`) and
is inside one `attach` at a time. The hypothesis is about the steps between
choice and record only: any number of servers may come, go, die and come back,
to any volume, with callers of the time before still inside.

The invariant `IInv` is about slots, callers, servers and their queues at once,
because each is what keeps another in order:

- `PlacesOK`, `SlotsOK`: who is on which volume and has which slot, and that a
  slot somebody has is neither free nor abandoned. Two callers never have one
  slot, which needs that no slot is handed back while its caller is not yet
  done with it, by `done`, `freeSlot` or `detach`.
- `UsersOK`, `AreasOK`: the count of users is a cardinality, an area is there
  while a volume is live or used, and no two volumes have the same one. `attach`
  overwrites the whole record, queues included; `NobodyOn` shows that then no
  caller is on the volume and no node on any of its queues, so that nothing is
  overwritten.
- `OwnersOK`, `ScansOK`: a server past `attach` has its volume for as long as it
  serves, and every scan thread had an attachment before it, so within the first
  one a scan finds the device or no live volume.
- `TagsOK`: within the first attachment the tag a server carries names the
  claim it was taken for, and the tag it answered last names a claim that is
  answered or an earlier generation. That the order of generations survives the
  wrap is the assumption `Forgotten` states: a server does not keep an answered
  tag through 16384 claims of its slot.
- `WaitOK`, `SleepOK`: nodes are on the queues the threads' places say, whoever
  sleeps has one, and nobody sleeps on a dead volume, on an answered slot, or on
  a doorbell beside an offer. The last rests on the stretch before the wait: from
  where `next` found nothing on, the doorbell is down only while nothing is
  offered, so an offer made before the wait is found by it. `EverybodyTold` is the case of `detach`, which
  wakes only the slots it changes: a slot it leaves alone is free or answered,
  and no sleeper has either.
- `RoomOK`: while a claimer is queued for room on a volume outside `lostRoom`, no
  more slots are free than claimers have been woken and not yet looked. `freeSlot`
  and `done` add one to both sides, a claimer that looks takes a slot and
  itself away, and one that finds none goes back to sleep when both are zero.
  A woken claimer that is killed takes itself away and leaves the slot, and the
  volume is in `lostRoom` (item 12 of section 5) until its last free slot is taken.

`VolumeIsSoundHolds`, `AnswerIsItsOwnHolds` and `NobodyIsStrandedHolds` follow
from it. That everyone gets off a volume that has gone (`GoneIsLeft`) is
liveness and stays with TLC.

Only model-checked: everything under fairness (`~>`, and the liveness half of
refinements), which is out of the prover's reach; what the folds and recursive
functions of `CText`, `CFormat`, `Heap` and `Stdio` compute, which would need
induction over data, as would the run queues and the sleeper list of
`Scheduler`, whose invariants are about positions in sequences that folds
build; and the invariants of `SoundPrograms`, `DoomPort` and `Conform`, whose
runs bind particular programs to particular constants.

## 5. Where the code and its comments disagree

Met while modelling. They were traced in the models, with the parameter named
where there is one, and the passing runs step around them as section 3 says.

1. `sched.zig:311`: adopting a child that is already dead wakes the adopter's
   `child_exit` queue and does not signal its `child_event`. `308-309`: "init
   has to be told, or it will sit waiting for an exit that happened before the
   adoption"; init's loop waits on the event. (`Processes`, `SupervisorIsTold`
   of adopted children too.)
2. `lock.zig:31`: a waiter killed after `release` woke it leaves `hold` without
   waking the next; a free lock with everyone asleep, until somebody else
   passes by. (`KernelLock`, drop `~lostTurn`.)
3. `event.zig:93, 101-103`: two threads that `waitMany` on overlapping events:
   the one woken for the second may consume the first, and the other sleeps
   beside a signalled event. Programs do wait so: `sys_watch` hands out
   system-wide events (`syscall/core.zig:571-597`) and `user/tools/nc.zig:135-141`
   waits for shared ones beside others. (`KernelEvent`, without `leftBehind`.)
4. `pipe.zig:85` against `71`, with several readers and several writers: the
   one wakeup of a re-armed event may go to a thread that no longer needs it,
   and a reader sleeps on a pipe that has bytes. `42-44` also promises a waiter
   that consumed the count without draining that it "finds it set again";
   `rearm` runs only on a change. (`Pipe`, two of each; `Careless`.)
5. `channel.zig:290`: a caller killed after its answer was written but before
   it ran leaves the answer's handles referenced by nobody (`107-108` names
   exactly this path). (`Channel`, a killable client with objects.)
6. `channel.zig:354` against `312-314`: a reply that frees the last slot wakes
   `recv` and does not refresh `ready`, so a server in `wait_many` is not told
   of the call that was waiting for room; a timed-out call that frees a slot
   (`213`) tells nobody, nor does a server that was told and gives up or is
   killed. (`Channel`, `CallIsHeard` without `missed`.)
7. `sched.zig:545` against `920-921`: the idle thread is queued when preempted,
   and can be chosen before threads of the expired array.
8. `sched.zig:759` against `757-758`: `kill` is to refuse kernel threads and
   tests for an address space no thread has, so it accepts.
9. `ublk.zig:214` against `98-101`: a re-attached volume restarts its
   generations, so an answer from before can pass for a new request's.
   (`Ublk`, `Late` with two `Attachments`.)
10. `ublk.zig:204`: two servers that attach at once may choose the same index;
    two allocations with interrupts on lie between choice and record.
11. `ublk.zig:318`: a scan thread that first runs after a re-attach and before
    its publish unwraps a device that is not there.
12. `ublk.zig:510, 530`: as 2, for the room queue of a volume. (`Ublk`,
    `NobodyIsStranded` without `lostRoom`.)
13. `syscall/ipc.zig:175`: a registration that fails for want of a handle is
    undone by name and may withdraw the server that took the name meanwhile
    (the ghost `ousted` marks it).
14. `svc.zig:62` against `68`: `changed` is "raised whenever a name comes or
    goes", and a death raises nothing.

Sound:

15. `user/sndd/main.zig:558` against `proto/audio.zig:171`: a port slot keeps the
    segment of the first program it was given to. A program that asks for the
    other depth sees the ring at its own size and the service at the old one:
    frames are lost, or written past the segment. (`SoundPrograms` with a Doom
    and a beep in one slot.)
16. `user/sndd/main.zig:278`: after the machine slept the device is opened and
    not started, "a client that wants to go on asks again"; a beep asleep on a
    full ring without a deadline (`beep.c:41`) does not, and waits for ever.
    (`NoStrandedPlayer` without `engine.down`.)
17. `lib/audiograph.zig:100`: nothing drops the node, port and link of a program
    that was killed, and the tables run full.
18. `user/sndd/main.zig:236-240`: the stall watchdog of `232-233` and `302-303`
    never runs. The timeout of `waitMany` comes back as an error, which
    `catch continue` takes, and `woke < 0` is never seen. A device that stops
    interrupting stays so. (`EveryPlayerEnds` without `DeviceInterrupts`.)
19. `user/sndd/main.zig:329`: a start that fails is tried again only at the next
    doorbell or link; a program asleep on a full ring rings none. (As 16.)

Window and Doom:

20. `user/framebuffer.zig:59, 68`: a window closed while it waits for its surface
    runs both `errdefer`s, and the pixels are freed twice. (`pixels = "twice"`.)
21. `user/framebuffer.zig:198`: `waitForSurface` waits without a deadline on the
    manager's ring; a manager that dies first leaves the program there.
22. `user/eeewm/main.zig:515-518`: while Super is held, or the bar has the focus,
    releases are kept from the window that got the press, and the engine holds
    the key until it is pressed again. (The variable `lost`.)
23. `user/proto/client.zig:336`: a commit ignores the status of its reply, so
    `present` succeeds of a window the manager has dropped, which it refuses
    (`eeewm/main.zig:1307`), and the game plays on unseen.
24. `doomgeneric_vibeee.c:65`: `tv_sec * 1000` is computed in the width of
    `tv_sec` before it is made unsigned, and wraps after some weeks.

C library, each with what C says:

25. `libc/stdlib.zig:64-73`: `strtoul` of a number below zero that is too large
    answers 1, not `ULONG_MAX` (`strtoul.below`); `strtol("0x")` reads nothing,
    not the `0` (`strtol.0x`). The names are those of `Departures` in `Conform`.
26. `libc/stdio.zig:327`: `fread` passes over a byte pushed back with `ungetc`;
    `336`: a seek that fails has already discarded the buffer.
27. `libc/stdio.zig:51`: of the streams open at exit only `OPEN_MAX` are known and
    flushed.
28. `libc/format.zig:307`: `%G` trims nothing, since it looks for a small `e`;
    `conform.c:112` asks it, and `docs/status.md:171` says of that program that
    the two "must match exactly" (`%G`, and the run `conform`). `291-302`: `%g`
    takes its exponent from one figure, not from as many as it prints
    (`%g.carry`); `"%.0d"` of 0 prints `0` (`%.0d`); `"%#.3o"` adds a zero to
    one that is there (`%#.2o`).
29. `libc/format.zig:541`: a scan of a lone sign answers as one of nothing
    (`sscanf.sign`); a width does not count the sign, and `%x` does not read a
    `0x`, which no scan of `Conform` has.
30. `libc/env.zig`: `putenv("=x")` is taken.

## 6. Not modelled

Drivers, boot code, page tables and the context switch are hardware layout;
console, log, probing and panic are formatting; ELF loading is a pure
conversion with host tests; third-party code is not the repository's own.
`layout_check.c`, `pin.c`, `inlines.c`, `abi.c`, `lwipopts.h` and the headers
under `include/` hold assertions the compiler settles, declarations and
one-line wrappers; `vibeee.h` is the exception, its promises about sound being
`SoundContract`.

Inside modelled parts: CPU accounting and run-time priority changes of the
scheduler, program loading in `spawn`, message bodies, the transfer of data
through a volume's area; recording, volumes and device discovery of the sound
service, and what a sum of samples comes to; pointer events and scaling of the
window; Doom's clock and its music module, which is empty functions; the picture
`frames.c` paints; of the C library `rand`, mathematics (the section `arithmetic`
of `conform.c`), the value `strtod` returns, what `calloc` clears, `memmove` and
`memcmp`, which are the compiler's. The atomicity of interrupts-off sections is
taken as given, as is that the allocator may fail where the models have a
failing path. The service loop of `sndd` is atomic per event, except where programs
run meanwhile: waking the sinks is a step after the doorbell or the request that
leads to it, and of a pass each feeder's frames, its tail and its signal are steps
of their own.

## 7. Plan

Proofs: `FreedIsForgotten` of `Scheduler`, over an abstraction of its lists as
sets; `NoStrandedPlayer` of `SoundPrograms`.

Models, if more is wanted: `irqevent.zig` (a line is never left masked with a
live owner owing nothing, and never unmasked with a completion owed); references
and mappings of `shm.zig`; the block cache across a re-attach; leases and mounts
of `vfs.zig`; FAT's order of metadata writes around a power cut; init's restarts.
