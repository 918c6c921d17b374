# A TLA+ model of NexaCore OS

NexaCore OS is a microkernel written from scratch in Rust, with drivers, the
network stack, file systems, the service manager, the desktop and the AI runtime
in user space. This project models the parts whose correctness depends on the
order of events (IPC, scheduler and context switch, TLB shootdown, pipes, the
socket relay, TCP, the storage core of the file system, the service manager,
capability tokens), checks them with TLC, and proves the safety of most of them
with TLAPS.

Paths below are relative to `src/`; `K` stands for `crates/nexacore-kernel/src`.

## 1. The system

### Parts that are modelled

| Part | State | Operations | Talks to |
|---|---|---|---|
| IPC registry (`K/ipc.rs`) and its system calls (`K/bare_metal/syscall_entry.rs`) | channels with owner, policy, subjects; per channel a queue, `waiters_send`, `waiters_recv`; `next_id` | create, destroy, send, receive, try-receive, task exit | returns a `WakeAction` that the handler must turn into a scheduler operation |
| Interrupt notification (`K/irq_table.rs`) | vector to channel | `irq_notify` | sends on a driver's channel in the name of `TaskId(0)` |
| Run queues and thermal fairness (`K/scheduling.rs`, `K/thermal.rs`) | six FIFOs, `pick_counter`, thermal band | `enqueue`, `dequeue`, `pick_next`, `set_cpu_temperature` | called from every place that gives up or hands out the CPU |
| Context switch and preemption (`K/scheduling.rs`, `K/bare_metal/{lapic,ap_dispatch,context_switch}.rs`, `K/process.rs`, `K/lib.rs`) | task states, saved contexts, `current`, the guards `in_scheduler` and `SCHED_LOCK` | timer tick, yield, park, unpark, exit, spawn, kmain's input pump, the application processor's tick | the timer interrupts user code and kmain, never a system call |
| TLB shootdown (`K/bare_metal/tlb_shootdown.rs`) | the shared descriptor (range, acknowledgement counter), pending interrupts, the TLBs | `flush_tlb_range`, the handler of an application processor | called by the boot processor after it changes the shared kernel half |
| Pipes and descriptors (`K/pipe.rs`, `K/fd.rs`, `K/syscall_handlers.rs`, `syscall_entry.rs`) | one descriptor table, the rings with their open ends, two cursors | create, read, write, close, dup, dup2 | one table for all processes |
| Socket relay (`net_socket_relay_full` in `syscall_entry.rs`) and the network service loop (`crates/nexacore-net-image/src/main.rs`, `crates/nexacore-net/src/{service,tcp}.rs`) | request and reply channel, `pending_connect`, half-open connections, the connect deadline | call, send loop, receive loop, serve, reply, handshake end, deadline, TCP give-up | all callers share one reply channel; messages carry no caller id |
| TCP (`crates/nexacore-net/src/tcp.rs`) | control block, retransmit queue, receive buffer, listen queue | connect, listen, accept, send, receive, close, segment arrival in every state, retransmission, TIME-WAIT | the peer, over a network that loses, duplicates and reorders |
| NCFS v3 storage core (`crates/nexacore-fs/src/v3/`) | write-back cache, allocation map with reference counts, retention tracker, snapshot table, dual superblock, the device's unflushed writes | write, remove, evict, snapshot, restore, the barrier's steps, mount, TRIM, power failure | the block device |
| Service manager (`crates/nexacore-init/src/{manifest,graph,supervisor}.rs`) | runtimes, order, the host's processes, deadlines | load, start, socket activation, tick (health, restart with backoff), shutdown | the host that spawns, kills and probes |
| Capability tokens (`crates/nexacore-capability/src/`) | tokens with their issuers, the issuers' revocations, local lists with a Bloom filter, published and imported CRLs, the clock | mint, attenuate, revoke, revoke locally, publish, import; verification as an operator | issuer and verifying nodes |

What makes these parts hard: a handler parks in the middle of a loop and resumes
after anything may have happened; wake-ups are handed out one at a time while
third tasks compete for the same message; the timer tail releases its guards only
when the preempted task comes back; an acknowledgement, an answer or a segment
arrives after its sender was given up; power fails between any two commands of a
commit, and the commands that did not reach the medium may be reordered or torn;
processes die while the manager starts or stops others; revocation lists arrive
late and out of order.

What makes them correct:

- IPC: a wait queue names exactly the tasks parked on it; no wake-up is lost; a
  retry never reaches a channel other than the one the task parked on; depth and
  quotas hold; a message on an authenticated channel comes from its subject.
- Scheduler: each class waits a bounded number of picks; a runnable task has
  exactly one place; the guards are released by the one who owes the release;
  what `current` says is what the CPU executes.
- TLB shootdown: when a call reports completion no processor has an old entry.
- Pipes: the stream is delivered in order and every byte that is missing was
  reported, an open end always has a descriptor that can close it.
- Relay: as many answers are under way as callers wait; nobody sleeps next to an
  answer he could take; a deferred answer keeps its own handshake.
- TCP: what is read is a prefix of what was written; a byte that was accepted and
  not acknowledged is still queued; both sides agree on the end of a stream.
- NCFS: a commit happens entirely or not at all, whatever fails; a block that
  anything still refers to is neither reused nor trimmed.
- Service manager: prerequisites first, dependents stopped first, no process
  outside the manager's knowledge, nothing started after shutdown, crashes
  repaired with the promised delay.
- Capabilities: delegation only narrows; the lists of a token's own issuer make
  its revocation take effect in bounded time.

### Parts that are not modelled

`PROJECT.json` lists every part with the reason. The repository has some 370 000
lines; the modelled parts are the ones that keep state over several steps of
several actors. Page tables, start-up code, register access, rendering, codecs,
parsers and command-line programs are hardware or pure input and output;
cryptography is external; the rest is planned (section 7).

## 2. Modules

| Module | Models | Used by |
|---|---|---|
| `Ipc` | registry, IPC system calls, `irq_notify`, task exit | `IpcProofs`, `MC_Ipc` |
| `RunQueues` | the run queues and `pick_next` as operators | `Fairness`, `Dispatch` |
| `Fairness` | how long a class waits, whatever the tasks do | `SchedulerProofs`, `MC_Fairness` |
| `Dispatch` | who executes on the boot processor, and the guards | `SchedulerProofs`, `MC_Dispatch` |
| `TlbShootdown` | the shootdown protocol, access by access | `TlbShootdownProofs`, `MC_TlbShootdown` |
| `FdTable` | the descriptor table as operators | `Pipes` |
| `Pipes` | rings, registry and the descriptor system calls | `PipesProofs`, `MC_Pipes` |
| `SocketRelay` | socket calls, the service loop, the deferred connect | `NetworkProofs`, `MC_SocketRelay` |
| `Tcp` | one connection between two hosts | `NetworkProofs`, `MC_Tcp` |
| `AtomicVolume` | abstract: what a volume promises its user | `Ncfs` (refinement) |
| `Ncfs` | the storage core of NCFS v3 over a failing device | `NcfsProofs`, `MC_Ncfs` |
| `Supervisor` | the service manager and its host | `SupervisorProofs`, `MC_Supervisor` |
| `Capability` | tokens, chains, revocation | `CapabilityProofs`, `MC_Capability` |

`MC_X` gives the constants of `X` small values. In a module with properties, a
definition `X_Something` marked "Mutant" is a plausible wrong version of `X`, used
to see that a property notices it; no specification refers to it.

### Ipc

One action per system call. The kernel runs a system call with interrupts masked
until it returns or parks, so one step is one pass of the handler's loop:
`IpcSend` and `IpcReceive` are first passes, `IpcSendRetry` and
`IpcReceiveRetry` the pass after a wake-up. `calls[t]` is what a parked handler
keeps on its kernel stack. A request the handler refuses without changing the
registry is a stutter and has no action. Payload bytes are model values, a
capability token is the principal it names. The scheduler is abstract: a
`Runnable` task may step at any time. `IrqChannels` are the ids a driver has
bound to an interrupt; the binding is taken to exist from the channel's creation.

### RunQueues and Fairness

`PickClass` is `pick_next`: the RealTime bypass, the slot of the cycle, strict
order. The `u64` counter is kept modulo 8, the cycle length, which divides 2^64.
`Fairness` lets tasks come, go and be picked in any order and adds the history
variable `waited`, which counts the picks of the rotation that passed a queue's
front over. `set_cpu_temperature` has no caller outside the tests yet; the model
calls it at any time.

### Dispatch

`current` is the scheduler's idea, `cpu` what executes. `context[t]` is what the
saved stack pointer leads to: nothing, the entry trampoline, the tail of a timer
tick, or a call. `SwitchTo` models what the task that resumes does with the
guards: the tail of a tick releases them, anything else inherits them.

It also models the interrupt flag. `context_switch` leaves it alone, so a task
that called `yield_current` goes on with the flag of whoever switched to it.
Kmain runs with interrupts on, and a handler that kmain's yield resumes does too:
`loose` are the tasks whose kernel code is in that state. For them a yield is two
steps (`LooseYield`, `LooseSwitch`), for a masked caller one. Kmain's spawn of a
boot image is two steps as well (`KmainRegister`, `KmainAttach`). A tick may land
anywhere interrupts are on. `torn` is a history variable with two causes: a tick
entered the scheduler between the halves of a yield, or a process was picked that
kmain had registered and not attached. What a torn scheduler does next depends on
`&mut` aliasing and is not followed (`AfterTorn`).

The application processor only takes and drops `SCHED_LOCK`; the rest of
`kernel_ap_dispatch_observe` (`ap_dispatch.rs` 120-149) picks from its own queue,
on which nothing is placed after the boot smoke tests. The `mb12-userprobe` build, in
which kmain terminates itself, is not modelled. Kmain never blocks, so the idle
task never runs. Of the pump's body only its yield is modelled, not the polling
of the keyboard.

### TlbShootdown

Every access to the shared descriptor is a step, on both sides, in program order.
The initiator writes the range, resets the counter, sends, polls, and may give up
at any poll. A handler may run at any time after the interrupt became pending, so
also after the initiator gave up and while the next call is writing the
descriptor. A TLB entry is absent, fresh or stale; processors load entries at any
time. `quiet` and `gaveUp` are history variables: whether the processors were
idle when the counter was reset, and whether any call ever gave up.

### FdTable and Pipes

A system call is one step. A byte is its position in the stream of its pipe, so
order, loss and duplication are visible. `LastFd` stands for `u32::MAX`. The
cursor of `open` saturates there, and the failure of a creation half way through
(one number left, two needed) is part of `PipeCreate`. A read drains the ring
before it copies the bytes to the caller (`syscall_entry.rs:4999`, `:5003`), so
`CopiedOut` has two outcomes: the bytes are given to the reader, or the copy
answers EFAULT and they are gone. `given` and `lost` keep what went where. The
parking lists of a ring are not modelled: no system call uses them.

### SocketRelay

Sending the request and the first look at the reply channel are one step (masked
system call). A request carries caller and number so that properties can tell
requests apart; no guard looks at them, as no code does. `outbox` is the answer
the service is blocked on sending. The service encodes an answer into 4096 bytes
and sends nothing when it does not fit (`main.rs:1327`): `ServeOversized`. The
relay lets a receive ask for 4096 bytes of data (`syscall_entry.rs:4085`), which
with its header is too much. `leftover` and `unanswered` are history variables:
the deadlines that passed, and the answers that did not fit. The channels use the `Block` policy; that the registry
loses no wake-up is shown in `Ipc`, so a woken sender is modelled by its guard.
TCP is reduced to the set of connections in SynSent. Closing a socket in SynSent
leaves its control block, so it is no step here. The NIC driver is taken to be up,
and no task closes the handle another task is connecting.

### Tcp

The network is the set of segments ever sent: a segment never delivered is lost,
one delivered twice is duplicated, and the order is free. One action per table
operation and one per state a segment is handled in. Sequence arithmetic wraps at
`SeqMod`, compared through half the circle as the code does. Clocks are
abstracted: a queued segment or a TIME-WAIT may expire at any tick. Windows, round
trip and congestion control are kept by the code and not consulted by `send`, so
they are left out. `Junk` is the packet of a SYN, which the code queues and
resends as payload.

### AtomicVolume and Ncfs

`AtomicVolume` has the acknowledged contents, the open contents, and the contents
whose commit was attempted; a crash moves to one of them, and an object of the
open contents may be lost (`Lose`). `Ncfs` is the code: a dirty block is in the
cache; the commit writes dirty blocks, flushes, writes the other superblock slot,
flushes; each is a step, each may fail. The device keeps the set of values an
unflushed block may have after a power failure, torn included. Mount takes the
newest slot that authenticates, slot A on a tie. That the Merkle root over the
mounted volume verifies, that is, that no block the superblock refers to was
torn, reused or trimmed, is a property and no guard.

Reads and writes evict. `EvictToCapacity` is the eviction that succeeds,
`EvictionRefused` the one whose device write is refused: the victim has left the
entries already (`cache.rs:154`), the call returns the error, and the block is in
the history variable `lost` until it is written anew. `ReadRefused` and
`WriteRefused` are the two calls that can meet it. Any block but the one just
touched may be the victim, which covers every least-recently-used order.

What the file system above does is no code of this crate's core, and follows the
format's specification:

- copy on write: new block, write, release the old one through the retention
  tracker; a write that returned an error is given up and its block freed;
- a block keeps its count until the tracker releases it (`AllocMap::decref` alone
  would drop the last reference to 0 at once);
- `SnapshotTable::take`, `delete` and `clone_from` only change the table or return
  the root: the `incref` and `decref` that go with them are the caller's, and a
  snapshot of a commit takes the blocks that were released since back from the
  tracker. One snapshot id is modelled, with the refusal of an id that exists;
  names are valid.

A superblock carries its tree, snapshot and counts by value. In the code it
carries block indices; the allocation map's is fixed (`mkfs.rs:41`). The blocks
of those structures are copy-on-write objects like the ones modelled. `Ncfs` maps
its variables to those of `AtomicVolume` and `CommitsAreAtomic` says that it
implements it.

### Supervisor

Load, validation, Kahn's algorithm with its name order, start, activation, tick,
shutdown. Starting and stopping take one service per step, because processes die
in between; `tick` handles each service independently of the others and is one
step. Deadlines are kept as the time left. `owned` and `lost` tell a process that
the manager's pid names from one that nobody names any more. The host may refuse
a spawn or a socket. The graph is an initial choice: every graph is tried, cycles
and self-loops included. Of `ServiceManifest::validate` only the refusal of a
self-dependency is modelled: dependencies are sets, so none is listed twice, and
commands, backoff and health intervals are constants, valid in the run (the proofs
do not need it).

### Capability

Signatures are taken to work: a token is one that `mint` or `attenuate` produced,
a CRL one that the key named in it signed. Any key may sign either, with any list
and any `next_update`. `check_capability` checks the list's signature under the
key in the list (`enforcement.rs:97`) and never compares that key with the
token's issuer, and neither does `Honours`. `Revoke` is the decision of a token's
issuer; `signed` and `known` of a list are history, when it was signed and what
had been revoked by then, so that `Proper` can tell a list that is complete for
its issuer and not dated too far ahead. Resource patterns keep their structure (path
components and a wildcard, host and port, base and length), because the subset
relation is about it; `Matches` says independently which requests a pattern
matches. The Bloom filter is modelled with its bits, its hash functions being a
constant. Both verifications, `verify_full` and `check_capability`, are operators
that the properties apply to every token, node and moment.

## 3. Runs

| Run | Instance | Shows |
|---|---|---|
| `ipc` | 3 tasks, 2 principals, 2 channel ids (the second bound to an interrupt), one live at a time, depth 0, 1 and 2, every policy | `CallsStayValid`, `WaitersAreParked`, `NoLostWakeup`: wait queues, run states and queued messages agree whatever a third task steals; `WaitersProgress`: parked tasks move on |
| `fairness` | 6 tasks in 5 classes, readings 69, 70, 84, 85, 95 | `WaitBounded`, `BackgroundWaitBounded` through every change of band; `NoStarvation` |
| `dispatch` | kmain, idle, a System, an Interactive and a Background process, an application processor | `RunQueueExact`, `LockHandover`: queues, states, `current` and guards agree; `TickHandsOver`: a tick hands over while the guards are free; all three until the scheduler is torn |
| `tlb` | 2 application processors, 2 pages, full flush above 1 page, 2 calls | `CompleteIsTrue`: a complete report is true if the processors were quiet; `NothingStaleBetweenCalls`: they are until a call gives up; `LastCallReachesAll`: the last range is flushed everywhere in the end, after a timeout too |
| `pipes` | 6 numbers, capacity 2, 2 pipes, 3 bytes each | `EndsMatchDescriptors`; `StreamInOrder`, with reads whose copy fails |
| `socket` | 3 callers, depth 1, deadlines may pass, one answer may not fit | `AnswersMatch`, `PendingIsHalfOpen`; `OutstandingCallsReturn` when no deadline passed and every answer fitted |
| `tcp` | 2 hosts, the client's numbers wrap with its first byte, one retransmission, backlog 1 | `StreamIsPrefix`, `NothingForgotten`, `HalfCloseAgreed`, `RetransmissionEnds` under any loss, duplication and reordering |
| `ncfs` | 2 inodes, 3 object blocks, cache of 2, retention window 2, 3 writes, 2 failures | `CommitsAreAtomic`: the code implements `AtomicVolume`; `MountRecovers`, `CountsCoverHolders`, `NoBufferedWriteLost` |
| `supervisor` | 3 services, all 512 graphs, three policies, one socket, one health check, one refusal | `OrderIsTopological`, `NoProcessLost`, `DependentsStopFirst`, `ShutdownIsFinal`, `BackoffIsExponential`, `CrashIsRepaired` |
| `capability` | 1 node, 2 keys, 3 scopes, 2 caveats, up to 3 tokens and 2 lists, 4 of tokens, lists and revocations together | `SubsetIsSound` over 71 patterns, `ChainNeverWidens`, `NotAfterAncestors`, `RevocationTakesEffect`, `LocalRevocationHolds` |
| `ipc_irq_lost_wakeup` | one channel, bound to an interrupt | violation: the driver woken by an interrupt is never enqueued |
| `dispatch_hog` | two processes | violation: a task that inherits the guards is never preempted |

Each violation run has a finding in `PROJECT.json` that quotes what the
repository says and where.

### Bounds

- `ipc`: three tasks are what a lost wake-up needs: one asleep, one that wakes it,
  one that steals in between. Two ids are what reuse needs: a task still inside a
  call on the first while the second lives. Depth 1 is always full or empty, depth
  2 has a middle, depth 0 is refused. `MaxChannelsTotal` is 1 and reached.
- `fairness`: one task in each class and two in System, the class strict order
  prefers. `WaitCap` lies above every bound and only stops the history variable.
  Readings stand on both sides of 70 and 85 degrees and on 95.
- `tlb`: two processors let one acknowledge late while the other has not started;
  two calls are what a late acknowledgement needs; ranges of one and two pages are
  below and above `SHOOTDOWN_MAX_PAGES`.
- `pipes`: three numbers beyond the console's let the first creation succeed and
  the second run out half way; capacity 2 with 3 bytes wraps the ring and fills it.
- `socket`: with depth 1 and three callers one request is served, one queued and
  one caller finds the channel full, with no deadline passed. One answer that does
  not fit is enough to leave a caller behind. `Numbers` is 1; only counts matter.
- `tcp`: two bytes in two segments can be reordered and acknowledged separately;
  30 of 32 makes the first byte's number wrap; one retransmission is below and at
  the limit; a second initial number lets the server answer a stale SYN after its
  first connection. The branch of
  SYN-SENT that answers a wrong acknowledgement with a reset is not reached by
  this instance.
- `ncfs`: three object blocks are one more than the two inodes need, so a
  replacement exists and the next must come from the retention tracker; a cache of
  two evicts dirty blocks; three generations use each slot twice; with two
  failures the second hits the recovery from the first, and a refused eviction can be
  committed as a hole and then meet a power failure. Inodes are symmetric.
- `supervisor`: three services give chains, forks, joins and every cycle. Delays
  reach the maximum at the second restart, and the counter saturates.
- `capability`: three tokens are a chain of two links, over ranges of which one
  lies in the others; one node suffices because nodes do not influence each other.
  `MaxEvents` is shared: a run may have three tokens and a list, or one token that is
  revoked and two lists of different keys, contents and lifetimes, either of which
  may be imported after the other. Keys are symmetric.

Deadlock is checked where the system must always have a step: `fairness`,
`dispatch`, `pipes`. Elsewhere it may stop: every task parked or gone, the last
call made, the connection closed, the manager shut down, the bounds used up.

### Fairness assumptions

- `Ipc`: a woken task makes its next pass. The run queues serve it (shown in
  `Fairness`). No task is obliged to start a system call.
- `Fairness`: `pick_next` is called again and again, by every tick, yield, block.
- `Dispatch`: the timer is periodic; kmain does not stop inside a spawn or the
  pump. User processes owe nothing. `TickHandsOver` also assumes that the
  application processor stays out of the lock from some point on: weak fairness
  does not exclude that its ticks coincide with ours for ever.
- `TlbShootdown`: the initiator goes on (its poll is bounded), and an application
  processor takes a pending interrupt and finishes the handler.
- `SocketRelay`: the service loop never stops polling, a woken caller is
  dispatched, every handshake ends, if only when TCP gives up.
- `Tcp`: the service's poll resends the front of a non-empty queue when its timer
  runs out. The network owes nothing.
- `Supervisor`: the main loop goes on calling `tick`, and the start and shutdown
  loops go on. The host refuses finitely often; processes owe nothing.
- `Ncfs`, `Pipes` and `Capability` state no liveness and assume no fairness.

## 4. Proofs

All for every value of the constants that the named assumptions admit.

| Theorem | Says |
|---|---|
| `IpcProofs!TypeCorrect` | `TypeOK` |
| `IpcProofs!CallsValid` | `CallsStayValid` |
| `IpcProofs!RegistrySafe` | `WaitersAreParked`, queue depth and authenticated senders, interrupts included |
| `IpcProofs!NoLostWakeups` | `NoLostWakeup`, on channels no interrupt is bound to |
| `SchedulerProofs!RotationBoundsWait` | `WaitBounded`: 2, 4 and 7 picks, any temperatures |
| `SchedulerProofs!CoolCpuServesBackground` | `BackgroundWaitBounded`: 7 picks from the moment the CPU is cool |
| `SchedulerProofs!QueuesExact`, `GuardsHandedOver`, `TypeCorrect` | `RunQueueExact`, `LockHandover`, `TypeOK` of `Dispatch`, ticks in every place where interrupts are on included |
| `TlbShootdownProofs!ReportIsTrue`, `CalmUntilGivenUp`, `TypeCorrect` | `CompleteIsTrue`, `NothingStaleBetweenCalls`, `TypeOK` |
| `PipesProofs!EndsAccounted`, `StreamOrdered`, `TypeCorrect` | `EndsMatchDescriptors`, `StreamInOrder`, `TypeOK` |
| `NetworkProofs!DeferredAnswerReleased` | `PendingIsHalfOpen` |
| `NetworkProofs!AnswersMatchCallers` | `AnswersMatch` |
| `NetworkProofs!StreamPrefix`, `NothingLost`, `HalfClose`, `TcpTypeCorrect` | `StreamIsPrefix`, `NothingForgotten`, `HalfCloseAgreed`, `TcpType` of `Tcp` |
| `CapabilityProofs!SubsetSound`, `ChainSafety`, `RevocationEffective`, `LocalRevocation`, `TypeCorrect` | `SubsetIsSound`, `ChainNeverWidens`, `NotAfterAncestors`, `RevocationTakesEffect`, `LocalRevocationHolds`, `TypeOK` |
| `SupervisorProofs!OrderTopological`, `ProcessesKnown`, `DependentsFirst`, `ShutdownFinal`, `BackoffExponential`, `TypeCorrect` | `OrderIsTopological`, `NoProcessLost`, `DependentsStopFirst`, `ShutdownIsFinal`, `BackoffIsExponential`, `TypeOK` |
| `NcfsProofs!MountAlwaysRecovers`, `CountsCover`, `BufferedWritesKept`, `TypeCorrect` | `MountRecovers`, `CountsCoverHolders`, `NoBufferedWriteLost`, `TypeOK` |
| `NcfsProofs!CommitsAtomic` | `CommitsAreAtomic`: `Ncfs` implements `AtomicVolume` |

**IPC.** `NextIsPrimitive` first reduces the actions to a handful of primitive
steps (error return, park in send, park in receive, send done, receive done,
create, destroy, interrupt, exit). The invariant `Safety` joins the types with the
safety properties: that a wait queue names a task once and only while it is
parked needs to know that the call of a parked task stays valid and that nobody is
on two wait queues (`OneWaitQueue`). `Wakeups` adds the accounting of messages
against woken receivers and of free places against woken senders. It is inductive
because one push releases exactly the longest waiting receiver; `NoSentinel`, that
no interrupt put `TaskId(0)` on such a channel, is what fails on a channel bound
to an interrupt. Assumed: finitely many tasks, `TaskId(0)` is no user task, `None`
is no principal.

**Fairness.** A bound such as "at most 4" is not inductive: it does not say when
the next slot comes. `Rotation` sharpens it by the position in the cycle
(`SinceInteractive(k)` is the distance from the last Interactive slot).
`CommonSlots` is the fact about the thermal cycles that makes it work: the slots
0, 3, 6 (strict order), 2, 5 (Interactive) and 4 (AiInference) are the same in
every band. `CoolRotation` adds that on a cool CPU Background has waited no longer
than the position in the cycle.

**Dispatch.** `DInv` is the types and, until the schedule is torn, `Sound`: the
queues hold exactly the Runnable tasks, once each and in the queue of their class
(`Fits`); the executing task is `current` and the only one Running, or it is loose
and between the halves of a yield (`RunnerOk`); what kmain's position implies
about it (`KmainOk`); whoever may be picked has a process to start from or a
context to resume, but for the one process that kmain is about to attach
(`Framed`); and the hand-over of the guards. The lemmas on `PickClass` show that it
never picks an empty queue as long as any queue has a task, so that a switch always
has a target of the right state. That a step does not tear the schedule is no
assumption: the lemma on the pick says which picks do. Assumed: kmain is System,
the idle task alone is Idle.

**TLB shootdown.** What makes a true report provable is that while a call polls
that found everybody quiet, the counter equals the number of processors that
neither have the interrupt pending nor are in the handler (`Polling`, `Done`), and
that these have no stale entry of the range. The counter alone does not say whose
acknowledgements it counts; `Prepared` and `Calm` say when none of an earlier call
can come. Assumed: finitely many processors.

**Pipes.** `PipesInv` joins types, stream and ends with `Unused`: an id that was
not handed out yet has no ring, and a pipe without a ring never carried a byte. So
a new ring starts a new stream, and a creation that fails half way leaves neither
a descriptor nor an end behind. The stream has two parts: `RingInOrder` says what
lies in the ring, `HandedOut` that what was drained was given or lost, never both
and in order.

**Socket relay.** `Relay` says that `receivers` names each parked caller once.
`Balanced` adds the two counts and `DeadlineArmed`: each action moves one request
from one place to the next, an expired deadline alone adds one and an answer that
does not fit alone takes one away. The proof goes
through `OnTheWay`, the requests that have still to become a queued answer.
Assumed: finitely many callers, positive depth.

**Capabilities.** The subset relation is proved against `Matches` kind by kind.
`ChainNeverWidens` speaks of a parent and a grandparent; `LinkNarrows` proves one
link and `ChainNarrows` joins two, the step by which longer chains would follow.
`Numbered` keeps identifiers fresh. `CrlsDated` relates when a list was signed to
what was known then: a list signed without knowledge of a revocation is older than
it. A proper list of the token's issuer that is in use and lacks the token was
therefore signed before the revocation, and ends its life in time. Nothing is
assumed of the other lists. `Filtered` is the Bloom filter's invariant: the bits
of every member are set.

**Service manager.** Two parts. The first is about the algorithms. A recursive
function is handled through the equation it satisfies (`DelayLaw`, `PowerLaw`,
`KahnLaw`), whose solution is shown to exist up to each length; induction is taken
from the well-foundedness of the naturals, with the statement to prove as a set
(`LeastElement`, `IntervalInduction`). `KahnInv` is the invariant of Kahn's loop: a
degree counts the prerequisites that are not placed, `ready` are the unplaced
services with none, what is placed comes once and after its prerequisites, and
once the loop runs dry it stays dry. A loop that ends short therefore leaves a set of
services each of which waits for another of the set, and a graph without such a
set is ordered completely. The second part is the state machine.
`SupInv` adds to types, order and `NoProcessLost` where the loops of `start_all` and
`shutdown` stand (`Progress`): what lies ahead of `start_all` is still `Pending`,
what lies behind `shutdown` is `Stopped` or `Failed`, and only that is
`Stopped`. That dependents stop first follows because a dependent stands later in
the order, hence was passed before. Assumed: `MaxMs <= TimeMax`, that is, the
configured maximum fits the integer type the delay saturates at.

**NCFS.** None of the properties is inductive: they speak of blocks the medium may
show after a failure, and the invariant has to say what the unflushed commands can
do. `NcfsInv` has, besides the types:

- `MapInv`: counts cover holders, a released block is held by no tree, and no
  two inodes of a tree share a block;
- `CacheInv`: dirty entries are queued, clean ones agree with the device, a held
  block shows an object unless it was lost, no block of a snapshot is dirty, and past
  the barrier (`pc` in `slot`, `slotflush`, `root`) nothing is unwritten;
- `SlotInv`: one slot holds the superblock the volume stands on, flushed; the other
  holds older ones, or attempts at the next generation, all of them `Sound` (their
  counts cover their trees);
- `SecuredInv`: every block of the standing superblock *and of every attempt that
  a slot may hold* is counted, is not released to reuse before the next commit, and
  has its contents on the medium, unless it was lost before it was committed;
- `DownInv`: while the power is off, the newest slot is at least at the
  acknowledged generation and its blocks are intact but for lost ones.

The attempts are what makes it work: a superblock write that failed, or was not
flushed, may still turn up after the next power failure, so its blocks must stay
safe until a later commit has overwritten the slot. The invariant was checked with
TLC on the instance of `ncfs` before it was proved.

The refinement maps the volume's acknowledged contents to what the standing
superblock shows on the medium, its open contents to what the open tree shows
through the cache, and its attempts to the superblocks in the slots; a lost block
shows as `Hole`:

| Step of `Ncfs` | Step of `AtomicVolume` |
|---|---|
| `WriteObject`, `RemoveObject` | `Change` |
| `ReadRefused`, `WriteRefused` | `Lose`, or none if the victim is no block of the open tree |
| `TakeSnapshot`, `DeleteSnapshot`, `CloneFrom` | `Retain`, `DropSnap`, `Restore` |
| `WriteSlot` | `Attempt` |
| `Barrier`, `FlushSlot` | `Narrow`, or none |
| `CommitRoot` | `Acknowledge` |
| `Crash` | `Crash` |
| reads with their evictions, write-back, TRIM, reuse, failed commands, `Mount` | none |

Each row is a lemma (`WriteObjectIsChange` and so on), from `NcfsInv` before and after
the step. Assumed: positive cache size, retention window and generation bound; the
markers for absent things are no objects, blocks or trees.

**TCP.** The properties speak of two control blocks and the invariant must speak of
every segment ever sent, since any of them may still arrive. `TcpInv` gives every
sequence number a place: `At(h, j, k)` is the number of byte k + 1 of host h, where
j says which of the initial numbers the server has drawn is the one the client
synchronised with. Before that (`Unsynced`) the network holds handshake segments,
resets and resent SYN packets only. From then on (`SyncedOn(j)`) every segment is
one of those or belongs to stream j (`IsOpen`): its payload is the bytes at its
place, and it acknowledges no more than has reached the buffer of its sender's
host. Of a synchronised control block:

- `GoodIn`: what it received is bytes 1, 2, ... and rcv_nxt the place after them;
- `GoodOut`: snd_nxt is the place after what was written, snd_una is before it;
- `GoodQueue`: the queue holds every byte that has not reached the peer;
- `GoodAcks`: the host never acknowledged more than this block has taken, which a
  FIN in flight or a block since reset could otherwise break;
- `GoodFin`: in FIN_WAIT_2 there was an acknowledgement of the FIN.

`StreamIsPrefix` is `GoodIn`, `NothingForgotten` is `GoodQueue`. `HalfCloseAgreed`
takes them together: the acknowledgement that FIN_WAIT_2 was entered on names a
place beyond the stream, a peer in ESTABLISHED acknowledged only places in it, and
places are different numbers. The rest of the invariant is about connections aside:
a stale SYN makes the server draw another number and open half a connection, over
one that waits in the backlog or was reset, and only the number tells its last
acknowledgement from one of stream j. The step is one lemma per action
(`SendSynced`, `EstablishedSynced`, ...), each resting on `HostStep`: a host that
keeps its own block good and sends segments of the stream, or resets, leaves its
peer good.

The invariant needs `NumbersAssumption`: streams are shorter than half the sequence
space (`seq_lt` means nothing beyond); the server's stream does not reach the first
number of another of its draws; and it stays clear of 0, which a SYN resent from
SYN_SENT carries as its acknowledgement. With the code's numbers (`tcp.rs:538`,
`tcp.rs:966`: 0x0100_0001, then steps of 0x0001_5EED) that holds for 89 000 bytes
from the server and tens of thousands of connections. Beyond it the code relies on
no stale segment being around; the model never forgets one.

Only model-checked: all liveness, which is outside the prover's reach
(`WaitersProgress`, `NoStarvation`, `TickHandsOver`, `LastCallReachesAll`,
`OutstandingCallsReturn`, `RetransmissionEnds`, `CrashIsRepaired`). Every safety
property that a passing run checks has a theorem.

## 5. What the checks brought to light

With a violation run:

- *Wake-ups from interrupts* (`K/irq_table.rs:487`). `irq_notify` discards the
  `WakeAction`. A driver that uses the blocking receive on its IRQ channel sleeps
  for ever once an interrupt took it off the wait queue. Drivers that poll are not
  affected.
- *Inherited guards* (`K/bare_metal/lapic.rs:812`). After a tick switched from A
  to B, ticks are turned away until A runs again: a B that only computes is not
  preempted.

Met while modelling, and either excluded by a bound or assumption that says so or
part of what the properties allow:

- IPC: on a full `Block` channel `irq_notify` puts `TaskId(0)` in line with real
  senders, and its turn wakes nobody. Destroying a channel wakes nobody, although
  the registry hands that duty to the handler (`K/ipc.rs:478`).
- Dispatch: kmain's boot spawns run with interrupts on between the run queue entry
  and the PCB (`K/process.rs:360`), and its `yield_current` is neither masked nor
  guarded (`K/lib.rs:3098`), although the context switch asks to be called with
  interrupts disabled (`K/bare_metal/context_switch.rs:84`); a handler that it
  resumes runs with interrupts on too. A tick inside such a yield, or a pick of the
  unattached process, tears the scheduler. `RunQueueExact` and `LockHandover` hold
  up to that moment and say that nothing else breaks them.
- Fairness: on a warm CPU Background has no slot in the cycle; it is promised its
  turn only while the CPU is cool.
- TLB: an acknowledgement that arrives after the initiator gave up is counted for
  the next call, whose report may then be false (`quiet` excludes it). The one
  caller ignores the report.
- Relay: the backstop answers a connect without clearing `pending_connect`, so its
  handshake answers once more and every later answer is shifted by one; 2 * depth
  + 1 of them stop service and caller. `leftover` accounts for them. An answer that
  does not fit the service's buffer is dropped and its caller waits for ever, or
  until it takes another caller's answer (`unanswered`).
- Descriptors: a read whose copy to the caller fails answers EFAULT after it has
  drained the ring; the bytes are gone (`lost`). Once the cursor of `open` has
  saturated at the last number (`K/fd.rs:416`), that number is reissued after a close.
- Pipes: an end is one flag and duplicates are not counted, so closing one
  descriptor closes the end for all; the other duplicates may still write, and a
  reader that saw end-of-file may get data later (`K/pipe.rs:224`). Empty and end-of-file both read as
  zero; rings are never removed from the registry; dup2 onto a pipe descriptor
  from a number that is not open still closes that pipe's end.
- TCP: a FIN is taken although data before it is missing (`tcp.rs:1102`); a SYN is
  resent as payload, SYN-ACK and FIN are never resent; data for a connection that
  waits in the backlog is answered with a reset; duplicates are not acknowledged
  again. `StreamIsPrefix` speaks of what is read, not of what is still missing.
- NCFS: eviction takes a dirty victim out of the cache before its write has
  succeeded, so a refused write loses it, although `cache.rs:13` says that no
  buffered write is ever lost; the next commit then acknowledges a tree with a hole
  (three writes, a read whose eviction is refused, a commit). `lost` names the
  blocks, and `MountRecovers`, `NoBufferedWriteLost` and `CommitsAreAtomic` say that
  nothing else is ever missing. Formatting commits without the barrier; the
  retention tracker is not persisted, so blocks it held leak at a restart.
- Service manager: `restart_count` is never reset; a restart does not look at the
  prerequisites; a service armed for its socket counts as started.
- Capabilities: `check_capability` accepts a list signed by any key, so a fresh list
  of another issuer lets a revoked token pass (`crates/nexacore-capability/src/enforcement.rs:97`);
  `RevocationTakesEffect` promises the bound only for proper lists of the token's own
  issuer. Nothing reads a list's `issued_at`. The kernel verifies tokens against a revocation list that is
  always empty; the model is about the crate, which takes the list as an argument.

## 6. Running the checks

`tlc -config MC_Ipc.cfg MC_Ipc` and so on for the other configurations (the run
names and files are in `PROJECT.json`); `tlapm IpcProofs.tla` and so on for the
eight proof modules. The largest runs, `ncfs` and `capability`, have more than a
million states; every run takes a few minutes at most.

## 7. Plan

Done: the kernel core (IPC, run queues and fairness, dispatch, socket relay), then
TLB shootdown, pipes, TCP, the NCFS storage core with its abstract specification,
the service manager and capability tokens; safety proofs of all of them, and the
refinement of `AtomicVolume`.

Next, in this order:

1. `IrqAttach`: the global IRQ table and the vector slots as two tables that must
   agree over attach, detach and the exit of a driver
   (`tear_down_irq_attachments`, `syscall_entry.rs:2389`); then the binding in `Ipc`
   becomes a step.
2. `ProcessTable`: parents, zombies, wait; per-CPU run queues and work stealing.
3. `AiRelay`: the socket relay's shape with a request id nobody compares; a
   common abstract specification, "each call returns its own answer".
4. Package transactions, the rings of NVMe and virtio, mesh sessions, ARP and DHCP.

Runs stay few: one passing run per component with its properties together, and
violation runs only for the disagreements that matter most.
