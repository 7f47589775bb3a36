# TLA+ models and proofs for UOSC

The repository holds a kernel library, `reference-rs` (scheduler, memory,
capabilities, IPC, vaults, boot order, timer arithmetic, console), and a kernel
that boots on x86-64 with it, `kernel-x86_64`. The `.ti` sources under
`kernel/`, `drivers/` and `hypercalls/` have no implementation here; together
with `proofs/` and `docs/` they are used for the claims they make, never as a
description of the code. This directory models the code that runs.

## Inventory

| Part | State | Operations | What is hard about it | What makes it correct |
|---|---|---|---|---|
| Run queue (`scheduler.rs`) | process table, EDF and CFS orderings | add, remove, pick, charge | orderings keyed by values that change; wrap of vruntime | orderings mirror the processes; the pick is the hybrid policy's |
| Scheduler bridge (`scheduler_bridge.rs`) | task pool, CURRENT, TICKS, saved contexts, default L4 | spawn, exit, init, timer tick | the timer interrupt between any two steps; slot, stack and table reuse; boot flow suspended anywhere | every switch lands on an intact frame of the right task in the right table; queue and pool agree; the boot flow gets the core back |
| Context switch, stacks (`context.rs`, `task_stack.rs`) | rsp per context, mapped slots | switch_to, init_stack, ensure_slot_mapped | first switch into a task that never went through iretq | a frame is behind every rsp; IF after the switch |
| Interrupts (`interrupts.rs`) | PIC in-service bit, fault count | EOI and on_timer_tick, demand paging | not returning for many ticks; mapping into a table that may not be the active one | ticks never stop; the retried access succeeds |
| Address spaces (`address_space.rs`) | L4 frames | new, switch, restore | entries cloned at creation time only; failure half way | kernel pages reachable under every table, the private page under one |
| AP bring-up (`smp.rs`, `ap_trampoline.asm`) | three atomics, trampoline slots | bring_up_ap, ap_entry64 | two cores, timeouts, a late AP, a lock shared with an interrupt | a passed check is evidence; the waits end |
| Physical allocator (`memory.rs`) | free lists per order, allocated blocks | allocate, deallocate | split and coalesce over long call sequences | blocks disjoint, pages conserved |
| Process memory (`memory.rs`) | page table, regions | allocate/deallocate_virtual, page fault | failure half way through a loop | no leak, no access outside a region |
| Capability broker (`capability.rs`) | tokens, audit log | issue, revoke, delegate, check | expiry and revocation against later checks | confinement, delegation never widens |
| IPC (`ipc.rs`) | SPSC ring, port table | enqueue, dequeue, ports | producer and consumer in parallel, wrap of indices | bounded FIFO; capability on every call |
| Paging globals and heap (`paging.rs`, `allocator.rs`) | MAPPER, PHYS, bump allocator, heap | map, unmap, extend | frames taken for tables; stale translations; memory running out anywhere; locks held by preempted code | every frame one use, none lost; TLB coherent; no deadlock |
| Syscalls (`syscall.rs`) | saved kernel rsp, reported value | enter_ring3, int 0x80, dispatch | a return without iretq; clobbered registers; ticks in ring 3 | kernel context and IF restored, results exact |
| Vaults (`sanctum.rs`) | configurations, attestations | create, attest, enter, check | stored attestation against recomputed one | a vault can be entered, its region is isolated |
| Boot order (`boot.rs`), self-test (`main.rs`), demo tasks | completed phases; results; counters and flags of five tasks | complete; checks; task loops | boot flow suspended anywhere, with locks held, while tasks spawn and exit; a tick budget | phases in order; self-test finds what happened; Success only on evidence; no hang |
| Timer arithmetic, console, GDT, ACPI, CPU features | little or none | straight-line code | numeric edges | see PROJECT.json |

The parts meet in three ways. The bridge calls the run queue, the context
switch, the stacks and the address spaces as functions. The timer interrupt
calls the bridge at any moment at which the interrupt flag is set; on one core
that flag is the only protection of the `static mut` task pool. The second core
and the first share three atomics and the trampoline page. In the library,
process memory calls the allocator and the broker, and the port table the broker
and the ring.

`PROJECT.json` lists the hazards found while reading, each at its line, and the
properties that watch it.

## Modules

**RunQueueOps** is the run queue as a value: one operator per method. A
`BTreeMap` with unit values is the set of its keys. `Process::state` is never
read by the code and is left out. **RunQueue** is its state machine under every
sequence of calls, the one contract being that a pid is not added while it is
queued (the kernel draws pids from a counter). **RunQueueLemmas** states what
each operator preserves.

**SchedulerBridge** is the kernel's scheduler on one core, at the granularity at
which the timer interrupt can tell: a spawn takes five steps (draw the pid, mask
interrupts, claim and map a slot, install the task, queue it) and a last one that
restores the flag; an exit takes four; `init` is one step per spawn.
`timer_interrupt_handler` with `on_timer_tick` is one step, since it runs with
interrupts masked, after the step by which the hardware delivers the interrupt.
State and code correspond name for name (`TASK_SLOTS`, `BOOT_CONTEXT`, `CURRENT`,
`TICKS`, `NEXT_PID`, `MAPPED`, `DEFAULT_L4_FRAME`). What executes is the stack the
core is on (`cpu`), with a program counter and the locals of a spawn per stack;
`frame` says what waits on a stack to be switched to: nothing, the frame
`init_stack` builds, or one left by the timer handler. A switch to a context
without a frame makes `cpu` None, and every property is then about that. Page
tables are reduced to which L4 is active and in which L4 tables the entry of the
stack region is present. Tasks are arbitrary programs: they spawn (bound or
unbound), exit, or just run. `bound` is a history variable.

**Dispatcher** is the abstract specification: who has the core. Tasks arrive with
vruntime 0, depart while running, and at each tick the core goes to the least
vruntime while the previous task is charged. SchedulerBridge implements it under
the mapping of its `D == INSTANCE Dispatcher`; a pid counts as used once it is
queued or lost.

**FairShare** adds to Dispatcher the history of choices and asks how far apart two
tasks can get and whether every task gets its turn. Ticks may go on for ever:
vruntimes are kept relative once arrivals have ended. **SchedulingProofs** has the
theorems of RunQueue and FairShare.

**SchedulerBridgeInv** is the inductive invariant of the bridge, in five parts.
**SchedulerBridgeProofs** proves it, what follows from it, and that the bridge
implements Dispatcher.

**ApBringUp** is `bring_up_ap` on the boot processor, the timer interrupt it is
subject to, `ap_entry64` on the other core, and the check in `kernel_main`.
It runs as a part of KernelMain. `tick_count` is two steps, lock and
read-and-release, because the interrupt may come between. TICKS appears as the ticks since the current wait began.

**SpscRing** is `RingBuffer` of `ipc.rs` under one producer and one consumer
thread, one step per access to what they share: the check of `len`, the slot, the
thread's own index, `len` again. **BoundedFifo** is what it promises, a queue whose
operations are atomic; the ring implements it with the message a consumer has
taken but not released still counted as its head. **SpscRingProofs** has the theorems.

**BuddyAllocator** is `PhysicalAllocator` of `memory.rs`, one step per turn of its
loops: seeding, splitting, coalescing. Addresses are page numbers and a free list
is the set of its entries, so every choice among free blocks of one order is
explored, the code's last-in-first-out included. `BlockPages` is the table of the
powers of two. **PageArena** is what callers are promised, in terms of live blocks
alone. **BuddyAllocatorProofs** has the theorems.

**CapabilityBroker** is `capability.rs` under every sequence of calls, with time
passing in between. Permissions are sets; a scope is a resource type and a path
pattern, and the constant `CoveredBy` says which resources it covers (the type
comparison and `path_covers`). `root` is a history variable: the directly issued
token a delegated one goes back to. Revoking a token does not revoke what was
delegated from it; `STATUS.md` says so, and no property here claims otherwise.

**PortTable** puts the ports of `ipc.rs` over the broker. One call runs at a time,
so a port's queue is a sequence. Other users of the broker issue, delegate and
revoke between the calls while time passes. **CapabilityProofs** has the theorems
of both, and of ProcessMemory.

**ProcessMemory** puts the contexts of several processes over one broker and one
allocator, which is PageArena's for single pages. `allocate_virtual` may run out of
memory in its loop and then keeps what it has mapped; `handle_page_fault` maps over
what is mapped already.

**KernelPaging** is the memory of the booted kernel, in the order in which
`kernel_main` sets it up: the bootstrap heap from the bump allocator, the handing
over of the region to `PHYS`, the second phase of the heap, demand paging through
`page_fault_handler`, `unmap_page`, the demo's address space, the pages of the
ring-3 program, the stacks and address space of the tasks, tasks switching, and
the two pages of `bring_up_ap`. The page tables have the processor's four levels:
a page is the sequence of its indices, a table a partial function, and `MapTo`
and the walk are the x86_64 crate's and the processor's, marked external. The
TLB remembers what is walked and forgets on a flush or another CR3. The size of
the region is open, so memory may run out at every call; `short` is a history
variable that says it has. `PHYS` is the set of its free frames, the highest of
which goes first: BuddyAllocator is the model of its inside, and its largest
blocks, at the front of the region, are split last. A map that fails, or a fault
outside the demand page, is a step to `panic` wherever the code panics, also in the
two places where the proofs show that it never does (`InitBootstrap`, `DemoReads`).
NoFrameIsLost speaks of the failures too: while PHYS has a frame left nothing it has
handed out is lost, and the call that finds it empty half way loses the frame of its
page and, `AddressSpace::new`, its L4 table, but no table of a live one.
**KernelPagingProofs** has the theorems.

**KernelMain** is the kernel from EarlyBoot to `exit_qemu`. `pc` is where the boot
flow is; a tick, a spawn and an exit are one step each, their inner steps being
SchedulerBridge's. What is added to SchedulerBridge is who holds which lock: code
that runs with interrupts enabled takes its locks in one step and releases them
in another, so that a tick may come between, suspend it, and run tasks that need
them. MAPPER, PHYS and ALLOCATOR are taken together, since only their being held
matters; locks only ever taken with interrupts masked are left out, and so are
TASK_C_PID, TASK_EXIT_SLOT and TASK_D_SPAWN_SLOT, which `kernel_main`'s last checks
take unmasked: no task runs there any more that could want them (ChecksRunAlone,
which also says that nothing changes between two of those checks). The five
tasks are the demo's own, with their counters up to the value they are compared
with. Checks whose inside is the subject of another module (memory, capability,
IPC) come out either way. It extends ApBringUp, and uses **Ring3** (the user
program instruction by instruction, and the stub that its `int 0x80` enters),
**BootSequencer** and **VaultManager** (the operators of `boot.rs` and
`sanctum.rs`), and RunQueueOps. **KernelProofs** has the theorems.

Definitions called "Variant" are plausible mistakes; each is listed as a mutant
and shows that a property is able to fail.

## Runs

| Run | Shows | Bounds |
|---|---|---|
| `run_queue` | orderings exact, hybrid choice, after any calls | 3 pids, all classes, 2 deadlines, u64 of 3 values so that charges wrap |
| `fair_share` | no task more than two ticks ahead of one that waited; every queued task keeps getting the core | 4 pids, arrivals end at vruntime 3, ticks do not end |
| `bridge` | stacks, contexts, queue, pool, tables, init, reuse, hand-back, refinement | 3 slots, 5 pids, one unbound and one bound initial task, budget of 5 ticks |
| `spsc_ring` | no slot touched by both threads; an atomic FIFO; no thread stuck | 2 slots, indices that wrap after 4, two messages |
| `buddy` | blocks disjoint, pages conserved, fully coalesced, seed restored, refinement of PageArena | 11 pages, largest order 2: two top blocks that must not merge, one of each smaller order |
| `ports` | capabilities open only the port they were issued for; waiting messages were permitted; authority goes back to a direct issue; refusals are final | 2 ports, 2 principals (symmetric), 3 tokens, one of them issued for something else, 2 moments, queues of 1 |
| `process_memory` | no page shared or mapped after it was given back; regions fully mapped | 2 processes, 3 frames (symmetric), regions of 0 to 2 pages, 2 tokens |
| `lost_pages` | expected violation: out of memory half way loses pages | the same with 1 frame |
| `paging` | frames used once and not lost, TLB coherent, private page private, kernel seen by all tasks, checks pass | regions of 10 to 52 pages, heap of 5 + 6, 5 stacks of 1 page |
| `double_owned` | expected violation: heap frames are free in PHYS | the same |
| `boot` | AP check, self-tests, verdict, ring-3 round trip, hangs located, boot ends or hangs | budget of 28 ticks, any number of them spent before init, 1 hlt, waits of 2 and 1 ticks, timeout of 2, one- and two-core topologies |
| `boot_hangs` | expected violation: the boot does not always finish | the same with 1 early tick |

Three slots and five pids are enough for the cases the bridge is about: a full
pool, a slot reused by an unbound task after a bound one, two spawns under way at
once, a task that exits with and without a successor, the budget ending during
each of these. TICKS stops counting once it is above the budget, where only the
comparison with it remains. In `fair_share` the least vruntime is subtracted once
no task can arrive any more; the choice only depends on differences.

Eleven pages give the allocator a block that is alone at its order at the end of
the arena, whose buddy would lie beyond it, and two blocks of the largest order
side by side. Three tokens are a chain of two delegations. Three frames for two
processes make both run out of memory with regions of one and of two pages live.

In `paging` the smallest region ends within the second phase of the heap and the
largest has frames to spare at the end, so memory runs out at each call in turn.
Five slots are those of tasks a to e. In `boot` the tasks need 27 ticks of the
budget to pass their checks (with 26 the run fails); the kernel has 400, so what
SelfTestsPass asks of the time before init is a small share of it. A budget of 28
lets the run have both enough ticks and too few. One hlt of the 1000 is enough
since a hlt only waits for a tick. The kernel ends in `panic`, `exit_qemu` or a
finished check, so deadlock is not checked in these two runs; that it only stops
there, or is stuck where HangsOnlyInTwoPlaces says, is EndsOrHangs.

## Fairness

The core keeps executing (weak fairness of its own steps) and the PIC holds a
raised interrupt until the core takes it, however briefly the flag is set (strong
fairness of delivery). Nothing is assumed of tasks, which may loop for ever, or of
the AP, which may never start. `HandsBack`, `NoStarvation`, `EndsOrHangs` and the
violated `BootFinishes` are stated under these assumptions only. In KernelMain a
step of the boot flow or of a task is strongly fair, since ticks take the core away
from it again and again, and the handler is weakly fair; the demo tasks are known
there, and one assumption is made of their speed: a loop iteration is shorter than
the 5 ms between two ticks (`TickIsDue`), without which no self-test that counts
iterations within a budget of ticks could be relied on. It is an assumption about
time and not a translation of code: SelfTestsPass and the theorems
BootKeepsTimetable, TasksPassSelfTests and SelfTestsRunAlone rest on it. For `NeitherStuck`
the two threads of the ring keep calling, as those of the module's concurrent test
do; the ring itself never waits.

## Proofs

SchedulingProofs, run queue: for all pids, deadlines, charges and widths, the invariant
IsRunQueue and OrderingsMirror is inductive, and with it `pick_next_task` makes
the hybrid choice. The existence of a first key is the well-foundedness of the
lexicographic order on pairs of naturals.

SchedulingProofs, fairness: TypeOK and LagIsBounded together are inductive for any
number of pids. The bound distinguishes the running task (one tick ahead at most) from the
others (two): the running task is charged after its successor has been chosen, so
a task that loses the core at that very tick is charged once more.

SchedulerBridgeProofs: none of the properties of the bridge is inductive by
itself. IInv adds what they rest on: where interrupts are masked (MaskInv), what
lies on every stack and where its code may be suspended (StackInv), how queue,
pool and spawns under way share out the pids (PidInv), and which tables hold the
stack region (TableInv). One lemma per action shows that it keeps each part; ticks
and exits share SwitchKeeps, every spawn DrawPidKeeps. All safety properties of
the run `bridge` follow, for any number of slots, pids, initial tasks and ticks.
The assumptions are those of BridgeAssumption: at least one unbound initial task
and a free slot beyond them (the code has 3 and 8), distinct L4 frames, a budget
below 2^64, and a pid counter that does not reach u64::MAX.

For the refinement, IInv with ChargeInv (a task's vruntime is at most TICKS, so no
charge wraps, and past the budget the boot flow has the core) shows that every
step of the bridge is one step of Dispatcher, or none. Claiming a slot in a full
pool is a refusal, queueing is the arrival, leaving the queue the departure, the
switch at the end of an exit the hand-off, the timer handler the tick.

SpscRingProofs: RingInv says where the messages are. RoomInv relates `len` to what
each thread knows of it (a producer past its check has room, a consumer past its
check has a message, and nobody else can take it away), DistanceInv relates `len` to
the distance of the two indices, modulo the width of their type, with the correction
for a thread between its two writes, and SlotInv says that the slots in between hold
messages, the one a consumer has taken out excepted. NoDataRace and the refinement of BoundedFifo
follow for any messages, any capacity and any width the capacity divides; without
divisibility the index would jump when it wraps, which is why RingAssumption has it
(the kernel's capacity is 4; any other works until 2^64 messages have passed).

BuddyAllocatorProofs: TypeOK, BlocksDisjoint and PagesConserved, with SeedInv (while
seeding, nothing reaches beyond the address that is seeded next), are inductive
for any arena and any largest order. BuddyAssumption only says that the block of
each order is twice the one below. A merge is safe because both halves were blocks
of their own: disjointness does not need alignment. The other results do. BuddyInv
adds that every block is aligned to its size (while seeding: that the next address
is aligned to the block above the largest one that still fits, which is why a run
of seeded blocks never has a free buddy); that no two free blocks are buddies,
except for the halves of the block just split; and that nothing is free between
the order that is wanted and the one that is split next. Aligned blocks are apart
or one inside the other, so the smallest free block in an aligned run without live
pages would have a free buddy if it were not the whole run: such a run lies in one
free block. From that, OutOfMemory is only returned when there is no such run
(ImplementsArena), and an allocator with nothing live has the blocks it was seeded
with (RestoresSeed). FullyCoalesced is the third conjunct between calls.

CapabilityProofs: the broker's invariant is its types and Lineage: every token
agrees with the one it goes back to in scope and expiry, has no permission that
one lacks, and is that one or was delegated from it. Confinement is a consequence;
RefusalIsFinal needs the types only. For the ports PortInv adds that every token
on a port is for one created before (ScopesAreOld), which is why a new port starts
with no capability but its owner's. PortsUseTheBroker shows that the ports drive
the broker through its operations only, which carries the broker's theorems over.
BrokerAssumption and PortAssumption say that "port:{id}" covers that port and no other.
MemoryInv does the same for ProcessMemory: that mapped pages and free frames are
disjoint, that regions of one process neither overlap nor reach beyond the address
that is given out next, and that every page of a region is mapped. MappedOnce is not
inductive without the second: a region may only be freed page by page because no
other region has those pages. MemoryAssumption asks for finitely many frames.

KernelProofs: BringUpInv relates where the BSP is to what the AP may have seen
(slots written before a SIPI, the flags after each other), for any waits, timeout
and ids; OutcomeIsEvidence follows. BootImplementsBringUp shows that every step of
the boot is a step of ApBringUp or none, so the result holds in the whole boot.
HangsOnlyInTwoPlaces is not inductive: HangInv adds where interrupts are masked and
that no hlt is reached there (MaskInv), that whoever has the core is the boot flow
or a task with a slot (CoreInv), which locks are held at which place of the boot
flow (LockInv), and that once c has exited the first free slot is one whose stack
is mapped, until d takes it (PoolInv). The last is why task a's masked spawn does
not spin on the page tables' locks of a suspended boot flow: it waits for c's exit
and so always reuses a mapped slot. KernelAssumption asks for more than four slots
and a budget below 2^64, and that 64 bits hold the program's sum. BootChecksPass
says that of `kernel_main`'s checks those of `boot.rs`, `sanctum.rs` and the ring-3
program cannot fail, however the boot is interrupted; it rests on StoryInv and Ring3Inv
(below). SelfTestsRunAlone proves ChecksRunAlone: AloneInv adds that kernel_main only
leaves its hlt loop when the budget is spent, after which every tick keeps it running.

BootInv extends HangInv to the whole boot. Ring3Inv follows the user program
instruction by instruction: what each register holds, and that the kernel's
callee-saved ones are on its stack; Ring3RoundTrip follows. StoryInv says which
phases are complete and which vaults exist at each place, SlotInv who has which slot
(c the third, until d), QueueInv that queue and slots name the same tasks, EvidenceInv
what a still true `all_passed` is evidence of, CountInv the ranges. VerdictIsEvidence
needs all of them: the checks are made at different places and the tasks go on
running in between, so what a check has seen must be shown to be stable until the
verdict, d's being in c's slot for instance because d never exits.

SelfTestsPass counts ticks and needs to know who runs when. That is determined:
pick_next_task looks at the vruntimes before the running task is charged, so each
task gets its turns two or three in a row, and TimeInv says in which order. Timetable
lists for each tick after init whom it dispatches and the vruntimes it leaves; c has
counted once for each tick it was charged for, so its sixth turn, after the 24th
tick, is its exit; e has the rest of that period and the next, and a, after the
26th, spawns d, which is dispatched by the 27th. ScheduleInv states this stage by
stage, EarlyInv that init has spawned the tasks into slots 0 to 3 with nothing run,
DueInv that a task which a tick interrupts has done its iteration, unless c's exit
dispatched it. Within the budget kernel_main has the core only before the first
tick, so it cannot get past its first hlt before d has run; KernelAssumption
asks for at least one hlt for that reason. Where in the boot flow the first tick
comes does not matter, and the theorem holds for every budget, number of early
ticks, hlts, slots and topology.

KernelPagingProofs: neither TypeOK nor any invariant of the run `paging` is inductive,
since what a walk finds depends on the shape of all tables. PagingInv has two
parts. Bootstrapping holds until store_globals: the bump allocator has given out
frames 0, 1, 2, ... in the order in which the heap's first page, its three tables
and its other pages need them, so the tables are known exactly. Running holds from
then on. Its core is Forest: a level from 4 to 1 can be given to every table such
that an entry leads one level down or, at the last level, to a page; no two entries
lead to one frame except the copies AddressSpace::new makes of an L4 entry; nothing
leads to a free frame. In a forest the walks to two pages part for good at the first
index in which they differ, so mapping or unmapping one page leaves the walks to all
others as they were; this is stated once for CreateNextTable, MapTo, the clearing of
an entry and the copying of an L4 table, for success and for a failure that keeps the
tables it has made. The entries of the bootstrap heap are exempt from the frames'
having one use, for three of those frames are also in PHYS (see Findings): the
forest is unharmed when PHYS comes to them because they are pages, not tables. The
assumption BootstrapPages >= 4 (the code has 64) is what makes them pages: with
fewer, the heap's own tables would be handed out again.

The other conjuncts of Running say what is where: which heap, stack, demand, user
and SMP pages are mapped at which step (Pages), which L4 tables exist and that
task_e's shares the entries of the kernel's regions with the boot table (SpacesPart,
SharedPart), where the private page is (PrivatePart), which table is loaded for whom
(CorePart), that the TLB agrees with the walk (TlbPart), which frames are held by a
table, a page or an L4 table (Kept: all in use while PHYS has one left, all but two
after that), and that no check has failed while PHYS has not come to the bump
allocator's frames (ResultsPart). Kept needs to know that unmap_page, which gives a
frame back, never follows a call that lost one; DemandPart says so.
TasksSeeTheKernel needs SharedPart together with the steps at which the L4 entries
of heap, demand page and stacks come into being: all before the copy, which is why
later stack pages are seen. One lemma per action keeps Running. The theorems hold
for every number of heap, stack and slot pages and every size of region that
PagingAssumption admits: one that is larger than the bootstrap heap with its tables,
in a bounded set, and at least four slots.

The type invariants of RunQueue, FairShare, SchedulerBridge, SpscRing,
BuddyAllocator, PortTable, ProcessMemory, ApBringUp, KernelMain and KernelPaging are
proved; only KernelMain's, which takes several steps of several tasks to break, is
run as well.

Liveness (HandsBack, NeitherStuck, NoStarvation, EndsOrHangs) is checked by TLC
only: fairness is out of the prover's reach.

## Findings

`lost_pages`, `double_owned` and `boot_hangs` are disagreements between the code and
what the repository says of it; PROJECT.json quotes both sides of each.

- An `allocate_virtual` that runs out of memory half way loses what it has mapped.
- The bump allocator pays for three page tables besides the heap's pages, so the
  last three frames of the bootstrap heap are in the region that PHYS is given.
  PHYS comes to them last: everything in `paging` but HeapFramesAreReserved holds
  until it does.
- `task_c_really_exited` and `tick_count` take, with interrupts enabled, spin locks
  that the timer interrupt takes on the same core. HangsAreLocated says that there
  is no third such place.

Two more are visible without a run: `handle_page_fault` takes no broker, so it maps
pages after a revocation, where `docs/UOSC_KERNEL_COMPLETE.md` has it verify the
capability; and every new task starts at vruntime 0, so an endless stream of
newcomers, which the demo does not have, would starve older tasks.

## Not modelled

Timer arithmetic and the console are pure functions of their arguments; GDT, IDT,
PIC and PIT programming, CPU feature detection and the parsing of ACPI tables are
straight-line hardware set-up whose results enter as initial values (the topology
and the checks made of it). Left out within what is modelled: page access flags,
segments, stack layout and guard pages, the inside of the heap allocator, the
capability audit log, keyboard and serial I/O, the wording of
the log. The `.ti` sources do not run.

## Plan

1. (done) RunQueue, SchedulerBridge over Dispatcher, FairShare,
   ApBringUp.
2. (done) BuddyAllocator (memory.rs 52-200) implementing PageArena; ProcessMemory
   above it with out-of-memory in the middle of the loops.
3. (done) SpscRing (ipc.rs 61-122), producer and consumer step by step,
   implementing BoundedFifo.
4. (done) CapabilityBroker (capability.rs) and PortTable above it.
5. (done) KernelPaging, and KernelMain over ApBringUp, Ring3, BootSequencer and
   VaultManager, with lock ownership of preempted code.
6. Proofs: (done) the run queue, the lag bound, the safety of the bridge and its
   refinement, the allocator (disjointness, conservation, coalescing) and its
   refinement, confinement and the ports, isolation of process memory, the ring and
   its refinement, the evidence of the AP check, the location of hangs, ring 3, the
   verdict, the tasks' self-tests, the paging.
