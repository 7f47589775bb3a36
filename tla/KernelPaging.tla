---------------------------- MODULE KernelPaging ----------------------------
(***************************************************************************)
(* The memory of the booted kernel: the page tables the processor walks,   *)
(* the frames behind them, the kernel heap, the demand-paged region, the   *)
(* address spaces and the task stacks, in the order in which kernel_main   *)
(* sets them up (kernel-x86_64/src: paging.rs, allocator.rs,               *)
(* address_space.rs, task_stack.rs, interrupts.rs, main.rs).               *)
(*                                                                         *)
(* A frame is its number in the largest usable region; the boot table and  *)
(* the two fixed frames of smp.rs lie outside it.  A page is the sequence  *)
(* of its table indices, a table the partial function from indices to what *)
(* its entries point to.  PHYS hands out its highest free frame: which one *)
(* does not matter, except that the buddy allocator, whose largest blocks  *)
(* come first in the region, splits those last.  Memory may run out        *)
(* anywhere, since the size of the region is open.                         *)
(***************************************************************************)
EXTENDS Integers, FiniteSets, FiniteSetsExt

CONSTANTS
  BootstrapPages,   \* BOOTSTRAP_HEAP_SIZE in pages: 64.
  RealPages,        \* REAL_HEAP_SIZE in pages: 256.
  StackPages,       \* STACK_SIZE in pages: 16.
  MaxSlots,         \* MAX_SLOTS: 8.
  RegionSizes       \* Bound: how many pages the usable region may have.

ASSUME PagingAssumption ==
  /\ BootstrapPages \in Nat /\ BootstrapPages >= 4   \* The heap's first three tables are below.
  /\ RealPages \in Nat /\ StackPages \in Nat \ {0}
  /\ MaxSlots \in Nat /\ MaxSlots >= 4
  /\ \E most \in RegionSizes : \A n \in RegionSizes : n <= most
  /\ \A n \in RegionSizes : n \in Nat /\ n > BootstrapPages + 4

VARIABLES
  region,      \* total_pages.
  step,        \* How far kernel_main has got.
  bump,        \* BumpFrameAllocator::next.
  heap,        \* Pages the heap has.
  phys,        \* The free frames of PHYS, which starts empty.
  mem,         \* The page tables: what the entries in use point to.
  cr3,
  tlb,         \* What the processor remembers of its walks since cr3 was written.
  data,        \* What was last written to a frame.
  PAGE_FAULTS_DEMAND_PAGED,
  checks,      \* The results recorded so far.
  spaces,      \* The L4 frames of the demo's and of task_e's address space.
  stacks,      \* MAPPED: the slots mapped so far, and the pages of the next one.
  running,     \* Who has the core once the scheduler runs.
  short        \* History: PHYS has come to frames the bump allocator had used.

vars == <<region, step, bump, heap, phys, mem, cr3, tlb, data, PAGE_FAULTS_DEMAND_PAGED,
          checks, spaces, stacks, running, short>>

None == -1

(* Frames that are not of the region. *)
BootL4 == Max(RegionSizes)
LapicFrame == BootL4 + 1
TrampolineFrame == BootL4 + 2

(* The fixed regions lie under L4 entries of their own. *)
HeapPage(i) == <<4, 0, 0, i>>
StackPage(slot, i) == <<3, 0, 0, slot * (StackPages + 1) + 1 + i>>
DemandPage == <<5, 0, 0, 0>>
PrivatePage == <<1, 0, 0, 0>>
UserPage == [map_user_code |-> <<6, 0, 0, 0>>, map_user_stack |-> <<7, 0, 0, 0>>]
SmpPage == [map_lapic |-> <<2, 0, 0, 0>>, map_trampoline |-> <<0, 0, 0, 0>>]
SmpFrame == [map_lapic |-> LapicFrame, map_trampoline |-> TrampolineFrame]

Spaces == {"demo", "task_e"}

Init ==
  /\ region \in RegionSizes
  /\ step = "init_bootstrap" /\ bump = 0 /\ heap = 0 /\ phys = {}
  /\ mem = [table \in {BootL4} |-> <<>>] /\ cr3 = BootL4 /\ tlb = <<>> /\ data = <<>>
  /\ PAGE_FAULTS_DEMAND_PAGED = 0 /\ checks = <<>> /\ spaces = [s \in Spaces |-> None]
  /\ stacks = [slots |-> 0, pages |-> 0] /\ running = "boot" /\ short = FALSE

----------------------------------------------------------------------------
(* The function f, but with v at x. *)
Put(f, x, v) == [y \in DOMAIN f \cup {x} |-> IF y = x THEN v ELSE f[y]]

(* Tables. *)
Entry(m, table, i) == IF table \in DOMAIN m /\ i \in DOMAIN m[table] THEN m[table][i] ELSE None

SetEntry(m, table, i, target) == [m EXCEPT ![table] = Put(@, i, target)]

ClearEntry(m, table, i) == [m EXCEPT ![table] = [j \in DOMAIN @ \ {i} |-> @[j]]]

(* The last table of a walk and the frame it ends at, None at an absent entry. *)
WalkToL1(m, root, page) == Entry(m, Entry(m, Entry(m, root, page[1]), page[2]), page[3])

Walk(m, root, page) == Entry(m, WalkToL1(m, root, page), page[4])

(* The frame the bump allocator, or PHYS, hands out next. *)
AllocateFrame(source, avail) == IF source = "bump" THEN Min(avail) ELSE Max(avail)

(* Mapper::map_to of the x86_64 crate: missing tables are allocated, and   *)
(* zeroed, on the way down and stay when a later one cannot be had; a page *)
(* that is mapped already is refused.                                      *)
CreateNextTable(r, i, source) ==
  LET next == Entry(r.mem, r.table, i) IN
  IF ~ r.ok THEN r
  ELSE IF next # None THEN [r EXCEPT !.table = next]
  ELSE IF r.avail = {} THEN [r EXCEPT !.ok = FALSE]
  ELSE LET f == AllocateFrame(source, r.avail) IN
       [r EXCEPT !.mem = SetEntry(Put(@, f, <<>>), r.table, i, f), !.avail = @ \ {f}, !.table = f]

MapTo(m, avail, source, root, page, frame) ==
  LET p4 == [mem |-> m, avail |-> avail, table |-> root, frame |-> frame, ok |-> TRUE]
      p3 == CreateNextTable(p4, page[1], source)
      p2 == CreateNextTable(p3, page[2], source)
      p1 == CreateNextTable(p2, page[3], source)
  IN  IF p1.ok /\ Entry(p1.mem, p1.table, page[4]) = None
      THEN [p1 EXCEPT !.mem = SetEntry(@, p1.table, page[4], frame)]
      ELSE [p1 EXCEPT !.ok = FALSE]

(* map_page_with: the frame of the page is taken first, and is lost when   *)
(* map_to fails.                                                           *)
MapPageWith(m, avail, source, root, page) ==
  IF avail = {} THEN [mem |-> m, avail |-> {}, frame |-> None, ok |-> FALSE]
  ELSE LET f == AllocateFrame(source, avail) IN
       MapTo(m, avail \ {f}, source, root, page, f)

(* map_page: frames from PHYS, through MAPPER, which keeps targeting the   *)
(* boot table whatever CR3 holds.                                          *)
MapPage(page) == MapPageWith(mem, phys, "phys", BootL4, page)

----------------------------------------------------------------------------
(* What a call that took frames from PHYS leaves behind. *)
Uses(r) ==
  /\ mem' = r.mem /\ phys' = r.avail
  /\ short' = (short \/ \E f \in phys \ r.avail : f < bump)

Record(name, ok) == checks' = Put(checks, name, ok /\ (name \in DOMAIN checks => checks[name]))

(* A load or store: from the TLB, or by a walk that the TLB remembers. *)
Translate(page) == IF page \in DOMAIN tlb THEN tlb[page] ELSE Walk(mem, cr3, page)

Remember(page) == tlb' = Put(tlb, page, Translate(page))

Flushed(page) == [p \in DOMAIN tlb \ {page} |-> tlb[p]]

Flush(page) == tlb' = Flushed(page)

(* Only a write of another table to CR3 takes effect: it empties the TLB. *)
LoadCr3(l4) ==
  /\ cr3' = l4
  /\ tlb' = IF l4 = cr3 THEN tlb ELSE <<>>

bootVars == <<region, bump, heap, cr3, data, PAGE_FAULTS_DEMAND_PAGED, spaces, stacks, running>>

----------------------------------------------------------------------------
(* The heap, in two phases.  The bump allocator takes a frame for the page *)
(* and, at the first page, three more for its tables.                      *)
InitBootstrap ==
  /\ step = "init_bootstrap" /\ heap < BootstrapPages
  /\ LET r == MapPageWith(mem, bump .. region - 1, "bump", BootL4, HeapPage(heap)) IN
       /\ mem' = r.mem /\ bump' = region - Cardinality(r.avail)
       /\ IF r.ok THEN heap' = heap + 1 /\ Flush(HeapPage(heap)) /\ UNCHANGED step
                  ELSE step' = "panic" /\ UNCHANGED <<heap, tlb>>
  /\ UNCHANGED <<region, phys, cr3, data, PAGE_FAULTS_DEMAND_PAGED, checks, spaces, stacks, running, short>>

(* PHYS gets everything after the first bootstrap_pages frames. *)
StoreGlobals ==
  /\ step = "init_bootstrap" /\ heap = BootstrapPages
  /\ phys' = BootstrapPages .. region - 1 /\ step' = "extend"
  /\ UNCHANGED <<region, bump, heap, mem, cr3, tlb, data, PAGE_FAULTS_DEMAND_PAGED, checks, spaces, stacks, running, short>>

ExtendWithRealPages ==
  /\ step = "extend" /\ heap < BootstrapPages + RealPages
  /\ LET r == MapPage(HeapPage(heap)) IN
       /\ Uses(r)
       /\ \/ r.ok /\ heap' = heap + 1 /\ Flush(HeapPage(heap)) /\ UNCHANGED step
          \/ ~ r.ok /\ step' = "panic" /\ UNCHANGED <<heap, tlb>>
  /\ UNCHANGED <<region, bump, cr3, data, PAGE_FAULTS_DEMAND_PAGED, checks, spaces, stacks, running>>

(* The first check of kernel_main: two frames are taken and given back,    *)
(* but a first one without a second is kept.                               *)
PhysRoundTrip ==
  /\ step = "extend" /\ heap = BootstrapPages + RealPages
  /\ \/ Cardinality(phys) >= 2 /\ Record("Memory", TRUE) /\ UNCHANGED phys
     \/ Cardinality(phys) < 2 /\ Record("Memory", FALSE) /\ phys' = {}
  /\ short' = (short \/ phys' # phys)
  /\ step' = "heap_check"
  /\ UNCHANGED <<bootVars, mem, tlb>>

(* A Vec across a page boundary, wherever the heap places it, holds what   *)
(* is written to it when its pages have frames of their own.               *)
HeapHoldsData ==
  /\ step = "heap_check"
  /\ \E i \in 0 .. heap - 2 :
       LET f == Walk(mem, cr3, HeapPage(i)) IN
       LET g == Walk(mem, cr3, HeapPage(i + 1)) IN
       Record("Paging", f # None /\ g # None /\ f # g)
  /\ step' = "first_touch"
  /\ UNCHANGED <<bootVars, phys, mem, tlb, short>>

----------------------------------------------------------------------------
(* Demand paging.  A write to the page faults, the handler maps a frame    *)
(* and returns, and the write is tried again.                              *)
Touches == [first_touch |-> "unmap", second_touch |-> "new_space"]

page_fault_handler ==
  /\ step \in DOMAIN Touches /\ Translate(DemandPage) = None
  /\ LET r == MapPage(DemandPage) IN
       /\ Uses(r)
       /\ \/ r.ok /\ PAGE_FAULTS_DEMAND_PAGED' = PAGE_FAULTS_DEMAND_PAGED + 1 /\ Flush(DemandPage) /\ UNCHANGED step
          \/ ~ r.ok /\ step' = "panic" /\ UNCHANGED <<PAGE_FAULTS_DEMAND_PAGED, tlb>>
  /\ UNCHANGED <<region, bump, heap, cr3, data, checks, spaces, stacks, running>>

(* The write goes through; it is read back and the faults are counted. *)
TouchDemandPage ==
  /\ step \in DOMAIN Touches /\ Translate(DemandPage) # None
  /\ data' = Put(data, Translate(DemandPage), step)
  /\ Remember(DemandPage)
  /\ \/ step = "first_touch" /\ Record("PageFault", PAGE_FAULTS_DEMAND_PAGED = 1)
     \/ step = "second_touch" /\ Record("Unmap", PAGE_FAULTS_DEMAND_PAGED = 2)
  /\ step' = Touches[step]
  /\ UNCHANGED <<region, bump, heap, phys, mem, cr3, PAGE_FAULTS_DEMAND_PAGED, spaces, stacks, running, short>>

LeafTable(page) == WalkToL1(mem, BootL4, page)

(* What unmap_page leaves of the tables, the TLB and PHYS, and the first   *)
(* half of the check made of it.                                           *)
Unmaps(tables, translations, free) ==
  /\ step = "unmap" /\ step' = "second_touch"
  /\ mem' = tables /\ tlb' = translations /\ phys' = free
  /\ Record("Unmap", Cardinality(free) = Cardinality(phys) + 1)
  /\ UNCHANGED <<bootVars, short>>

WithoutDemandPage == ClearEntry(mem, LeafTable(DemandPage), DemandPage[4])
DemandFrame == Walk(mem, BootL4, DemandPage)

(* Variants: the translation stays in the TLB; the entry stays in its      *)
(* table; the frame is not given back.                                     *)
UnmapPageKeepsTlb == Unmaps(WithoutDemandPage, tlb, phys \cup {DemandFrame})
UnmapPageKeepsEntry == Unmaps(mem, Flushed(DemandPage), phys \cup {DemandFrame})
UnmapPageKeepsFrame == Unmaps(WithoutDemandPage, Flushed(DemandPage), phys)

(* The entry is cleared, the TLB flushed, the frame given back; the tables stay. *)
UnmapPage == Unmaps(WithoutDemandPage, Flushed(DemandPage), phys \cup {DemandFrame})

----------------------------------------------------------------------------
(* Address spaces.  AddressSpace::new takes a frame for the L4 table,      *)
(* copies the entries of the active one and maps the private page through  *)
(* the new table; what it has taken stays taken when it fails half way.    *)
(* The value is written through the physical window, before any switch.    *)
NewL4 == AllocateFrame("phys", phys)

NewSpaceIn(root) ==
  IF phys = {} THEN [mem |-> mem, avail |-> {}, frame |-> None, l4 |-> None, ok |-> FALSE]
  ELSE LET r == MapPageWith(Put(mem, NewL4, mem[cr3]), phys \ {NewL4}, "phys", root, PrivatePage)
       IN  [mem |-> r.mem, avail |-> r.avail, frame |-> r.frame, l4 |-> IF r.ok THEN NewL4 ELSE None, ok |-> r.ok]

(* Variant: the private page is mapped through MAPPER. *)
NewSpaceThroughMapper == NewSpaceIn(BootL4)

NewSpace == NewSpaceIn(NewL4)

BuildSpace(owner) ==
  /\ Uses(NewSpace)
  /\ spaces' = [spaces EXCEPT ![owner] = NewSpace.l4]
  /\ IF NewSpace.ok THEN data' = Put(data, NewSpace.frame, "private") /\ Flush(PrivatePage)
                    ELSE UNCHANGED <<data, tlb>>

(* The check of address spaces: private_region_absent_from_active, new,    *)
(* switch_to, a read of the private page and restore.                      *)
DemoBuildsSpace ==
  /\ step = "new_space"
  /\ BuildSpace("demo")
  /\ Record("AddressSpace", Entry(mem, cr3, PrivatePage[1]) = None /\ NewSpace.ok)
  /\ step' = IF NewSpace.ok THEN "switch_to" ELSE "map_user_code"
  /\ UNCHANGED <<region, bump, heap, cr3, PAGE_FAULTS_DEMAND_PAGED, stacks, running>>

DemoSwitchesTo ==
  /\ step = "switch_to" /\ step' = "read_private"
  /\ LoadCr3(spaces["demo"])
  /\ UNCHANGED <<region, bump, heap, phys, mem, data, PAGE_FAULTS_DEMAND_PAGED, checks, spaces, stacks, running, short>>

(* A fault would be a panic: the page is not in the demand-paged region. *)
DemoReads ==
  /\ step = "read_private"
  /\ LET f == Translate(PrivatePage) IN
       IF f = None THEN step' = "panic" /\ UNCHANGED <<checks, tlb>>
       ELSE /\ step' = "restore" /\ Remember(PrivatePage)
            /\ Record("AddressSpace", f \in DOMAIN data /\ data[f] = "private")
  /\ UNCHANGED <<bootVars, phys, mem, short>>

DemoRestores ==
  /\ step = "restore" /\ step' = "map_user_code"
  /\ LoadCr3(BootL4)
  /\ UNCHANGED <<region, bump, heap, phys, mem, data, PAGE_FAULTS_DEMAND_PAGED, checks, spaces, stacks, running, short>>

(* run_demo_syscall maps its two pages; a failure ends the demo. *)
AfterUserPage == [map_user_code |-> "map_user_stack", map_user_stack |-> "init"]

MapUserPage ==
  /\ step \in DOMAIN AfterUserPage
  /\ LET r == MapPage(UserPage[step]) IN
       /\ Uses(r)
       /\ \/ r.ok /\ Flush(UserPage[step]) /\ step' = AfterUserPage[step] /\ UNCHANGED checks
          \/ ~ r.ok /\ Record("Syscall", FALSE) /\ step' = "init" /\ UNCHANGED tlb
  /\ UNCHANGED bootVars

----------------------------------------------------------------------------
(* Stacks.  init spawns tasks a, b and c, then builds the address space of *)
(* task e and spawns it; spawn_task may be called by a running task later. *)
(* ensure_slot_mapped maps a slot's pages the first time, not its guard.   *)
FirstTasks == 3
TaskE == 3

(* Variant: the address space is built before any stack is mapped. *)
SpaceIsDueFirst == step = "init" /\ stacks = [slots |-> 0, pages |-> 0] /\ spaces["task_e"] = None

SpaceIsDue == step = "init" /\ stacks.slots = FirstTasks /\ spaces["task_e"] = None

EnsureSlotMapped ==
  /\ \/ step = "init" /\ stacks.slots <= TaskE /\ ~ SpaceIsDue
     \/ step = "run" /\ running # "boot" /\ stacks.slots < MaxSlots
  /\ LET page == StackPage(stacks.slots, stacks.pages) IN
     LET r == MapPage(page) IN
       /\ Uses(r)
       /\ \/ /\ r.ok /\ Flush(page) /\ UNCHANGED step
             /\ stacks' = IF stacks.pages + 1 < StackPages THEN [stacks EXCEPT !.pages = @ + 1]
                          ELSE [slots |-> stacks.slots + 1, pages |-> 0]
          \/ ~ r.ok /\ step' = "panic" /\ UNCHANGED <<stacks, tlb>>
  /\ UNCHANGED <<region, bump, heap, cr3, data, PAGE_FAULTS_DEMAND_PAGED, checks, spaces, running>>

(* Without an address space there is no task e. *)
InitBuildsSpace ==
  /\ SpaceIsDue
  /\ BuildSpace("task_e")
  /\ step' = IF NewSpace.ok THEN "init" ELSE "run"
  /\ UNCHANGED <<region, bump, heap, cr3, PAGE_FAULTS_DEMAND_PAGED, checks, stacks, running>>

InitEnds ==
  /\ step = "init" /\ stacks.slots > TaskE /\ step' = "run"
  /\ UNCHANGED <<bootVars, phys, mem, tlb, checks, short>>

----------------------------------------------------------------------------
(* The scheduler runs.  Each task needs its stack, the boot flow the heap, *)
(* and task e the page that only its own tables map.                       *)
SlotOf == [a |-> 0, b |-> 1, c |-> 2, e |-> TaskE, d |-> 4]
Tasks == {t \in DOMAIN SlotOf : SlotOf[t] < stacks.slots} \cup {"boot"}

Needs(t) ==
  IF t = "boot" THEN {HeapPage(i) : i \in 0 .. heap - 1}
  ELSE {StackPage(SlotOf[t], i) : i \in 0 .. StackPages - 1} \cup IF t = "e" THEN {PrivatePage} ELSE {}

DesiredL4Frame(t) == IF t = "e" THEN spaces["task_e"] ELSE BootL4

(* Variant: CR3 stays. *)
SwitchAddressSpaceNowhere(t) == UNCHANGED <<cr3, tlb>>

SwitchAddressSpaceTo(t) == LoadCr3(DesiredL4Frame(t))

Dispatch(t) ==
  /\ step = "run" /\ stacks.pages = 0 /\ t # running
  /\ SwitchAddressSpaceTo(t)
  /\ running' = t
  /\ UNCHANGED <<region, step, bump, heap, phys, mem, data, PAGE_FAULTS_DEMAND_PAGED, checks, spaces, stacks, short>>

(* Whoever runs uses its pages; one that is not mapped and not the demand  *)
(* page is a panic.  Task e compares what it reads with the private value. *)
Runs ==
  /\ step = "run"
  /\ IF \A page \in Needs(running) : Translate(page) # None
     THEN tlb' = [page \in DOMAIN tlb \cup Needs(running) |-> Translate(page)] /\ UNCHANGED step
     ELSE step' = "panic" /\ UNCHANGED tlb
  /\ IF running = "e"
     THEN LET f == Translate(PrivatePage) IN
          Record("TaskAddressSpace", f \in DOMAIN data /\ data[f] = "private")
     ELSE UNCHANGED checks
  /\ UNCHANGED <<bootVars, phys, mem, short>>

(* bring_up_ap, in the boot flow: the two fixed frames, whose tables come  *)
(* from PHYS; then the LAPIC is written to, and the AP walks the same      *)
(* tables to the trampoline.                                               *)
BringUpStarts ==
  /\ step = "run" /\ running = "boot" /\ step' = "map_lapic"
  /\ UNCHANGED <<bootVars, phys, mem, tlb, checks, short>>

AfterSmpPage == [map_lapic |-> "map_trampoline", map_trampoline |-> "send_ipi"]

MapPageToFrame ==
  /\ step \in DOMAIN AfterSmpPage
  /\ LET r == MapTo(mem, phys, "phys", BootL4, SmpPage[step], SmpFrame[step]) IN
       /\ Uses(r)
       /\ \/ r.ok /\ Flush(SmpPage[step]) /\ step' = AfterSmpPage[step] /\ UNCHANGED checks
          \/ ~ r.ok /\ Record("Smp", FALSE) /\ step' = "done" /\ UNCHANGED tlb
  /\ UNCHANGED bootVars

SendIpi ==
  /\ step = "send_ipi"
  /\ step' = IF \A s \in DOMAIN SmpPage : Walk(mem, cr3, SmpPage[s]) = SmpFrame[s] THEN "done" ELSE "panic"
  /\ Remember(SmpPage["map_lapic"])
  /\ UNCHANGED <<bootVars, phys, mem, checks, short>>

Next ==
  \/ InitBootstrap \/ StoreGlobals \/ ExtendWithRealPages \/ PhysRoundTrip \/ HeapHoldsData
  \/ page_fault_handler \/ TouchDemandPage \/ UnmapPage
  \/ DemoBuildsSpace \/ DemoSwitchesTo \/ DemoReads \/ DemoRestores \/ MapUserPage
  \/ EnsureSlotMapped \/ InitBuildsSpace \/ InitEnds
  \/ \E t \in Tasks : Dispatch(t)
  \/ Runs \/ BringUpStarts \/ MapPageToFrame \/ SendIpi

Spec == Init /\ [][Next]_vars

----------------------------------------------------------------------------
InUse == 0 .. bump - 1 \cup (0 .. region - 1 \ phys)
L4Tables == {BootL4} \cup {spaces[s] : s \in {s \in Spaces : spaces[s] # None}}
Targets == UNION {{mem[t][i] : i \in DOMAIN mem[t]} : t \in DOMAIN mem}
Below(tables) == DOMAIN mem \cap UNION {{mem[t][i] : i \in DOMAIN mem[t]} : t \in tables}
LiveTables ==
  LET p3 == Below(L4Tables) IN LET p2 == Below(p3) IN L4Tables \cup p3 \cup p2 \cup Below(p2)
KernelPages ==
  {HeapPage(i) : i \in 0 .. heap - 1} \cup {DemandPage}
  \cup {StackPage(slot, i) : slot \in 0 .. stacks.slots - 1, i \in 0 .. StackPages - 1}

(* Every variable keeps its type: no table or page lies outside the frames *)
(* there are.                                                              *)
TypeOK ==
  /\ region \in RegionSizes /\ bump \in 0 .. region /\ phys \subseteq 0 .. region - 1
  /\ heap \in 0 .. BootstrapPages + RealPages /\ PAGE_FAULTS_DEMAND_PAGED \in 0 .. 2
  /\ DOMAIN mem \subseteq 0 .. region - 1 \cup {BootL4} /\ BootL4 \in DOMAIN mem
  /\ Targets \subseteq 0 .. region - 1 \cup {LapicFrame, TrampolineFrame}
  /\ cr3 \in L4Tables /\ running \in Tasks /\ short \in BOOLEAN
  /\ stacks.slots \in 0 .. MaxSlots /\ stacks.pages \in 0 .. StackPages - 1
  /\ \A name \in DOMAIN checks : checks[name] \in BOOLEAN

(* A frame PHYS has handed out has one use: two entries only ever lead to  *)
(* one frame as the copies that AddressSpace::new made of an L4 entry, and *)
(* no entry leads to an L4 table or to a frame that is free.  Frames the   *)
(* bump allocator had used first are left to HeapFramesAreReserved, tables *)
(* of an AddressSpace::new that failed are dead.                           *)
FramesUsedOnce ==
  \A t \in LiveTables : \A i \in DOMAIN mem[t] :
    LET f == mem[t][i] IN
    f >= bump =>
      /\ f \notin phys \cup L4Tables
      /\ \A u \in LiveTables : \A j \in DOMAIN mem[u] :
           mem[u][j] = f => <<t, i>> = <<u, j>> \/ (i = j /\ {t, u} \subseteq L4Tables)

(* No frame is lost while PHYS has one left: what it has handed out is in  *)
(* a table, under a page or an L4 table.  The one call that finds it empty *)
(* half way loses no more than the frame of its page and, AddressSpace::   *)
(* new, the L4 table, with what already hangs below it.                    *)
NoFrameIsLost ==
  step # "init_bootstrap" =>
    /\ phys # {} => InUse \subseteq Targets \cup L4Tables
    /\ \E page, l4 \in InUse : InUse \subseteq Targets \cup L4Tables \cup {page, l4}

(* Whatever the processor remembers of its walks is what a walk would find *)
(* now: after an unmap_page the old frame is never written through a stale *)
(* translation.                                                            *)
TlbCoherent == \A page \in DOMAIN tlb : tlb[page] = Walk(mem, cr3, page)

(* The page of an address space is nowhere else: the boot table never maps *)
(* it, and no two address spaces have it on one frame.                     *)
PrivatePageIsPrivate ==
  /\ Walk(mem, BootL4, PrivatePage) = None
  /\ ~ short /\ None \notin {spaces[s] : s \in Spaces} =>
       Walk(mem, spaces["demo"], PrivatePage) # Walk(mem, spaces["task_e"], PrivatePage)

(* Every page of the kernel, those mapped after it was built included, is  *)
(* the same in task_e's address space: heap, demand page and all stacks.   *)
TasksSeeTheKernel ==
  spaces["task_e"] # None =>
    \A page \in KernelPages : Walk(mem, spaces["task_e"], page) = Walk(mem, BootL4, page)

(* With enough memory every check of the self-test passes, and nothing     *)
(* faults outside the demand page, whichever tables are loaded.            *)
ChecksPass == ~ short => step # "panic" /\ \A name \in DOMAIN checks : checks[name]

(* What the bootstrap heap consumed is excluded from PHYS.                 *)
HeapFramesAreReserved == phys \cap 0 .. bump - 1 = {}
=============================================================================
