--------------------------- MODULE ProcessMemory ---------------------------
(***************************************************************************)
(* ProcessMemoryContext and PageTable of reference-rs/src/memory.rs: the   *)
(* contexts of several processes over one physical allocator and one       *)
(* capability broker.  The allocator is PageArena's, which BuddyAllocator  *)
(* implements, for single pages: any page that is not allocated, or        *)
(* OutOfMemory when there is none.                                         *)
(*                                                                         *)
(* Of MemoryAccess only write is kept: read and execute are treated alike. *)
(***************************************************************************)
EXTENDS CapabilityBroker, Sequences

CONSTANTS Frame,        \* The physical pages.
          PAGE_SIZE,
          Size,         \* The sizes asked for.
          MaxAddr,      \* Bound: how far the heaps grow, from 0.
          MaxRegions    \* Bound: how many regions a process holds.

ASSUME MemoryAssumption ==
  /\ IsFiniteSet(Frame)
  /\ PAGE_SIZE \in Nat \ {0} /\ Size \subseteq Nat /\ MaxAddr \in Nat /\ MaxRegions \in Nat
  /\ {"read", "write", "create"} \subseteq Permission
  /\ "heap" \in Resource

VARIABLES allocated,    \* The pages the allocator has handed out.
          mappings, regions, next_addr   \* Of each process.

memoryVars == <<allocated, mappings, regions, next_addr>>
processVars == <<brokerVars, memoryVars>>

Free == Frame \ allocated

PageCount(size) == (size + PAGE_SIZE - 1) \div PAGE_SIZE

(* The virtual pages of a region, in the order the loops visit them. *)
PageAt(start, i) == start + i * PAGE_SIZE

MemoryInit ==
  /\ BrokerInit
  /\ allocated = {}
  /\ mappings = [pid \in Principal |-> <<>>]
  /\ regions = [pid \in Principal |-> <<>>]
  /\ next_addr = [pid \in Principal |-> 0]

----------------------------------------------------------------------------
(* map_page, for all pages of the function new at once. *)
Mapped(table, new) == [v \in DOMAIN table \cup DOMAIN new |-> IF v \in DOMAIN new THEN new[v] ELSE table[v]]

(* unmap_page, for a set of pages at once.  Variant: they stay mapped. *)
StillMapped(table, pages) == table

Unmapped(table, pages) == [v \in DOMAIN table \ pages |-> table[v]]

(* Where the next region goes.  Variant: over this one. *)
AddrUnchanged(start, pages) == start

AddrAfter(start, pages) == start + pages * PAGE_SIZE

Needed(write) == {"read", "create"} \cup (IF write THEN {"write"} ELSE {})

(* The ways to give a physical page each to the first n pages at start. *)
Placements(start, n) ==
  {f \in [{PageAt(start, i) : i \in 0 .. n - 1} -> Free] : \A v, w \in DOMAIN f : v # w => f[v] # f[w]}

(* allocate_virtual.  When memory runs out in the loop the call fails, and *)
(* what has been mapped so far stays mapped.                               *)
AllocateVirtual(pid, size, write) ==
  /\ LET start == next_addr[pid]
         pages == PageCount(size)
         available == IF Cardinality(Free) < pages THEN Cardinality(Free) ELSE pages
         decision == CheckAccess(pid, "heap", Needed(write))
     IN  \/ decision # "Allowed" /\ UNCHANGED memoryVars
         \/ /\ decision = "Allowed" /\ AddrAfter(start, pages) <= MaxAddr /\ Len(regions[pid]) < MaxRegions
            /\ \E f \in Placements(start, available) :
                 /\ allocated' = allocated \cup {f[v] : v \in DOMAIN f}
                 /\ mappings' = [mappings EXCEPT ![pid] = Mapped(@, [v \in DOMAIN f |-> [phys |-> f[v], write |-> write]])]
            /\ \/ available < pages /\ UNCHANGED <<regions, next_addr>>
               \/ /\ available = pages
                  /\ next_addr' = [next_addr EXCEPT ![pid] = AddrAfter(start, pages)]
                  /\ regions' = [regions EXCEPT ![pid] = Append(@, [start |-> start, end |-> start + size, write |-> write])]
  /\ UNCHANGED brokerVars

(* deallocate_virtual, of the first region that starts at vaddr.  Its loop *)
(* ends early at a page that is not mapped.                                *)
DeallocateVirtual(pid, vaddr) ==
  \E k \in 1 .. Len(regions[pid]) :
    /\ regions[pid][k].start = vaddr /\ \A j \in 1 .. k - 1 : regions[pid][j].start # vaddr
    /\ LET r == regions[pid][k]
           table == mappings[pid]
           unmapped == {PageAt(r.start, i) : i \in {i \in 0 .. PageCount(r.end - r.start) - 1 :
                                                     \A j \in 0 .. i : PageAt(r.start, j) \in DOMAIN table}}
       IN  /\ mappings' = [mappings EXCEPT ![pid] = Unmapped(@, unmapped)]
           /\ allocated' = allocated \ {table[v].phys : v \in unmapped}
    /\ regions' = [regions EXCEPT ![pid] = SubSeq(@, 1, k - 1) \o SubSeq(@, k + 1, Len(@))]
    /\ UNCHANGED <<brokerVars, next_addr>>

(* handle_page_fault, in the first region that holds vaddr.  Its errors    *)
(* (no such region, a write to a region that does not allow it, no memory) *)
(* change nothing.  It does not look whether the page is mapped already.   *)
HandlePageFault(pid, vaddr, is_write) ==
  \E k \in 1 .. Len(regions[pid]), page \in Free :
    LET r == regions[pid][k]
    IN  /\ r.start <= vaddr /\ vaddr < r.end
        /\ \A j \in 1 .. k - 1 : ~ (regions[pid][j].start <= vaddr /\ vaddr < regions[pid][j].end)
        /\ is_write => r.write
        /\ allocated' = allocated \cup {page}
        /\ mappings' = [mappings EXCEPT ![pid] =
                          Mapped(@, [v \in {vaddr - (vaddr % PAGE_SIZE)} |-> [phys |-> page, write |-> r.write]])]
        /\ UNCHANGED <<brokerVars, regions, next_addr>>

MemoryCapabilityCall ==
  /\ \/ \E pid \in Principal, scope \in Scope, permissions \in {Needed(TRUE), Needed(FALSE)} :
          Issue(pid, scope, permissions, MaxTime + 1)
     \/ \E id \in TokenId : Revoke(id)
  /\ UNCHANGED memoryVars

MemoryNext ==
  \/ \E pid \in Principal, size \in Size, write \in BOOLEAN : AllocateVirtual(pid, size, write)
  \/ \E pid \in Principal, vaddr \in 0 .. MaxAddr : DeallocateVirtual(pid, vaddr)
  \/ \E pid \in Principal, vaddr \in 0 .. MaxAddr, is_write \in BOOLEAN : HandlePageFault(pid, vaddr, is_write)
  \/ MemoryCapabilityCall

MemorySpec == MemoryInit /\ [][MemoryNext]_processVars

----------------------------------------------------------------------------
(* memory_process_isolation: no physical page is mapped twice, in one      *)
(* process or in two, and none that has been given back is still mapped.   *)
MappedOnce ==
  \A p, q \in Principal : \A v \in DOMAIN mappings[p], w \in DOMAIN mappings[q] :
    /\ mappings[p][v].phys \in allocated
    /\ mappings[p][v].phys = mappings[q][w].phys => p = q /\ v = w

(* Every page of a region is mapped, with the region's access and whatever *)
(* failed or was given back before, so deallocate_virtual never stops half *)
(* way.                                                                    *)
RegionsAreMapped ==
  \A pid \in Principal : \A k \in 1 .. Len(regions[pid]) :
    LET r == regions[pid][k]
    IN  \A i \in 0 .. PageCount(r.end - r.start) - 1 :
          /\ PageAt(r.start, i) \in DOMAIN mappings[pid]
          /\ mappings[pid][PageAt(r.start, i)].write = r.write

(* When every region has been given back, every page is free again.        *)
NoPageIsLost == (\A pid \in Principal : regions[pid] = <<>>) => allocated = {}
=============================================================================
