------------------------- MODULE KernelPagingProofs -------------------------
(***************************************************************************)
(* The invariants of KernelPaging.tla, for every size of the two heaps, of *)
(* the stacks and of the region.                                           *)
(*                                                                         *)
(* The tables form a forest: a level can be given to every table so that   *)
(* an entry leads one level down or, from the last level, to a page, no    *)
(* two entries lead to one frame but the copies of an L4 entry, and        *)
(* nothing leads to a free frame.  The entries of the bootstrap heap are   *)
(* exempt, for store_globals hands three of its frames to PHYS.  In a      *)
(* forest the walks to two pages meet only where their indices agree, so   *)
(* that mapping or unmapping one page leaves the walks to all others; the  *)
(* rest of the invariant says which pages are mapped at which step.        *)
(***************************************************************************)
EXTENDS KernelPaging, TLAPS, FiniteSetTheorems, WellFoundedInduction

----------------------------------------------------------------------------
(* Tables as a forest. *)

(* The frame of the heap's last table, which the bump allocator took. *)
HeapL1 == 3

(* The entries of the bootstrap heap, whose last frames are also in PHYS.  *)
Exempt(t, i) == t = HeapL1 /\ i \in 0 .. BootstrapPages - 1

(* Nobody but the exempted entries leads to the frame, and it is not free. *)
Fresh(m, free, f) ==
  /\ f \notin DOMAIN m /\ f \notin free /\ f # None
  /\ \A t \in DOMAIN m : \A i \in DOMAIN m[t] : m[t][i] = f => Exempt(t, i)

(* Page tables in four levels: an entry above the last level leads to a    *)
(* table one level down, one of the last level to a page; nothing leads to *)
(* a free frame; and what two entries lead to are the copies of an L4      *)
(* entry, other than the private one.                                      *)
Forest(m, free, lvl) ==
  /\ lvl \in [DOMAIN m -> 1 .. 4]
  /\ None \notin DOMAIN m /\ None \notin free /\ HeapL1 \in DOMAIN m /\ lvl[HeapL1] = 1
  /\ \A t \in DOMAIN m : t \notin free
  /\ \A t \in DOMAIN m : \A i \in DOMAIN m[t] : m[t][i] # None
  /\ \A t \in DOMAIN m : \A i \in DOMAIN m[t] :
       lvl[t] > 1 => m[t][i] \in DOMAIN m /\ lvl[m[t][i]] = lvl[t] - 1
  /\ \A t \in DOMAIN m : \A i \in DOMAIN m[t] :
       lvl[t] = 1 => Exempt(t, i) \/ (m[t][i] \notin DOMAIN m /\ m[t][i] \notin free)
  /\ \A t, u \in DOMAIN m : \A i \in DOMAIN m[t] : \A j \in DOMAIN m[u] :
       m[t][i] = m[u][j] => \/ Exempt(t, i) \/ Exempt(u, j)
                            \/ t = u /\ i = j
                            \/ lvl[t] = 4 /\ lvl[u] = 4 /\ i = j /\ i # 1

(* What Put and SetEntry return. *)
LEMMA PutIs ==
  ASSUME NEW f, NEW x, NEW v
  PROVE  /\ DOMAIN Put(f, x, v) = DOMAIN f \cup {x}
         /\ Put(f, x, v)[x] = v
         /\ \A y \in DOMAIN f : y # x => Put(f, x, v)[y] = f[y]
  BY DEF Put

(* An entry that is set: the rest of the tables stay. *)
LEMMA SetEntryIs ==
  ASSUME NEW m, NEW t \in DOMAIN m, NEW i, NEW f
  PROVE  /\ DOMAIN SetEntry(m, t, i, f) = DOMAIN m
         /\ DOMAIN (SetEntry(m, t, i, f)[t]) = DOMAIN m[t] \cup {i}
         /\ SetEntry(m, t, i, f)[t][i] = f
         /\ \A j \in DOMAIN m[t] : j # i => SetEntry(m, t, i, f)[t][j] = m[t][j]
         /\ \A u \in DOMAIN m : u # t => SetEntry(m, t, i, f)[u] = m[u]
<1>1. SetEntry(m, t, i, f)[t] = Put(m[t], i, f)
  BY DEF SetEntry
<1>2. DOMAIN SetEntry(m, t, i, f) = DOMAIN m /\ \A u \in DOMAIN m : u # t => SetEntry(m, t, i, f)[u] = m[u]
  BY DEF SetEntry
<1>3. /\ DOMAIN Put(m[t], i, f) = DOMAIN m[t] \cup {i} /\ Put(m[t], i, f)[i] = f
      /\ \A j \in DOMAIN m[t] : j # i => Put(m[t], i, f)[j] = m[t][j]
  BY DEF Put
<1> QED
  BY <1>1, <1>2, <1>3

(* A free frame that is taken is fresh. *)
LEMMA FreeIsFresh ==
  ASSUME NEW m, NEW free, NEW lvl, Forest(m, free, lvl), NEW f \in free
  PROVE  Forest(m, free \ {f}, lvl) /\ Fresh(m, free \ {f}, f)
<1>1. Forest(m, free \ {f}, lvl)
  BY DEF Forest
<1>2. ASSUME NEW t \in DOMAIN m, NEW i \in DOMAIN m[t], m[t][i] = f PROVE Exempt(t, i)
  <2>1. lvl[t] \in 1 .. 4
    BY DEF Forest
  <2> QED
    BY <1>2, <2>1 DEF Forest
<1> QED
  BY <1>1, <1>2 DEF Forest, Fresh

(* What a new table f under entry i of t makes of the tables. *)
NewTable(m, t, i, f) == SetEntry(Put(m, f, <<>>), t, i, f)

(* The tables n are those of m and the empty f, to which entry i of t leads. *)
TableAdded(n, m, t, i, f) ==
  /\ DOMAIN n = DOMAIN m \cup {f} /\ DOMAIN n[f] = {}
  /\ DOMAIN n[t] = DOMAIN m[t] \cup {i} /\ n[t][i] = f
  /\ \A j \in DOMAIN m[t] : n[t][j] = m[t][j]
  /\ \A u \in DOMAIN m : u # t => n[u] = m[u]

(* A frame becomes a table that the entry leads to, as create_next_table   *)
(* makes it.                                                               *)
LEMMA NewTableIs ==
  ASSUME NEW m, NEW t \in DOMAIN m, NEW i, NEW f, f \notin DOMAIN m, i \notin DOMAIN m[t]
  PROVE  TableAdded(NewTable(m, t, i, f), m, t, i, f)
<1> DEFINE n == Put(m, f, <<>>)
<1>1. DOMAIN n = DOMAIN m \cup {f} /\ n[f] = <<>> /\ \A u \in DOMAIN m : n[u] = m[u]
  BY DEF Put
<1>2. DOMAIN (n[f]) = {}
  BY <1>1
<1> HIDE DEF n
<1>3. t \in DOMAIN n /\ f # t /\ n[t] = m[t]
  BY <1>1
<1>4. \A j \in DOMAIN m[t] : j # i
  OBVIOUS
<1> QED
  BY <1>1, <1>2, <1>3, <1>4, SetEntryIs DEF NewTable, n, TableAdded

(* Hanging a fresh, empty table below an entry above the last level keeps  *)
(* the forest.                                                             *)
LEMMA NewTableKeepsForest ==
  ASSUME NEW m, NEW free, NEW lvl, Forest(m, free, lvl), NEW f, Fresh(m, free, f),
         NEW t \in DOMAIN m, lvl[t] > 1, NEW i, i \notin DOMAIN m[t]
  PROVE  Forest(NewTable(m, t, i, f), free, Put(lvl, f, lvl[t] - 1))
<1> DEFINE n == NewTable(m, t, i, f)
           l == Put(lvl, f, lvl[t] - 1)
<1>1. f \notin DOMAIN m /\ f \notin free /\ f # None
  BY DEF Fresh
<1>a. f \notin DOMAIN m /\ i \notin DOMAIN m[t] /\ t \in DOMAIN m
  BY <1>1
<1>b. TableAdded(n, m, t, i, f)
  BY <1>a, NewTableIs
<1>2. /\ DOMAIN n = DOMAIN m \cup {f} /\ DOMAIN n[f] = {} /\ DOMAIN n[t] = DOMAIN m[t] \cup {i} /\ n[t][i] = f
      /\ \A j \in DOMAIN m[t] : n[t][j] = m[t][j]
      /\ \A u \in DOMAIN m : u # t => n[u] = m[u]
  <2> HIDE DEF n
  <2> QED
    BY <1>b DEF TableAdded
<1>3. /\ DOMAIN lvl = DOMAIN m /\ \A u \in DOMAIN m : lvl[u] \in 1 .. 4
  BY DEF Forest
<1>4. l \in [DOMAIN n -> 1 .. 4] /\ l[f] = lvl[t] - 1 /\ \A u \in DOMAIN m : l[u] = lvl[u]
  BY <1>1, <1>2, <1>3 DEF Put
<1> HIDE DEF n, l
(* The entries there are: the new one, and those there were. *)
<1>5. ASSUME NEW u \in DOMAIN n, NEW j \in DOMAIN n[u]
      PROVE  \/ u = t /\ j = i /\ n[u][j] = f
             \/ u \in DOMAIN m /\ j \in DOMAIN m[u] /\ n[u][j] = m[u][j]
  BY <1>1, <1>2
<1>6. ASSUME NEW u \in DOMAIN m, NEW j \in DOMAIN m[u] PROVE m[u][j] # f \/ Exempt(u, j)
  BY DEF Fresh
<1>7. ~ Exempt(t, i)
  BY DEF Forest, Exempt
<1>8. \A u \in DOMAIN n : \A j \in DOMAIN n[u] : n[u][j] # None
  BY <1>1, <1>5 DEF Forest
<1>9. ASSUME NEW u \in DOMAIN n, NEW j \in DOMAIN n[u], l[u] > 1
      PROVE  n[u][j] \in DOMAIN n /\ l[n[u][j]] = l[u] - 1
  <2>1. CASE u = t /\ j = i /\ n[u][j] = f
    BY <2>1, <1>2, <1>4
  <2>2. CASE u \in DOMAIN m /\ j \in DOMAIN m[u] /\ n[u][j] = m[u][j]
    <3>1. m[u][j] \in DOMAIN m /\ lvl[m[u][j]] = lvl[u] - 1
      BY <2>2, <1>4, <1>9 DEF Forest
    <3> QED
      BY <2>2, <3>1, <1>2, <1>4
  <2> QED
    BY <1>5, <2>1, <2>2
<1>10. ASSUME NEW u \in DOMAIN n, NEW j \in DOMAIN n[u], l[u] = 1
       PROVE  Exempt(u, j) \/ (n[u][j] \notin DOMAIN n /\ n[u][j] \notin free)
  <2>1. u # t \/ j # i
    BY <1>4, <1>10
  <2>2. u \in DOMAIN m /\ j \in DOMAIN m[u] /\ n[u][j] = m[u][j] /\ lvl[u] = 1
    BY <1>5, <2>1, <1>4, <1>10
  <2> QED
    BY <2>2, <1>2, <1>6 DEF Forest
<1>11. ASSUME NEW u \in DOMAIN n, NEW v \in DOMAIN n, NEW j \in DOMAIN n[u], NEW k \in DOMAIN n[v], n[u][j] = n[v][k]
       PROVE  \/ Exempt(u, j) \/ Exempt(v, k) \/ (u = v /\ j = k)
              \/ l[u] = 4 /\ l[v] = 4 /\ j = k /\ j # 1
  <2>1. CASE u \in DOMAIN m /\ j \in DOMAIN m[u] /\ n[u][j] = m[u][j] /\ v \in DOMAIN m /\ k \in DOMAIN m[v] /\ n[v][k] = m[v][k]
    <3>1. m[u][j] = m[v][k]
      BY <2>1, <1>11
    <3>2. \/ Exempt(u, j) \/ Exempt(v, k) \/ (u = v /\ j = k) \/ (lvl[u] = 4 /\ lvl[v] = 4 /\ j = k /\ j # 1)
      BY <2>1, <3>1 DEF Forest
    <3> QED
      BY <2>1, <3>2, <1>4
  <2>2. CASE u = t /\ j = i /\ n[u][j] = f
    BY <2>2, <1>5, <1>6, <1>11
  <2>3. CASE v = t /\ k = i /\ n[v][k] = f
    BY <2>3, <1>5, <1>6, <1>11
  <2> QED
    BY <2>1, <2>2, <2>3, <1>5
<1>12. None \notin DOMAIN n /\ None \notin free /\ HeapL1 \in DOMAIN n /\ l[HeapL1] = 1 /\ \A u \in DOMAIN n : u \notin free
  BY <1>1, <1>2, <1>4 DEF Forest
<1> QED
  BY <1>4, <1>8, <1>9, <1>10, <1>11, <1>12 DEF Forest, n, l

(* The page f under a free entry of a table of the last level. *)
LEMMA LeafKeepsForest ==
  ASSUME NEW m, NEW free, NEW lvl, Forest(m, free, lvl), NEW f, Fresh(m, free, f),
         NEW t \in DOMAIN m, lvl[t] = 1, NEW i, i \notin DOMAIN m[t]
  PROVE  Forest(SetEntry(m, t, i, f), free, lvl)
<1> DEFINE n == SetEntry(m, t, i, f)
<1>1. f \notin DOMAIN m /\ f \notin free /\ f # None
  BY DEF Fresh
<1>2. /\ DOMAIN n = DOMAIN m /\ DOMAIN n[t] = DOMAIN m[t] \cup {i} /\ n[t][i] = f
      /\ \A j \in DOMAIN m[t] : n[t][j] = m[t][j]
      /\ \A u \in DOMAIN m : u # t => n[u] = m[u]
  BY SetEntryIs
<1> HIDE DEF n
<1>5. ASSUME NEW u \in DOMAIN n, NEW j \in DOMAIN n[u]
      PROVE  \/ u = t /\ j = i /\ n[u][j] = f
             \/ u \in DOMAIN m /\ j \in DOMAIN m[u] /\ n[u][j] = m[u][j]
  BY <1>1, <1>2
<1>6. ASSUME NEW u \in DOMAIN m, NEW j \in DOMAIN m[u] PROVE m[u][j] # f \/ Exempt(u, j)
  BY DEF Fresh
<1>8. \A u \in DOMAIN n : \A j \in DOMAIN n[u] : n[u][j] # None
  BY <1>1, <1>5 DEF Forest
<1>9. ASSUME NEW u \in DOMAIN n, NEW j \in DOMAIN n[u], lvl[u] > 1
      PROVE  n[u][j] \in DOMAIN n /\ lvl[n[u][j]] = lvl[u] - 1
  BY <1>9, <1>5, <1>2 DEF Forest
<1>10. ASSUME NEW u \in DOMAIN n, NEW j \in DOMAIN n[u], lvl[u] = 1
       PROVE  Exempt(u, j) \/ (n[u][j] \notin DOMAIN n /\ n[u][j] \notin free)
  BY <1>10, <1>5, <1>1, <1>2 DEF Forest
<1>11. ASSUME NEW u \in DOMAIN n, NEW v \in DOMAIN n, NEW j \in DOMAIN n[u], NEW k \in DOMAIN n[v], n[u][j] = n[v][k]
       PROVE  \/ Exempt(u, j) \/ Exempt(v, k) \/ (u = v /\ j = k)
              \/ lvl[u] = 4 /\ lvl[v] = 4 /\ j = k /\ j # 1
  <2>1. CASE u \in DOMAIN m /\ j \in DOMAIN m[u] /\ n[u][j] = m[u][j] /\ v \in DOMAIN m /\ k \in DOMAIN m[v] /\ n[v][k] = m[v][k]
    <3>1. m[u][j] = m[v][k]
      BY <2>1, <1>11
    <3> QED
      BY <2>1, <3>1 DEF Forest
  <2>2. CASE u = t /\ j = i /\ n[u][j] = f
    BY <2>2, <1>5, <1>6, <1>11
  <2>3. CASE v = t /\ k = i /\ n[v][k] = f
    BY <2>3, <1>5, <1>6, <1>11
  <2> QED
    BY <2>1, <2>2, <2>3, <1>5
<1> QED
  BY <1>2, <1>8, <1>9, <1>10, <1>11 DEF Forest, n

(* A copy n of the L4 table b, which does not have the private entry. *)
LEMMA CopyKeepsForest ==
  ASSUME NEW m, NEW free, NEW lvl, Forest(m, free, lvl), NEW f, Fresh(m, free, f),
         NEW b \in DOMAIN m, lvl[b] = 4, 1 \notin DOMAIN m[b]
  PROVE  Forest(Put(m, f, m[b]), free, Put(lvl, f, 4))
<1> DEFINE n == Put(m, f, m[b])
           l == Put(lvl, f, 4)
<1>1. f \notin DOMAIN m /\ f \notin free /\ f # None
  BY DEF Fresh
<1>2. /\ DOMAIN n = DOMAIN m \cup {f} /\ n[f] = m[b] /\ \A u \in DOMAIN m : n[u] = m[u]
  BY <1>1 DEF Put
<1>3. /\ DOMAIN lvl = DOMAIN m /\ \A u \in DOMAIN m : lvl[u] \in 1 .. 4
  BY DEF Forest
<1>4. l \in [DOMAIN n -> 1 .. 4] /\ l[f] = 4 /\ \A u \in DOMAIN m : l[u] = lvl[u]
  BY <1>1, <1>2, <1>3 DEF Put
<1> HIDE DEF n, l
<1> DEFINE o(u) == IF u = f THEN b ELSE u
<1>5. ASSUME NEW u \in DOMAIN n, NEW j \in DOMAIN n[u]
      PROVE  o(u) \in DOMAIN m /\ j \in DOMAIN m[o(u)] /\ n[u][j] = m[o(u)][j] /\ l[u] = lvl[o(u)] /\ (o(u) = b => j # 1)
  BY <1>1, <1>2, <1>4
<1>6. ASSUME NEW u \in DOMAIN n, NEW j \in DOMAIN m[o(u)], Exempt(o(u), j) PROVE o(u) = u
  BY <1>6 DEF Exempt, Forest
<1>a. \A u \in DOMAIN n : o(u) = b \/ o(u) = u
  OBVIOUS
<1>7. ASSUME NEW u \in DOMAIN m, NEW j \in DOMAIN m[u] PROVE m[u][j] # f \/ Exempt(u, j)
  BY DEF Fresh
<1> HIDE DEF o
<1>8. \A u \in DOMAIN n : \A j \in DOMAIN n[u] : n[u][j] # None
  BY <1>5 DEF Forest
<1>9. ASSUME NEW u \in DOMAIN n, NEW j \in DOMAIN n[u], l[u] > 1
      PROVE  n[u][j] \in DOMAIN n /\ l[n[u][j]] = l[u] - 1
  BY <1>9, <1>5, <1>2, <1>4 DEF Forest
<1>10. ASSUME NEW u \in DOMAIN n, NEW j \in DOMAIN n[u], l[u] = 1
       PROVE  Exempt(u, j) \/ (n[u][j] \notin DOMAIN n /\ n[u][j] \notin free)
  <2>1. CASE Exempt(o(u), j)
    BY <2>1, <1>5, <1>6
  <2>2. CASE ~ Exempt(o(u), j)
    BY <2>2, <1>10, <1>5, <1>2, <1>7 DEF Forest
  <2> QED
    BY <2>1, <2>2
<1>11. ASSUME NEW u \in DOMAIN n, NEW v \in DOMAIN n, NEW j \in DOMAIN n[u], NEW k \in DOMAIN n[v], n[u][j] = n[v][k]
       PROVE  \/ Exempt(u, j) \/ Exempt(v, k) \/ (u = v /\ j = k)
              \/ l[u] = 4 /\ l[v] = 4 /\ j = k /\ j # 1
  <2>1. \/ Exempt(o(u), j) \/ Exempt(o(v), k) \/ (o(u) = o(v) /\ j = k)
        \/ l[u] = 4 /\ l[v] = 4 /\ j = k /\ j # 1
    <3>1. o(u) \in DOMAIN m /\ j \in DOMAIN m[o(u)] /\ n[u][j] = m[o(u)][j] /\ l[u] = lvl[o(u)]
      BY <1>5
    <3>2. o(v) \in DOMAIN m /\ k \in DOMAIN m[o(v)] /\ n[v][k] = m[o(v)][k] /\ l[v] = lvl[o(v)]
      BY <1>5
    <3>3. m[o(u)][j] = m[o(v)][k]
      BY <3>1, <3>2, <1>11
    <3> QED
      BY <3>1, <3>2, <3>3 DEF Forest
  <2>2. CASE Exempt(o(u), j)
    BY <2>2, <1>5, <1>6
  <2>4. CASE Exempt(o(v), k)
    BY <2>4, <1>5, <1>6
  <2>3. CASE o(u) = o(v) /\ j = k /\ u # v
    <3>1. o(u) = b
      BY <2>3, <1>a
    <3> QED
      BY <2>3, <3>1, <1>5
  <2> QED
    BY <2>1, <2>2, <2>3, <2>4
<1>12. None \notin DOMAIN n /\ None \notin free /\ HeapL1 \in DOMAIN n /\ l[HeapL1] = 1 /\ \A u \in DOMAIN n : u \notin free
  BY <1>1, <1>2, <1>4 DEF Forest
<1> QED
  BY <1>4, <1>8, <1>9, <1>10, <1>11, <1>12 DEF Forest, n, l

----------------------------------------------------------------------------
(* Growing the forest, and the walks over it. *)

(* Every entry of m is one of n. *)
Extends(m, n) ==
  /\ DOMAIN m \subseteq DOMAIN n
  /\ \A t \in DOMAIN m : \A i \in DOMAIN m[t] : i \in DOMAIN n[t] /\ n[t][i] = m[t][i]

(* The tables n, with the frames in left free, come of m by tables made of *)
(* frames of free on the way down from an entry of the L4 table root: they *)
(* are all in use, and no walk has changed.                                *)
Grown(m, free, lvl, n, left, l, root, index) ==
  /\ Forest(n, left, l)
  /\ left \subseteq free /\ DOMAIN n = DOMAIN m \cup (free \ left)
  /\ \A t \in DOMAIN m : l[t] = lvl[t]
  /\ Extends(m, n)
  /\ \A t \in DOMAIN n : \A i \in DOMAIN n[t] : (t \in DOMAIN m /\ i \in DOMAIN m[t]) \/ n[t][i] \in free \ left
  /\ \A f \in free \ left : \E t \in DOMAIN n : \E i \in DOMAIN n[t] : n[t][i] = f
  /\ \A r \in DOMAIN m : lvl[r] = 4 => \A q : Walk(n, r, q) = Walk(m, r, q)
  /\ \A t \in DOMAIN m : lvl[t] = 4 => \A i \in DOMAIN n[t] : i \in DOMAIN m[t] \/ (t = root /\ i = index)

(* An entry above the last level leads one level down. *)
LEMMA EntryIs ==
  ASSUME NEW m, NEW free, NEW lvl, Forest(m, free, lvl), NEW t \in DOMAIN m, lvl[t] > 1, NEW i
  PROVE  \/ Entry(m, t, i) = None /\ i \notin DOMAIN m[t]
         \/ /\ Entry(m, t, i) \in DOMAIN m /\ lvl[Entry(m, t, i)] = lvl[t] - 1
            /\ i \in DOMAIN m[t] /\ Entry(m, t, i) = m[t][i] /\ Entry(m, t, i) # None
  BY DEF Entry, Forest

(* A walk that has come to an absent entry ends there. *)
LEMMA NoneHasNoEntry ==
  ASSUME NEW m, NEW free, NEW lvl, Forest(m, free, lvl), NEW i
  PROVE  Entry(m, None, i) = None
  BY DEF Entry, Forest

(* The tables on the way of a walk from an L4 table. *)
OnTheWay(m, lvl, a, b, c, q) ==
  /\ a = None \/ (a \in DOMAIN m /\ lvl[a] = 3)
  /\ b = None \/ (b \in DOMAIN m /\ lvl[b] = 2 /\ a # None /\ q[2] \in DOMAIN m[a] /\ b = m[a][q[2]])
  /\ c = None \/ (c \in DOMAIN m /\ lvl[c] = 1 /\ b # None /\ q[3] \in DOMAIN m[b] /\ c = m[b][q[3]])

(* Every table a walk from an L4 table passes is None or stands at its     *)
(* level.                                                                  *)
LEMMA WayIs ==
  ASSUME NEW m, NEW free, NEW lvl, Forest(m, free, lvl), NEW r \in DOMAIN m, lvl[r] = 4, NEW q, NEW a, NEW b, NEW c,
         a = Entry(m, r, q[1]), b = Entry(m, a, q[2]), c = Entry(m, b, q[3])
  PROVE  OnTheWay(m, lvl, a, b, c, q) /\ (a # None => q[1] \in DOMAIN m[r] /\ a = m[r][q[1]])
<1>0. lvl[r] > 1 /\ \A i : Entry(m, None, i) = None
  BY NoneHasNoEntry
<1>1. (a = None \/ (a \in DOMAIN m /\ lvl[a] = 3)) /\ (a # None => q[1] \in DOMAIN m[r] /\ a = m[r][q[1]])
  BY <1>0, EntryIs
<1>2. b = None \/ (b \in DOMAIN m /\ lvl[b] = 2 /\ a # None /\ q[2] \in DOMAIN m[a] /\ b = m[a][q[2]])
  <2>1. CASE a = None
    BY <2>1, <1>0
  <2>2. CASE a # None
    <3>1. a \in DOMAIN m /\ lvl[a] > 1 /\ lvl[a] = 3
      BY <2>2, <1>1
    <3> QED
      BY <2>2, <3>1, EntryIs
  <2> QED
    BY <2>1, <2>2
<1>3. c = None \/ (c \in DOMAIN m /\ lvl[c] = 1 /\ b # None /\ q[3] \in DOMAIN m[b] /\ c = m[b][q[3]])
  <2>1. CASE b = None
    BY <2>1, <1>0
  <2>2. CASE b # None
    <3>1. b \in DOMAIN m /\ lvl[b] > 1 /\ lvl[b] = 2
      BY <2>2, <1>2
    <3> QED
      BY <2>2, <3>1, EntryIs
  <2> QED
    BY <2>1, <2>2
<1> QED
  BY <1>1, <1>2, <1>3 DEF OnTheWay

(* The entries of the tables with a new one. *)
LEMMA NewTableEntry ==
  ASSUME NEW m, NEW t \in DOMAIN m, NEW i, NEW f, f \notin DOMAIN m, i \notin DOMAIN m[t],
         NEW n, TableAdded(n, m, t, i, f), None \notin DOMAIN m, f # None
  PROVE  /\ \A u \in DOMAIN m : \A j : ~ (u = t /\ j = i) => Entry(n, u, j) = Entry(m, u, j)
         /\ Entry(n, t, i) = f /\ Entry(m, t, i) = None
         /\ \A j : Entry(n, f, j) = None /\ Entry(n, None, j) = None /\ Entry(m, None, j) = None
<1>1. ASSUME NEW u \in DOMAIN m, NEW j, ~ (u = t /\ j = i) PROVE Entry(n, u, j) = Entry(m, u, j)
  <2>1. CASE u = t
    BY <2>1, <1>1 DEF Entry, TableAdded
  <2>2. CASE u # t
    BY <2>2, <1>1 DEF Entry, TableAdded
  <2> QED
    BY <2>1, <2>2
<1> QED
  BY <1>1 DEF Entry, TableAdded

(* A new table is empty: no walk changes. *)
LEMMA NewTableKeepsWalks ==
  ASSUME NEW m, NEW free, NEW lvl, Forest(m, free, lvl), NEW f, Fresh(m, free, f),
         NEW t \in DOMAIN m, lvl[t] > 1, NEW i, i \notin DOMAIN m[t],
         NEW n, TableAdded(n, m, t, i, f), NEW r \in DOMAIN m, lvl[r] = 4, NEW q
  PROVE  Walk(n, r, q) = Walk(m, r, q)
<1> DEFINE a == Entry(m, r, q[1])
           b == Entry(m, a, q[2])
           c == Entry(m, b, q[3])
<1>1. OnTheWay(m, lvl, a, b, c, q)
  BY WayIs
<1>2. /\ \A u \in DOMAIN m : \A j : ~ (u = t /\ j = i) => Entry(n, u, j) = Entry(m, u, j)
      /\ Entry(n, t, i) = f /\ Entry(m, t, i) = None
      /\ \A j : Entry(n, f, j) = None /\ Entry(n, None, j) = None /\ Entry(m, None, j) = None
  BY NewTableEntry DEF Fresh, Forest
<1>3. /\ Walk(m, r, q) = Entry(m, c, q[4])
      /\ Walk(n, r, q) = Entry(n, Entry(n, Entry(n, Entry(n, r, q[1]), q[2]), q[3]), q[4])
  BY DEF Walk, WalkToL1
<1>a. a = Entry(m, r, q[1]) /\ b = Entry(m, a, q[2]) /\ c = Entry(m, b, q[3])
  OBVIOUS
<1> HIDE DEF a, b, c
<1>4. CASE r = t /\ q[1] = i
  <2>1. a = None /\ Entry(n, r, q[1]) = f
    BY <1>2, <1>4, <1>a
  <2> QED
    BY <2>1, <1>2, <1>3, <1>a
<1>5. CASE ~ (r = t /\ q[1] = i) /\ a = t /\ q[2] = i
  <2>1. b = None /\ Entry(n, r, q[1]) = t /\ Entry(n, t, q[2]) = f
    BY <1>2, <1>5, <1>a
  <2> QED
    BY <2>1, <1>2, <1>3, <1>a
<1>6. CASE ~ (r = t /\ q[1] = i) /\ ~ (a = t /\ q[2] = i) /\ b = t /\ q[3] = i
  <2>1. c = None /\ Entry(n, r, q[1]) = a /\ Entry(n, a, q[2]) = b /\ Entry(n, b, q[3]) = f
    BY <1>1, <1>2, <1>6, <1>a DEF OnTheWay
  <2> QED
    BY <2>1, <1>2, <1>3, <1>a
<1>7. CASE ~ (r = t /\ q[1] = i) /\ ~ (a = t /\ q[2] = i) /\ ~ (b = t /\ q[3] = i)
  <2>1. Entry(n, r, q[1]) = a /\ Entry(n, a, q[2]) = b
    BY <1>1, <1>2, <1>7, <1>a DEF OnTheWay
  <2>2. Entry(n, b, q[3]) = c
    BY <1>1, <1>2, <1>7, <1>a DEF OnTheWay
  <2>3. Entry(n, c, q[4]) = Entry(m, c, q[4])
    BY <1>1, <1>2 DEF OnTheWay
  <2> QED
    BY <2>1, <2>2, <2>3, <1>3
<1> QED
  BY <1>4, <1>5, <1>6, <1>7

(* One new table under an entry of t. *)
LEMMA NewTableGrows ==
  ASSUME NEW m, NEW free, NEW lvl, Forest(m, free, lvl), NEW f \in free,
         NEW t \in DOMAIN m, lvl[t] > 1, NEW i, i \notin DOMAIN m[t], NEW root, NEW index,
         lvl[t] = 4 => t = root /\ i = index
  PROVE  Grown(m, free, lvl, NewTable(m, t, i, f), free \ {f}, Put(lvl, f, lvl[t] - 1), root, index)
<1> DEFINE n == NewTable(m, t, i, f)
           left == free \ {f}
           l == Put(lvl, f, lvl[t] - 1)
<1>1. Forest(m, left, lvl) /\ Fresh(m, left, f)
  BY FreeIsFresh
<1>2. Forest(n, left, l)
  BY <1>1, NewTableKeepsForest
<1>3. f \notin DOMAIN m
  BY <1>1 DEF Fresh
<1>4. TableAdded(n, m, t, i, f)
  BY <1>3, NewTableIs
<1>5. \A u \in DOMAIN m : l[u] = lvl[u]
  BY <1>3 DEF Put, Forest
<1> HIDE DEF n, l
<1>6. \A r \in DOMAIN m : lvl[r] = 4 => \A q : Walk(n, r, q) = Walk(m, r, q)
  BY <1>1, <1>4, NewTableKeepsWalks
<1>7. left \subseteq free /\ DOMAIN n = DOMAIN m \cup (free \ left) /\ free \ left = {f}
  BY <1>4 DEF TableAdded
<1>8. Extends(m, n)
  BY <1>4 DEF TableAdded, Extends
<1>9. ASSUME NEW u \in DOMAIN n, NEW j \in DOMAIN n[u] PROVE (u \in DOMAIN m /\ j \in DOMAIN m[u]) \/ n[u][j] = f
  BY <1>4 DEF TableAdded
<1>10. \E u \in DOMAIN n : \E j \in DOMAIN n[u] : n[u][j] = f
  BY <1>4 DEF TableAdded
<1>11. ASSUME NEW u \in DOMAIN m, lvl[u] = 4, NEW j \in DOMAIN n[u] PROVE j \in DOMAIN m[u] \/ (u = root /\ j = index)
  BY <1>4, <1>11 DEF TableAdded
<1> QED
  BY <1>2, <1>5, <1>6, <1>7, <1>8, <1>9, <1>10, <1>11 DEF Grown, n, l

(* Nothing done. *)
LEMMA GrownByNothing ==
  ASSUME NEW m, NEW free, NEW lvl, Forest(m, free, lvl), NEW root, NEW index
  PROVE  Grown(m, free, lvl, m, free, lvl, root, index)
  BY DEF Grown, Extends

(* Two descents in a row are one. *)
LEMMA GrownTwice ==
  ASSUME NEW m, NEW free, NEW lvl, NEW n, NEW left, NEW l, NEW o, NEW rest, NEW k, NEW root, NEW index,
         Grown(m, free, lvl, n, left, l, root, index), Grown(n, left, l, o, rest, k, root, index)
  PROVE  Grown(m, free, lvl, o, rest, k, root, index)
<1>1. Forest(o, rest, k)
  BY DEF Grown
<1>2. /\ left \subseteq free /\ DOMAIN n = DOMAIN m \cup (free \ left)
      /\ rest \subseteq left /\ DOMAIN o = DOMAIN n \cup (left \ rest)
  BY DEF Grown
<1>3. rest \subseteq free /\ DOMAIN o = DOMAIN m \cup (free \ rest)
  BY <1>2
<1>4. \A t \in DOMAIN m : k[t] = lvl[t]
  BY <1>2 DEF Grown
<1>5. Extends(m, n) /\ Extends(n, o)
  BY DEF Grown
<1>6. Extends(m, o)
  BY <1>5 DEF Extends
<1>7. ASSUME NEW t \in DOMAIN o, NEW i \in DOMAIN o[t]
      PROVE  (t \in DOMAIN m /\ i \in DOMAIN m[t]) \/ o[t][i] \in free \ rest
  <2>1. (t \in DOMAIN n /\ i \in DOMAIN n[t]) \/ o[t][i] \in left \ rest
    BY DEF Grown
  <2>2. CASE t \in DOMAIN n /\ i \in DOMAIN n[t]
    <3>1. o[t][i] = n[t][i] /\ ((t \in DOMAIN m /\ i \in DOMAIN m[t]) \/ n[t][i] \in free \ left)
      BY <2>2, <1>5 DEF Grown, Extends
    <3> QED
      BY <3>1, <1>2
  <2> QED
    BY <2>1, <2>2, <1>2
<1>8. ASSUME NEW f \in free \ rest PROVE \E t \in DOMAIN o : \E i \in DOMAIN o[t] : o[t][i] = f
  <2>1. CASE f \in left
    BY <2>1 DEF Grown
  <2>2. CASE f \notin left
    <3>1. PICK t \in DOMAIN n : \E i \in DOMAIN n[t] : n[t][i] = f
      BY <2>2 DEF Grown
    <3>2. PICK i \in DOMAIN n[t] : n[t][i] = f
      BY <3>1
    <3> QED
      BY <3>1, <3>2, <1>5 DEF Extends
  <2> QED
    BY <2>1, <2>2
<1>9. ASSUME NEW r \in DOMAIN m, lvl[r] = 4, NEW q PROVE Walk(o, r, q) = Walk(m, r, q)
  <2>1. Walk(n, r, q) = Walk(m, r, q)
    BY <1>9 DEF Grown
  <2>2. r \in DOMAIN n /\ l[r] = 4
    BY <1>9, <1>2 DEF Grown
  <2>3. Walk(o, r, q) = Walk(n, r, q)
    BY <2>2 DEF Grown
  <2> QED
    BY <2>1, <2>3
<1>10. ASSUME NEW t \in DOMAIN m, lvl[t] = 4, NEW i \in DOMAIN o[t]
       PROVE  i \in DOMAIN m[t] \/ (t = root /\ i = index)
  <2>1. t \in DOMAIN n /\ l[t] = 4
    BY <1>10, <1>2 DEF Grown
  <2>2. i \in DOMAIN n[t] \/ (t = root /\ i = index)
    BY <2>1 DEF Grown
  <2> QED
    BY <2>2, <1>10 DEF Grown
<1> QED
  BY <1>1, <1>3, <1>4, <1>6, <1>7, <1>8, <1>9, <1>10 DEF Grown

----------------------------------------------------------------------------
(* The descent of map_to. *)

Page == Nat \X Nat \X Nat \X Nat

(* The allocator hands out a frame that is free. *)
Chooses(source, free) == \A S \in SUBSET free : S # {} => AllocateFrame(source, S) \in S

(* How far map_to has come. *)
Cursor(m, free, t, f, ok) == [mem |-> m, avail |-> free, table |-> t, frame |-> f, ok |-> ok]

(* One level down: the tables have grown, and the cursor is at the table   *)
(* below entry i; or there is no frame left.                               *)
Descends(m, free, lvl, t, i, root, index, n, left, u, l, ok) ==
  /\ ok \in BOOLEAN
  /\ Grown(m, free, lvl, n, left, l, root, index)
  /\ ok => u = Entry(n, t, i) /\ u \in DOMAIN n /\ l[u] = lvl[t] - 1
  /\ ~ ok => left = {}

(* create_next_table follows the entry, or hangs a table below it, or finds*)
(* no frame left.                                                          *)
LEMMA CreateNextTableIs ==
  ASSUME NEW m, NEW free, NEW lvl, Forest(m, free, lvl), NEW t \in DOMAIN m, lvl[t] > 1, NEW i, NEW f,
         NEW source, Chooses(source, free), NEW root, NEW index, lvl[t] = 4 => t = root /\ i = index
  PROVE  \E n, left, u, l, ok :
           /\ CreateNextTable(Cursor(m, free, t, f, TRUE), i, source) = Cursor(n, left, u, f, ok)
           /\ Descends(m, free, lvl, t, i, root, index, n, left, u, l, ok)
<1> DEFINE e == Entry(m, t, i)
           p == Cursor(m, free, t, f, TRUE)
           r == CreateNextTable(p, i, source)
<1>0. p.mem = m /\ p.avail = free /\ p.table = t /\ p.ok = TRUE
  BY DEF Cursor
<1>1. CASE e # None
  <2>1. r = Cursor(m, free, e, f, TRUE)
    BY <1>1, <1>0 DEF CreateNextTable, Cursor
  <2>2. e \in DOMAIN m /\ lvl[e] = lvl[t] - 1
    BY <1>1, EntryIs
  <2>3. Descends(m, free, lvl, t, i, root, index, m, free, e, lvl, TRUE)
    BY <2>2, GrownByNothing DEF Descends
  <2> QED
    BY <2>1, <2>3
<1>2. CASE e = None /\ free = {}
  <2>1. r = Cursor(m, free, t, f, FALSE)
    BY <1>2, <1>0 DEF CreateNextTable, Cursor
  <2>2. Descends(m, free, lvl, t, i, root, index, m, free, t, lvl, FALSE)
    BY <1>2, GrownByNothing DEF Descends
  <2> QED
    BY <2>1, <2>2
<1>3. CASE e = None /\ free # {}
  <2> DEFINE g == AllocateFrame(source, free)
             n == NewTable(m, t, i, g)
             l == Put(lvl, g, lvl[t] - 1)
  <2>1. g \in free
    BY <1>3 DEF Chooses
  <2>2. i \notin DOMAIN m[t]
    BY <1>3, EntryIs
  <2>3. Grown(m, free, lvl, n, free \ {g}, l, root, index)
    BY <2>1, <2>2, NewTableGrows
  <2>4. r = Cursor(n, free \ {g}, g, f, TRUE)
    BY <1>3, <1>0 DEF CreateNextTable, Cursor, NewTable
  <2>5. g \notin DOMAIN m
    BY <2>1 DEF Forest
  <2>6. TableAdded(n, m, t, i, g)
    BY <2>2, <2>5, NewTableIs
  <2>7. l[g] = lvl[t] - 1
    BY DEF Put
  <2> HIDE DEF n, l, g, r
  <2>8. Entry(n, t, i) = g /\ g \in DOMAIN n
    BY <2>6 DEF TableAdded, Entry
  <2>9. Descends(m, free, lvl, t, i, root, index, n, free \ {g}, g, l, TRUE)
    BY <2>3, <2>7, <2>8 DEF Descends
  <2> QED
    BY <2>4, <2>9 DEF r
<1> QED
  BY <1>1, <1>2, <1>3

(* Once it has failed, it has failed. *)
LEMMA CreateNextTableFails ==
  ASSUME NEW m, NEW free, NEW t, NEW f, NEW i, NEW source
  PROVE  CreateNextTable(Cursor(m, free, t, f, FALSE), i, source) = Cursor(m, free, t, f, FALSE)
  BY DEF CreateNextTable, Cursor

(* Entries stay where they lead. *)
LEMMA ExtendsEntry ==
  ASSUME NEW m, NEW n, Extends(m, n), NEW t, NEW i, Entry(m, t, i) # None
  PROVE  Entry(n, t, i) = Entry(m, t, i)
  BY DEF Extends, Entry

(* The allocator is only asked for what is free now. *)
LEMMA ChoosesLess ==
  ASSUME NEW source, NEW free, Chooses(source, free), NEW left, left \subseteq free
  PROVE  Chooses(source, left)
  BY DEF Chooses

(* The three tables below the L4 table: the last is where the walk to the  *)
(* page comes to, or there is no frame left.                               *)
Descended(m, free, lvl, root, page, n, left, u, l, ok) ==
  /\ ok \in BOOLEAN /\ Grown(m, free, lvl, n, left, l, root, page[1])
  /\ ok => u = WalkToL1(n, root, page) /\ u \in DOMAIN n /\ l[u] = 1
  /\ ~ ok => left = {}

(* The three calls of create_next_table in map_to end at the page's last   *)
(* table, or without frames.                                               *)
LEMMA DescentIs ==
  ASSUME NEW m, NEW free, NEW lvl, Forest(m, free, lvl), NEW root \in DOMAIN m, lvl[root] = 4, NEW page, NEW f,
         NEW source, Chooses(source, free)
  PROVE  \E n, left, u, l, ok :
           /\ CreateNextTable(CreateNextTable(CreateNextTable(Cursor(m, free, root, f, TRUE), page[1], source),
                                              page[2], source), page[3], source) = Cursor(n, left, u, f, ok)
           /\ Descended(m, free, lvl, root, page, n, left, u, l, ok)
<1> DEFINE C(r, i) == CreateNextTable(r, i, source)
<1>1. PICK n3, left3, u3, l3, ok3 :
         /\ C(Cursor(m, free, root, f, TRUE), page[1]) = Cursor(n3, left3, u3, f, ok3)
         /\ Descends(m, free, lvl, root, page[1], root, page[1], n3, left3, u3, l3, ok3)
  <2>1. lvl[root] > 1 /\ (lvl[root] = 4 => root = root /\ page[1] = page[1])
    OBVIOUS
  <2> QED
    BY <2>1, CreateNextTableIs
<1>2. CASE ok3 = FALSE
  <2>1. C(C(C(Cursor(m, free, root, f, TRUE), page[1]), page[2]), page[3]) = Cursor(n3, left3, u3, f, FALSE)
    BY <1>1, <1>2, CreateNextTableFails
  <2>2. Grown(m, free, lvl, n3, left3, l3, root, page[1]) /\ left3 = {}
    BY <1>1, <1>2 DEF Descends
  <2>3. Descended(m, free, lvl, root, page, n3, left3, u3, l3, FALSE)
    BY <2>2 DEF Descended
  <2> HIDE DEF C
  <2> QED
    BY <2>1, <2>3 DEF C
<1>3. CASE ok3 = TRUE
  <2>1. /\ Grown(m, free, lvl, n3, left3, l3, root, page[1]) /\ Forest(n3, left3, l3) /\ left3 \subseteq free
        /\ u3 = Entry(n3, root, page[1]) /\ u3 \in DOMAIN n3 /\ l3[u3] = 3
    BY <1>1, <1>3 DEF Descends, Grown
  <2>2. Chooses(source, left3)
    BY <2>1, ChoosesLess
  <2>3. PICK n2, left2, u2, l2, ok2 :
         /\ C(Cursor(n3, left3, u3, f, TRUE), page[2]) = Cursor(n2, left2, u2, f, ok2)
         /\ Descends(n3, left3, l3, u3, page[2], root, page[1], n2, left2, u2, l2, ok2)
    <3>1. l3[u3] > 1 /\ (l3[u3] = 4 => u3 = root /\ page[2] = page[1])
      BY <2>1
    <3> QED
      BY <2>1, <2>2, <3>1, CreateNextTableIs
  <2>4. Grown(m, free, lvl, n2, left2, l2, root, page[1])
    <3>1. Grown(n3, left3, l3, n2, left2, l2, root, page[1])
      BY <2>3 DEF Descends
    <3> QED
      BY <2>1, <3>1, GrownTwice
  <2>5. CASE ok2 = FALSE
    <3>1. C(C(C(Cursor(m, free, root, f, TRUE), page[1]), page[2]), page[3]) = Cursor(n2, left2, u2, f, FALSE)
      BY <1>1, <1>3, <2>3, <2>5, CreateNextTableFails
    <3>2. left2 = {}
      BY <2>3, <2>5 DEF Descends
    <3>3. Descended(m, free, lvl, root, page, n2, left2, u2, l2, FALSE)
      BY <3>2, <2>4 DEF Descended
    <3> HIDE DEF C
    <3> QED
      BY <3>1, <3>3 DEF C
  <2>6. CASE ok2 = TRUE
    <3>1. /\ Forest(n2, left2, l2) /\ left2 \subseteq left3 /\ Extends(n3, n2)
          /\ u2 = Entry(n2, u3, page[2]) /\ u2 \in DOMAIN n2 /\ l2[u2] = 2
      BY <2>1, <2>3, <2>6 DEF Descends, Grown
    <3>2. Chooses(source, left2)
      BY <2>2, <3>1, ChoosesLess
    <3>3. PICK n1, left1, u1, l1, ok1 :
           /\ C(Cursor(n2, left2, u2, f, TRUE), page[3]) = Cursor(n1, left1, u1, f, ok1)
           /\ Descends(n2, left2, l2, u2, page[3], root, page[1], n1, left1, u1, l1, ok1)
      <4>1. l2[u2] > 1 /\ (l2[u2] = 4 => u2 = root /\ page[3] = page[1])
        BY <3>1
      <4> QED
        BY <3>1, <3>2, <4>1, CreateNextTableIs
    <3>4. Grown(n2, left2, l2, n1, left1, l1, root, page[1])
      BY <3>3 DEF Descends
    <3>5. Grown(m, free, lvl, n1, left1, l1, root, page[1])
      BY <2>4, <3>4, GrownTwice
    <3>6. C(C(C(Cursor(m, free, root, f, TRUE), page[1]), page[2]), page[3]) = Cursor(n1, left1, u1, f, ok1)
      BY <1>1, <1>3, <2>3, <2>6, <3>3
    <3>7. ok1 => u1 = WalkToL1(n1, root, page) /\ u1 \in DOMAIN n1 /\ l1[u1] = 1
      <4> SUFFICES ASSUME ok1 PROVE u1 = WalkToL1(n1, root, page) /\ u1 \in DOMAIN n1 /\ l1[u1] = 1
        OBVIOUS
      <4>1. u1 = Entry(n1, u2, page[3]) /\ u1 \in DOMAIN n1 /\ l1[u1] = 1
        BY <3>1, <3>3 DEF Descends
      <4>2. Extends(n2, n1) /\ u2 # None /\ u3 # None
        BY <3>4, <2>1, <3>1 DEF Grown, Forest
      <4>3. Entry(n2, root, page[1]) = u3
        BY <4>2, <3>1, <2>1, ExtendsEntry
      <4>4. Entry(n1, root, page[1]) = u3 /\ Entry(n1, u3, page[2]) = u2
        BY <4>2, <4>3, <3>1, ExtendsEntry
      <4> QED
        BY <4>1, <4>4 DEF WalkToL1
    <3>8. ok1 \in BOOLEAN /\ (~ ok1 => left1 = {})
      BY <3>3 DEF Descends
    <3>9. Descended(m, free, lvl, root, page, n1, left1, u1, l1, ok1)
      BY <3>5, <3>7, <3>8 DEF Descended
    <3> HIDE DEF C
    <3> QED
      BY <3>6, <3>9 DEF C
  <2>7. ok2 \in BOOLEAN
    BY <2>3 DEF Descends
  <2> QED
    BY <2>5, <2>6, <2>7
<1>4. ok3 \in BOOLEAN
  BY <1>1 DEF Descends
<1> QED
  BY <1>2, <1>3, <1>4

----------------------------------------------------------------------------
(* Mapping a page. *)

(* An entry above the last level has a table of its own, L4 copies aside. *)
LEMMA OneParent ==
  ASSUME NEW m, NEW free, NEW lvl, Forest(m, free, lvl), NEW t \in DOMAIN m, NEW u \in DOMAIN m,
         NEW i \in DOMAIN m[t], NEW j \in DOMAIN m[u], lvl[t] > 1, lvl[u] > 1, m[t][i] = m[u][j]
  PROVE  i = j /\ (t = u \/ lvl[t] = 4)
<1>1. ~ Exempt(t, i) /\ ~ Exempt(u, j)
  BY DEF Forest, Exempt
<1> QED
  BY <1>1 DEF Forest

(* Two walks come to one last table only along one way, which is not the   *)
(* private one when they start at different L4 tables.                     *)
LEMMA OneWay ==
  ASSUME NEW m, NEW free, NEW lvl, Forest(m, free, lvl), NEW r \in DOMAIN m, lvl[r] = 4,
         NEW s \in DOMAIN m, lvl[s] = 4, NEW p, NEW q,
         WalkToL1(m, r, p) # None, WalkToL1(m, r, p) = WalkToL1(m, s, q)
  PROVE  p[1] = q[1] /\ p[2] = q[2] /\ p[3] = q[3] /\ (r = s \/ p[1] # 1)
<1> DEFINE a == Entry(m, r, p[1])
           b == Entry(m, a, p[2])
           c == Entry(m, b, p[3])
           d == Entry(m, s, q[1])
           e == Entry(m, d, q[2])
           f == Entry(m, e, q[3])
<1>1. OnTheWay(m, lvl, a, b, c, p) /\ (a # None => p[1] \in DOMAIN m[r] /\ a = m[r][p[1]])
  BY WayIs
<1>2. OnTheWay(m, lvl, d, e, f, q) /\ (d # None => q[1] \in DOMAIN m[s] /\ d = m[s][q[1]])
  BY WayIs
<1>3. c # None /\ c = f
  BY DEF WalkToL1
<1> HIDE DEF a, b, c, d, e, f
<1>4. /\ b \in DOMAIN m /\ lvl[b] = 2 /\ p[3] \in DOMAIN m[b] /\ c = m[b][p[3]] /\ b # None
      /\ e \in DOMAIN m /\ lvl[e] = 2 /\ q[3] \in DOMAIN m[e] /\ f = m[e][q[3]] /\ e # None
  BY <1>1, <1>2, <1>3 DEF OnTheWay
<1>5. /\ a \in DOMAIN m /\ lvl[a] = 3 /\ p[2] \in DOMAIN m[a] /\ b = m[a][p[2]] /\ a # None
      /\ d \in DOMAIN m /\ lvl[d] = 3 /\ q[2] \in DOMAIN m[d] /\ e = m[d][q[2]] /\ d # None
  BY <1>1, <1>2, <1>4 DEF OnTheWay
<1>7. p[3] = q[3] /\ b = e
  <2>0. m[b][p[3]] = m[e][q[3]]
    BY <1>3, <1>4
  <2>1. lvl[b] > 1 /\ lvl[e] > 1 /\ m[b][p[3]] = m[e][q[3]] /\ lvl[b] # 4
    BY <1>4, <2>0
  <2> QED
    BY <1>4, <2>1, OneParent
<1>8. p[2] = q[2] /\ a = d
  <2>1. lvl[a] > 1 /\ lvl[d] > 1 /\ m[a][p[2]] = m[d][q[2]] /\ lvl[a] # 4
    BY <1>5, <1>7
  <2> QED
    BY <1>5, <2>1, OneParent
<1>9. p[1] = q[1] /\ (r = s \/ p[1] # 1)
  <2>1. p[1] \in DOMAIN m[r] /\ q[1] \in DOMAIN m[s] /\ m[r][p[1]] = m[s][q[1]]
    BY <1>1, <1>2, <1>5, <1>8
  <2>2. ~ Exempt(r, p[1]) /\ ~ Exempt(s, q[1])
    BY DEF Forest, Exempt
  <2> QED
    BY <2>1, <2>2 DEF Forest
<1> QED
  BY <1>7, <1>8, <1>9

(* A page under an entry of the last table on its way. *)
LEMMA LeafWalks ==
  ASSUME NEW m, NEW free, NEW lvl, Forest(m, free, lvl), NEW r \in DOMAIN m, lvl[r] = 4, NEW page \in Page,
         NEW t \in DOMAIN m, lvl[t] = 1, t = WalkToL1(m, r, page), NEW n, DOMAIN n = DOMAIN m,
         \A u : \A j : u # t \/ j # page[4] => Entry(n, u, j) = Entry(m, u, j)
  PROVE  /\ Walk(n, r, page) = Entry(n, t, page[4])
         /\ \A s \in DOMAIN m : lvl[s] = 4 => \A q \in Page :
              q # page \/ (s # r /\ page[1] = 1) => Walk(n, s, q) = Walk(m, s, q)
<1>3. ASSUME NEW s \in DOMAIN m, lvl[s] = 4, NEW q PROVE WalkToL1(n, s, q) = WalkToL1(m, s, q)
  <2> DEFINE a == Entry(m, s, q[1])
             b == Entry(m, a, q[2])
             c == Entry(m, b, q[3])
  <2>1. OnTheWay(m, lvl, a, b, c, q)
    BY <1>3, WayIs
  <2>2. a = Entry(m, s, q[1]) /\ b = Entry(m, a, q[2]) /\ c = Entry(m, b, q[3]) /\ WalkToL1(m, s, q) = c
    BY DEF WalkToL1
  <2> HIDE DEF a, b, c
  <2>3. s # t /\ a # t /\ b # t
    BY <1>3, <2>1 DEF OnTheWay, Forest
  <2>4. Entry(n, s, q[1]) = a /\ Entry(n, a, q[2]) = b /\ Entry(n, b, q[3]) = c
    BY <2>2, <2>3
  <2> QED
    BY <2>2, <2>4 DEF WalkToL1
<1>4. Walk(n, r, page) = Entry(n, t, page[4])
  BY <1>3 DEF Walk
<1>5. ASSUME NEW s \in DOMAIN m, lvl[s] = 4, NEW q \in Page, q # page \/ (s # r /\ page[1] = 1)
      PROVE  Walk(n, s, q) = Walk(m, s, q)
  <2>1. WalkToL1(m, s, q) # t \/ q[4] # page[4]
    <3>1. page = <<page[1], page[2], page[3], page[4]>> /\ q = <<q[1], q[2], q[3], q[4]>>
      BY DEF Page
    <3>2. t # None
      BY DEF Forest
    <3>3. ASSUME WalkToL1(m, s, q) = t
          PROVE  page[1] = q[1] /\ page[2] = q[2] /\ page[3] = q[3] /\ (r = s \/ page[1] # 1)
      <4>1. WalkToL1(m, r, page) # None /\ WalkToL1(m, r, page) = WalkToL1(m, s, q)
        BY <3>2, <3>3
      <4> QED
        BY <4>1, <1>5, OneWay
    <3> QED
      BY <3>1, <3>3, <1>5
  <2>2. WalkToL1(n, s, q) = WalkToL1(m, s, q)
    BY <1>3, <1>5
  <2> QED
    BY <2>1, <2>2 DEF Walk
<1> QED
  BY <1>4, <1>5

(* What map_to makes of the tables m: n, with the frames in left free; ok  *)
(* says whether frame is under page now.                                   *)
Maps(m, free, lvl, root, page, frame, n, left, l, ok) ==
  /\ Forest(n, left, l)
  /\ left \subseteq free /\ DOMAIN n = DOMAIN m \cup (free \ left)
  /\ \A t \in DOMAIN m : l[t] = lvl[t]
  /\ Extends(m, n)
  /\ \A t \in DOMAIN n : \A i \in DOMAIN n[t] :
       (t \in DOMAIN m /\ i \in DOMAIN m[t]) \/ n[t][i] \in free \ left \/ (ok /\ n[t][i] = frame)
  /\ \A f \in free \ left : \E t \in DOMAIN n : \E i \in DOMAIN n[t] : n[t][i] = f
  /\ \A t \in DOMAIN m : lvl[t] = 4 => \A i \in DOMAIN n[t] : i \in DOMAIN m[t] \/ (t = root /\ i = page[1])
  /\ ok \in BOOLEAN
  /\ ok => Walk(n, root, page) = frame /\ Walk(m, root, page) = None
  /\ ~ ok => left = {} \/ Walk(m, root, page) # None
  /\ \A s \in DOMAIN m : lvl[s] = 4 => \A q \in Page :
       q # page \/ ~ ok \/ (s # root /\ page[1] = 1) => Walk(n, s, q) = Walk(m, s, q)

(* Where map_to ends. *)
Fails(r, p) == r = [p EXCEPT !.ok = FALSE]
Enters(r, p, o) == r = [p EXCEPT !.mem = o]

(* The record map_to passes on, when it fails and when it writes the entry. *)
LEMMA CursorMoves ==
  ASSUME NEW n, NEW left, NEW u, NEW f, NEW o, NEW ok \in BOOLEAN, NEW p, p = Cursor(n, left, u, f, ok), NEW r
  PROVE  /\ Fails(r, p) => r = Cursor(n, left, u, f, FALSE)
         /\ ok /\ Enters(r, p, o) => r = Cursor(o, left, u, f, TRUE)
<1>1. ASSUME r = [p EXCEPT !.ok = FALSE] PROVE r = Cursor(n, left, u, f, FALSE)
  <2>1. CASE ok = TRUE
    <3>1. p = Cursor(n, left, u, f, TRUE)
      BY <2>1
    <3> QED
      BY ONLY <1>1, <3>1 DEF Cursor
  <2>2. CASE ok = FALSE
    <3>1. p = Cursor(n, left, u, f, FALSE)
      BY <2>2
    <3> QED
      BY ONLY <1>1, <3>1 DEF Cursor
  <2> QED
    BY <2>1, <2>2
<1>2. ASSUME ok, r = [p EXCEPT !.mem = o] PROVE r = Cursor(o, left, u, f, TRUE)
  <2>1. ok = TRUE
    BY <1>2
  <2>2. p = Cursor(n, left, u, f, TRUE)
    BY <2>1
  <2> QED
    BY ONLY <1>2, <2>2 DEF Cursor
<1> QED
  BY <1>1, <1>2 DEF Fails, Enters

(* What map_to does to the forest: one more page, or no frame is left, or  *)
(* the page was mapped.                                                    *)
LEMMA MapToIs ==
  ASSUME NEW m, NEW free, NEW lvl, Forest(m, free, lvl), NEW root \in DOMAIN m, lvl[root] = 4, NEW page \in Page,
         NEW f, Fresh(m, free, f), NEW source, Chooses(source, free)
  PROVE  \E n, left, u, l, ok :
           /\ MapTo(m, free, source, root, page, f) = Cursor(n, left, u, f, ok)
           /\ Maps(m, free, lvl, root, page, f, n, left, l, ok)
<1> DEFINE p1 == CreateNextTable(CreateNextTable(CreateNextTable(Cursor(m, free, root, f, TRUE), page[1], source),
                                 page[2], source), page[3], source)
           r == MapTo(m, free, source, root, page, f)
<1>a. PICK n, left, u, l, ok : p1 = Cursor(n, left, u, f, ok) /\ Descended(m, free, lvl, root, page, n, left, u, l, ok)
  BY DescentIs
<1>1. /\ p1 = Cursor(n, left, u, f, ok)
      /\ ok \in BOOLEAN /\ Grown(m, free, lvl, n, left, l, root, page[1])
      /\ ok => u = WalkToL1(n, root, page) /\ u \in DOMAIN n /\ l[u] = 1
      /\ ~ ok => left = {}
  BY <1>a DEF Descended
<1>2. r = IF p1.ok /\ Entry(p1.mem, p1.table, page[4]) = None
          THEN [p1 EXCEPT !.mem = SetEntry(@, p1.table, page[4], f)] ELSE [p1 EXCEPT !.ok = FALSE]
  BY DEF MapTo, Cursor
<1>3. r = IF ok /\ Entry(n, u, page[4]) = None THEN Cursor(SetEntry(n, u, page[4], f), left, u, f, TRUE)
          ELSE Cursor(n, left, u, f, FALSE)
  <2> HIDE DEF p1, r
  <2>1. p1.ok = ok /\ p1.mem = n /\ p1.table = u
    BY <1>1 DEF Cursor
  <2>4. [p1 EXCEPT !.mem = SetEntry(@, p1.table, page[4], f)] = [p1 EXCEPT !.mem = SetEntry(n, u, page[4], f)]
    BY <2>1
  <2>5. CASE ok /\ Entry(n, u, page[4]) = None
    <3>1. Enters(r, p1, SetEntry(n, u, page[4], f))
      BY <1>2, <2>1, <2>4, <2>5 DEF Enters
    <3>2. ok \in BOOLEAN /\ ok /\ p1 = Cursor(n, left, u, f, ok)
      BY <1>1, <2>5
    <3>3. r = Cursor(SetEntry(n, u, page[4], f), left, u, f, TRUE)
      BY ONLY <3>1, <3>2, CursorMoves
    <3> QED
      BY <3>3, <2>5
  <2>6. CASE ~ (ok /\ Entry(n, u, page[4]) = None)
    <3>1. Fails(r, p1)
      BY <1>2, <2>1, <2>6 DEF Fails
    <3> QED
      BY <3>1, <1>1, <2>6, CursorMoves
  <2> QED
    BY <2>5, <2>6
<1> HIDE DEF p1, r
<1>4. Forest(n, left, l) /\ root \in DOMAIN n /\ l[root] = 4
  BY <1>1 DEF Grown
<1>5. Walk(n, root, page) = Walk(m, root, page)
  BY <1>1 DEF Grown
<1>6. CASE ok /\ Entry(n, u, page[4]) = None
  <2> DEFINE o == SetEntry(n, u, page[4], f)
  <2>1. r = Cursor(o, left, u, f, TRUE)
    BY <1>3, <1>6
  <2>2. u = WalkToL1(n, root, page) /\ u \in DOMAIN n /\ l[u] = 1
    BY <1>1, <1>6
  <2>3. Fresh(n, left, f)
    <3>1. f \notin DOMAIN n /\ f \notin left /\ f # None
      BY <1>1 DEF Fresh, Grown
    <3>2. ASSUME NEW t \in DOMAIN n, NEW i \in DOMAIN n[t], n[t][i] = f PROVE Exempt(t, i)
      <4>1. t \in DOMAIN m /\ i \in DOMAIN m[t]
        BY <1>1, <3>2 DEF Grown, Fresh
      <4>2. m[t][i] = f
        BY <1>1, <3>2, <4>1 DEF Grown, Extends
      <4> QED
        BY <4>1, <4>2 DEF Fresh
    <3> QED
      BY <3>1, <3>2 DEF Fresh
  <2>4. page[4] \notin DOMAIN n[u]
    BY <1>6, <2>2, <1>4 DEF Entry, Forest
  <2>5. Forest(o, left, l)
    BY <1>4, <2>2, <2>3, <2>4, LeafKeepsForest
  <2>7. /\ DOMAIN o = DOMAIN n /\ DOMAIN o[u] = DOMAIN n[u] \cup {page[4]} /\ o[u][page[4]] = f
        /\ \A j \in DOMAIN n[u] : o[u][j] = n[u][j]
        /\ \A t \in DOMAIN n : t # u => o[t] = n[t]
    BY <2>2, <2>4, SetEntryIs
  <2> HIDE DEF o
  <2>6. /\ Walk(o, root, page) = f
        /\ \A s \in DOMAIN n : l[s] = 4 => \A q \in Page :
             q # page \/ (s # root /\ page[1] = 1) => Walk(o, s, q) = Walk(n, s, q)
    <3>1. ASSUME NEW t, NEW j, t # u \/ j # page[4] PROVE Entry(o, t, j) = Entry(n, t, j)
      <4>1. CASE t = u
        BY <4>1, <3>1, <2>7 DEF Entry
      <4>2. CASE t # u
        BY <4>2, <3>1, <2>7 DEF Entry
      <4> QED
        BY <4>1, <4>2
    <3>2. DOMAIN o = DOMAIN n /\ \A t : \A j : t # u \/ j # page[4] => Entry(o, t, j) = Entry(n, t, j)
      BY <3>1, <2>7
    <3>3. /\ Walk(o, root, page) = Entry(o, u, page[4])
          /\ \A s \in DOMAIN n : l[s] = 4 => \A q \in Page :
               q # page \/ (s # root /\ page[1] = 1) => Walk(o, s, q) = Walk(n, s, q)
      BY <1>4, <2>2, <3>2, LeafWalks
    <3>4. Entry(o, u, page[4]) = f
      BY <2>2, <2>7 DEF Entry
    <3> QED
      BY <3>3, <3>4
  <2>8. Extends(n, o)
    BY <2>7 DEF Extends
  <2>9. Extends(m, n)
    BY <1>1 DEF Grown
  <2>10. Extends(m, o)
    BY <2>8, <2>9 DEF Extends
  <2>11. ASSUME NEW t \in DOMAIN o, NEW i \in DOMAIN o[t]
         PROVE  (t \in DOMAIN m /\ i \in DOMAIN m[t]) \/ o[t][i] \in free \ left \/ o[t][i] = f
    <3>1. CASE t = u /\ i = page[4]
      BY <3>1, <2>7
    <3>2. CASE ~ (t = u /\ i = page[4])
      <4>1. t \in DOMAIN n /\ i \in DOMAIN n[t] /\ o[t][i] = n[t][i]
        BY <3>2, <2>7
      <4> QED
        BY <4>1, <1>1 DEF Grown
    <3> QED
      BY <3>1, <3>2
  <2>12. ASSUME NEW g \in free \ left PROVE \E t \in DOMAIN o : \E i \in DOMAIN o[t] : o[t][i] = g
    <3>1. PICK t \in DOMAIN n : \E i \in DOMAIN n[t] : n[t][i] = g
      BY <1>1 DEF Grown
    <3> QED
      BY <3>1, <2>8 DEF Extends
  <2>13. ASSUME NEW t \in DOMAIN m, lvl[t] = 4, NEW i \in DOMAIN o[t] PROVE i \in DOMAIN m[t] \/ (t = root /\ i = page[1])
    <3>1. t \in DOMAIN n /\ l[t] = 4
      BY <2>13, <1>1 DEF Grown
    <3>2. i \in DOMAIN n[t]
      BY <3>1, <2>2, <2>7
    <3> QED
      BY <3>2, <2>13, <1>1 DEF Grown
  <2>14. Walk(m, root, page) = None
    BY <1>5, <1>6, <2>2 DEF Walk
  <2>15. ASSUME NEW s \in DOMAIN m, lvl[s] = 4, NEW q \in Page, q # page \/ (s # root /\ page[1] = 1)
         PROVE  Walk(o, s, q) = Walk(m, s, q)
    <3>1. s \in DOMAIN n /\ l[s] = 4 /\ Walk(n, s, q) = Walk(m, s, q)
      BY <2>15, <1>1 DEF Grown
    <3> QED
      BY <3>1, <2>15, <2>6
  <2>16. left \subseteq free /\ DOMAIN o = DOMAIN m \cup (free \ left) /\ \A t \in DOMAIN m : l[t] = lvl[t]
    BY <1>1, <2>7 DEF Grown
  <2>17. Maps(m, free, lvl, root, page, f, o, left, l, TRUE)
    BY <2>5, <2>6, <2>10, <2>11, <2>12, <2>13, <2>14, <2>15, <2>16 DEF Maps
  <2> QED
    BY <2>1, <2>17 DEF r
<1>7. CASE ~ (ok /\ Entry(n, u, page[4]) = None)
  <2>1. r = Cursor(n, left, u, f, FALSE)
    BY <1>3, <1>7
  <2>2. left = {} \/ Walk(m, root, page) # None
    <3>1. CASE ok
      BY <3>1, <1>1, <1>5, <1>7 DEF Walk
    <3>2. CASE ~ ok
      BY <3>2, <1>1
    <3> QED
      BY <3>1, <3>2
  <2>3. Maps(m, free, lvl, root, page, f, n, left, l, FALSE)
    <3>1. \A s \in DOMAIN m : lvl[s] = 4 => \A q \in Page : Walk(n, s, q) = Walk(m, s, q)
      BY <1>1 DEF Grown
    <3> QED
      BY <1>1, <2>2, <3>1 DEF Maps, Grown
  <2> QED
    BY <2>1, <2>3 DEF r
<1> QED
  BY <1>6, <1>7

(* map_page_with: a frame for the page, then map_to.                       *)
LEMMA MapPageWithIs ==
  ASSUME NEW m, NEW free, NEW lvl, Forest(m, free, lvl), NEW root \in DOMAIN m, lvl[root] = 4, NEW page \in Page,
         NEW source, Chooses(source, free), free # {}
  PROVE  \E f \in free : \E n, left, u, l, ok :
           /\ MapPageWith(m, free, source, root, page) = Cursor(n, left, u, f, ok)
           /\ Maps(m, free \ {f}, lvl, root, page, f, n, left, l, ok)
<1> DEFINE f == AllocateFrame(source, free)
<1>1. f \in free
  BY DEF Chooses
<1>2. MapPageWith(m, free, source, root, page) = MapTo(m, free \ {f}, source, root, page, f)
  BY DEF MapPageWith
<1> HIDE DEF f
<1>3. Forest(m, free \ {f}, lvl) /\ Fresh(m, free \ {f}, f)
  BY <1>1, FreeIsFresh
<1>4. Chooses(source, free \ {f})
  BY ChoosesLess
<1>5. \E n, left, u, l, ok :
        /\ MapTo(m, free \ {f}, source, root, page, f) = Cursor(n, left, u, f, ok)
        /\ Maps(m, free \ {f}, lvl, root, page, f, n, left, l, ok)
  BY <1>3, <1>4, MapToIs
<1> QED
  BY <1>1, <1>2, <1>5

----------------------------------------------------------------------------
(* Unmapping a page; building an address space. *)

(* A set of frames has a highest one. *)
LEMMA MaxIsIn ==
  ASSUME NEW n \in Nat, NEW S, S \subseteq 0 .. n, S # {}
  PROVE  Max(S) \in S
<1> DEFINE T == {n - x : x \in S}
<1>0. \A x \in S : x \in Int /\ n - x \in Nat
  OBVIOUS
<1>1. T \subseteq Nat /\ T # {}
  BY <1>0
<1>2. PICK k \in T : \A y \in T : ~ (<<y, k>> \in OpToRel(<, Nat))
  BY <1>1, NatLessThanWellFounded, WFMin
<1>4. PICK x \in S : k = n - x
  BY <1>2
<1>5. ASSUME NEW y \in S PROVE x >= y
  <2>1. n - y \in T
    OBVIOUS
  <2>2. ~ (n - y < k)
    <3> HIDE DEF T
    <3> QED
      BY <1>1, <1>2, <2>1 DEF OpToRel
  <2>3. x \in Int /\ y \in Int
    BY <1>0
  <2> QED
    BY <2>2, <2>3, <1>4
<1>6. \E z \in S : \A y \in S : z >= y
  BY <1>4, <1>5
<1> QED
  BY <1>6, Zenon DEF Max

(* PHYS hands out a frame of its own. *)
LEMMA PhysChooses ==
  ASSUME NEW n \in Nat, NEW free, free \subseteq 0 .. n
  PROVE  Chooses("phys", free)
<1>1. ASSUME NEW S \in SUBSET free, S # {} PROVE AllocateFrame("phys", S) \in S
  <2>1. S \subseteq 0 .. n
    BY <1>1
  <2>2. Max(S) \in S
    BY <1>1, <2>1, MaxIsIn
  <2> QED
    BY <2>2 DEF AllocateFrame
<1> QED
  BY <1>1 DEF Chooses

(* What ClearEntry returns. *)
Cleared(n, m, t, i) ==
  /\ DOMAIN n = DOMAIN m /\ DOMAIN n[t] = DOMAIN m[t] \ {i}
  /\ \A j \in DOMAIN n[t] : n[t][j] = m[t][j]
  /\ \A u \in DOMAIN m : u # t => n[u] = m[u]

(* The entry that is cleared is all that goes. *)
LEMMA ClearEntryIs ==
  ASSUME NEW m, NEW t \in DOMAIN m, NEW i
  PROVE  Cleared(ClearEntry(m, t, i), m, t, i)
<1> DEFINE n == ClearEntry(m, t, i)
<1>1. n[t] = [j \in DOMAIN m[t] \ {i} |-> m[t][j]]
  BY DEF ClearEntry
<1>2. DOMAIN n = DOMAIN m /\ \A u \in DOMAIN m : u # t => n[u] = m[u]
  BY DEF ClearEntry
<1> HIDE DEF n
<1>3. DOMAIN n[t] = DOMAIN m[t] \ {i} /\ \A j \in DOMAIN n[t] : n[t][j] = m[t][j]
  BY <1>1
<1> QED
  BY <1>2, <1>3 DEF Cleared, n

(* Reading the entries after one is cleared. *)
LEMMA ClearedEntry ==
  ASSUME NEW m, NEW t \in DOMAIN m, NEW i, NEW n, Cleared(n, m, t, i)
  PROVE  /\ Entry(n, t, i) = None
         /\ \A u : \A j : u # t \/ j # i => Entry(n, u, j) = Entry(m, u, j)
<1>1. Entry(n, t, i) = None
  BY DEF Cleared, Entry
<1>2. ASSUME NEW u, NEW j, u # t \/ j # i PROVE Entry(n, u, j) = Entry(m, u, j)
  <2>1. CASE u = t
    BY <2>1, <1>2 DEF Cleared, Entry
  <2>2. CASE u # t
    BY <2>2, <1>2 DEF Cleared, Entry
  <2> QED
    BY <2>1, <2>2
<1> QED
  BY <1>1, <1>2

(* The frame of a page that is unmapped is free. *)
LEMMA ClearKeepsForest ==
  ASSUME NEW m, NEW free, NEW lvl, Forest(m, free, lvl), NEW t \in DOMAIN m, lvl[t] = 1,
         NEW i \in DOMAIN m[t], ~ Exempt(t, i), NEW n, Cleared(n, m, t, i)
  PROVE  Forest(n, free \cup {m[t][i]}, lvl)
<1> DEFINE f == m[t][i]
           more == free \cup {f}
<1>1. /\ DOMAIN n = DOMAIN m /\ DOMAIN n[t] = DOMAIN m[t] \ {i}
      /\ \A j \in DOMAIN n[t] : n[t][j] = m[t][j]
      /\ \A u \in DOMAIN m : u # t => n[u] = m[u]
  BY DEF Cleared
<1>2. f # None /\ f \notin DOMAIN m /\ f \notin free
  BY DEF Forest
<1>3. ASSUME NEW u \in DOMAIN n, NEW j \in DOMAIN n[u]
      PROVE  u \in DOMAIN m /\ j \in DOMAIN m[u] /\ n[u][j] = m[u][j] /\ (u # t \/ j # i)
  <2>1. CASE u = t
    BY <2>1, <1>1
  <2>2. CASE u # t
    BY <2>2, <1>1
  <2> QED
    BY <2>1, <2>2
<1>4. ASSUME NEW u \in DOMAIN n, NEW j \in DOMAIN n[u], lvl[u] = 1
      PROVE  Exempt(u, j) \/ (n[u][j] \notin DOMAIN n /\ n[u][j] \notin more)
  <2>1. CASE n[u][j] = f
    <3>1. u \in DOMAIN m /\ j \in DOMAIN m[u] /\ m[u][j] = m[t][i] /\ (u # t \/ j # i)
      BY <1>3, <2>1
    <3>2. Exempt(u, j)
      BY <3>1, <1>4 DEF Forest
    <3> QED
      BY <3>2
  <2>2. CASE n[u][j] # f
    <3>1. u \in DOMAIN m /\ j \in DOMAIN m[u] /\ n[u][j] = m[u][j]
      BY <1>3
    <3>2. Exempt(u, j) \/ (m[u][j] \notin DOMAIN m /\ m[u][j] \notin free)
      BY <3>1, <1>4 DEF Forest
    <3> QED
      BY <3>1, <3>2, <2>2, <1>1
  <2> QED
    BY <2>1, <2>2
<1> HIDE DEF f
<1>5. \A u \in DOMAIN n : \A j \in DOMAIN n[u] : n[u][j] # None
  BY <1>3 DEF Forest
<1>6. ASSUME NEW u \in DOMAIN n, NEW j \in DOMAIN n[u], lvl[u] > 1
      PROVE  n[u][j] \in DOMAIN n /\ lvl[n[u][j]] = lvl[u] - 1
  <2>1. u \in DOMAIN m /\ j \in DOMAIN m[u] /\ n[u][j] = m[u][j]
    BY <1>3
  <2> QED
    BY <1>6, <2>1, <1>1 DEF Forest
<1>7. ASSUME NEW u \in DOMAIN n, NEW v \in DOMAIN n, NEW j \in DOMAIN n[u], NEW k \in DOMAIN n[v], n[u][j] = n[v][k]
      PROVE  \/ Exempt(u, j) \/ Exempt(v, k) \/ (u = v /\ j = k)
             \/ lvl[u] = 4 /\ lvl[v] = 4 /\ j = k /\ j # 1
  <2>1. u \in DOMAIN m /\ j \in DOMAIN m[u] /\ v \in DOMAIN m /\ k \in DOMAIN m[v] /\ m[u][j] = m[v][k]
    BY <1>3, <1>7
  <2> QED
    BY <2>1 DEF Forest
<1>8. /\ lvl \in [DOMAIN n -> 1 .. 4] /\ None \notin DOMAIN n /\ None \notin more
      /\ HeapL1 \in DOMAIN n /\ lvl[HeapL1] = 1 /\ \A u \in DOMAIN n : u \notin more
  BY <1>1, <1>2 DEF Forest
<1>9. Forest(n, more, lvl)
  <2> HIDE DEF more
  <2> QED
    BY <1>4, <1>5, <1>6, <1>7, <1>8 DEF Forest
<1> QED
  BY <1>9 DEF f

(* A copy of a table is not on the way of any walk there was. *)
LEMMA CopyKeepsWalks ==
  ASSUME NEW m, NEW free, NEW lvl, Forest(m, free, lvl), NEW g, g \notin DOMAIN m, g # None, NEW v,
         NEW s \in DOMAIN m, lvl[s] = 4, NEW q
  PROVE  Walk(Put(m, g, v), s, q) = Walk(m, s, q)
<1> DEFINE n == Put(m, g, v)
           a == Entry(m, s, q[1])
           b == Entry(m, a, q[2])
           c == Entry(m, b, q[3])
<1>1. OnTheWay(m, lvl, a, b, c, q)
  BY WayIs
<1>2. \A u : \A j : u # g => Entry(n, u, j) = Entry(m, u, j)
  BY DEF Put, Entry
<1>3. a = Entry(m, s, q[1]) /\ b = Entry(m, a, q[2]) /\ c = Entry(m, b, q[3]) /\ WalkToL1(m, s, q) = c
  BY DEF WalkToL1
<1> HIDE DEF a, b, c, n
<1>4. s # g /\ a # g /\ b # g /\ c # g
  BY <1>1 DEF OnTheWay
<1>5. Entry(n, s, q[1]) = a /\ Entry(n, a, q[2]) = b /\ Entry(n, b, q[3]) = c /\ Entry(n, c, q[4]) = Entry(m, c, q[4])
  BY <1>2, <1>3, <1>4
<1> QED
  BY <1>3, <1>5 DEF Walk, WalkToL1, n

(* What AddressSpace::new makes of the tables m: g is the L4 table, f the  *)
(* frame of the private page when ok.                                      *)
Builds(m, free, lvl, b, g, n, left, l, f, ok) ==
  /\ Forest(n, left, l) /\ ok \in BOOLEAN
  /\ g \in free /\ left \subseteq free \ {g} /\ DOMAIN n \subseteq DOMAIN m \cup free
  /\ g \in DOMAIN n /\ l[g] = 4
  /\ DOMAIN m \subseteq DOMAIN n /\ \A t \in DOMAIN m : l[t] = lvl[t]
  /\ Extends(m, n)
  /\ \A i \in DOMAIN m[b] : i \in DOMAIN n[g] /\ n[g][i] = m[b][i]
  /\ \A t \in DOMAIN n : \A i \in DOMAIN n[t] :
       \/ t \in DOMAIN m /\ i \in DOMAIN m[t]
       \/ t = g /\ i \in DOMAIN m[b]
       \/ n[t][i] \in free \ left
  /\ \A t \in DOMAIN m : lvl[t] = 4 => \A i \in DOMAIN n[t] : i \in DOMAIN m[t]
  /\ \A h \in free \ left : h = g \/ (~ ok /\ h = f) \/ \E t \in DOMAIN n : \E i \in DOMAIN n[t] : n[t][i] = h
  /\ ok => f \in free /\ Walk(n, g, PrivatePage) = f
  /\ ~ ok => left = {}
  /\ \A s \in DOMAIN m : lvl[s] = 4 => \A q \in Page : Walk(n, s, q) = Walk(m, s, q)

(* What AddressSpace::new does to the forest: a copy of the boot table with*)
(* a private page of its own.                                              *)
LEMMA NewSpaceIs ==
  ASSUME NEW m, NEW free, NEW lvl, Forest(m, free, lvl), NEW b \in DOMAIN m, lvl[b] = 4, 1 \notin DOMAIN m[b],
         free # {}, Chooses("phys", free), NEW g, g = AllocateFrame("phys", free),
         NEW r, r = MapPageWith(Put(m, g, m[b]), free \ {g}, "phys", g, PrivatePage)
  PROVE  \E n, left, l, f, ok :
           /\ r.mem = n /\ r.avail = left /\ r.frame = f /\ r.ok = ok
           /\ Builds(m, free, lvl, b, g, n, left, l, f, ok)
<1> DEFINE c == Put(m, g, m[b])
           rest == free \ {g}
           k == Put(lvl, g, 4)
<1>1. g \in free
  BY DEF Chooses
<1>2. Forest(m, rest, lvl) /\ Fresh(m, rest, g)
  BY <1>1, FreeIsFresh
<1>3. Forest(c, rest, k)
  BY <1>2, CopyKeepsForest
<1>4. g \notin DOMAIN m /\ g # None
  BY <1>2 DEF Fresh
<1>5. DOMAIN c = DOMAIN m \cup {g} /\ c[g] = m[b] /\ \A u \in DOMAIN m : c[u] = m[u]
  BY <1>4 DEF Put
<1>6. k[g] = 4 /\ \A u \in DOMAIN m : k[u] = lvl[u]
  BY <1>4 DEF Put, Forest
<1>7. \A s \in DOMAIN m : lvl[s] = 4 => \A q \in Page : Walk(c, s, q) = Walk(m, s, q)
  BY <1>4, CopyKeepsWalks
<1>8. Chooses("phys", rest) /\ rest \subseteq free /\ PrivatePage \in Page
  BY ChoosesLess DEF Page, PrivatePage
<1>9. Walk(c, g, PrivatePage) = None
  <2>1. Entry(c, g, PrivatePage[1]) = None
    BY <1>5 DEF Entry, PrivatePage
  <2>2. \A i : Entry(c, None, i) = None
    BY <1>3, NoneHasNoEntry
  <2> QED
    BY <2>1, <2>2 DEF Walk, WalkToL1
<1>10. Extends(m, c)
  BY <1>5 DEF Extends
<1>11. r = MapPageWith(c, rest, "phys", g, PrivatePage)
  OBVIOUS
<1> HIDE DEF c, k
<1>12. CASE rest = {}
  <2>1. r.mem = c /\ r.avail = rest /\ r.frame = None /\ r.ok = FALSE
    BY <1>11, <1>12 DEF MapPageWith
  <2>3. \A h \in free \ rest : h = g
    OBVIOUS
  <2>2. Builds(m, free, lvl, b, g, c, rest, k, None, FALSE)
    BY <2>3, <1>1, <1>3, <1>4, <1>5, <1>6, <1>7, <1>10, <1>12 DEF Builds
  <2> QED
    BY <2>1, <2>2
<1>13. CASE rest # {}
  <2>1. PICK f \in rest : \E n, left, u, l, ok :
           /\ MapPageWith(c, rest, "phys", g, PrivatePage) = Cursor(n, left, u, f, ok)
           /\ Maps(c, rest \ {f}, k, g, PrivatePage, f, n, left, l, ok)
    <3>1. g \in DOMAIN c /\ k[g] = 4
      BY <1>5, <1>6
    <3> QED
      BY <3>1, <1>3, <1>8, <1>13, MapPageWithIs
  <2>2. PICK n, left, u, l, ok :
           /\ MapPageWith(c, rest, "phys", g, PrivatePage) = Cursor(n, left, u, f, ok)
           /\ Maps(c, rest \ {f}, k, g, PrivatePage, f, n, left, l, ok)
    BY <2>1
  <2>3. r.mem = n /\ r.avail = left /\ r.frame = f /\ r.ok = ok
    BY <1>11, <2>2 DEF Cursor
  <2>4. /\ Forest(n, left, l)
        /\ left \subseteq rest \ {f} /\ DOMAIN n = DOMAIN c \cup ((rest \ {f}) \ left)
        /\ \A t \in DOMAIN c : l[t] = k[t]
        /\ Extends(c, n)
        /\ \A t \in DOMAIN n : \A i \in DOMAIN n[t] :
             (t \in DOMAIN c /\ i \in DOMAIN c[t]) \/ n[t][i] \in (rest \ {f}) \ left \/ (ok /\ n[t][i] = f)
        /\ \A h \in (rest \ {f}) \ left : \E t \in DOMAIN n : \E i \in DOMAIN n[t] : n[t][i] = h
        /\ \A t \in DOMAIN c : k[t] = 4 => \A i \in DOMAIN n[t] : i \in DOMAIN c[t] \/ (t = g /\ i = PrivatePage[1])
        /\ ok \in BOOLEAN
        /\ ok => Walk(n, g, PrivatePage) = f
        /\ ~ ok => left = {} \/ Walk(c, g, PrivatePage) # None
        /\ \A s \in DOMAIN c : k[s] = 4 => \A q \in Page :
             q # PrivatePage \/ ~ ok \/ (s # g /\ PrivatePage[1] = 1) => Walk(n, s, q) = Walk(c, s, q)
    BY <2>2 DEF Maps
  <2>5. Extends(m, n)
    BY <2>4, <1>10 DEF Extends
  <2>6. \A i \in DOMAIN m[b] : i \in DOMAIN n[g] /\ n[g][i] = m[b][i]
    BY <2>4, <1>5 DEF Extends
  <2>7. ASSUME NEW t \in DOMAIN n, NEW i \in DOMAIN n[t]
        PROVE  (t \in DOMAIN m /\ i \in DOMAIN m[t]) \/ (t = g /\ i \in DOMAIN m[b]) \/ n[t][i] \in free \ left
    <3>1. (t \in DOMAIN c /\ i \in DOMAIN c[t]) \/ n[t][i] \in (rest \ {f}) \ left \/ n[t][i] = f
      BY <2>4
    <3>2. f \in free \ left
      BY <2>1, <2>4
    <3> QED
      BY <3>1, <3>2, <1>5
  <2>8. \A t \in DOMAIN m : lvl[t] = 4 => \A i \in DOMAIN n[t] : i \in DOMAIN m[t]
    BY <2>4, <1>4, <1>5, <1>6
  <2>9. ASSUME NEW h \in free \ left
        PROVE  h = g \/ (~ ok /\ h = f) \/ \E t \in DOMAIN n : \E i \in DOMAIN n[t] : n[t][i] = h
    <3>1. CASE ok /\ h = f
      <4>1. Walk(n, g, PrivatePage) = f /\ f # None
        BY <3>1, <2>4, <2>1, <1>3 DEF Forest
      <4>2. \E t \in DOMAIN n : \E i \in DOMAIN n[t] : n[t][i] = f
        BY <4>1 DEF Walk, Entry
      <4> QED
        BY <4>2, <3>1
    <3>2. CASE h # f
      BY <3>2, <2>4, <2>9
    <3> QED
      BY <2>4, <3>1, <3>2
  <2>10. ASSUME NEW s \in DOMAIN m, lvl[s] = 4, NEW q \in Page PROVE Walk(n, s, q) = Walk(m, s, q)
    <3>1. s \in DOMAIN c /\ k[s] = 4 /\ s # g /\ PrivatePage[1] = 1
      BY <2>10, <1>4, <1>5, <1>6 DEF PrivatePage
    <3>2. Walk(n, s, q) = Walk(c, s, q)
      BY <3>1, <2>4
    <3> QED
      BY <3>2, <2>10, <1>7
  <2>11. /\ g \in free /\ left \subseteq free \ {g} /\ DOMAIN n \subseteq DOMAIN m \cup free
         /\ g \in DOMAIN n /\ l[g] = 4 /\ DOMAIN m \subseteq DOMAIN n /\ \A t \in DOMAIN m : l[t] = lvl[t]
    BY <1>1, <1>5, <1>6, <2>1, <2>4
  <2>12. (~ ok => left = {}) /\ (ok => f \in free /\ Walk(n, g, PrivatePage) = f) /\ ok \in BOOLEAN /\ Forest(n, left, l)
    BY <2>1, <2>4, <1>9
  <2>13. Builds(m, free, lvl, b, g, n, left, l, f, ok)
    BY <2>5, <2>6, <2>7, <2>8, <2>9, <2>10, <2>11, <2>12 DEF Builds
  <2> QED
    BY <2>3, <2>13
<1> QED
  BY <1>12, <1>13

----------------------------------------------------------------------------
(* The bump allocator and the bootstrap heap. *)

(* The regions, and the frame of the boot table, which lies in none. *)
LEMMA Frames ==
  /\ BootstrapPages \in Nat /\ BootstrapPages >= 4 /\ RealPages \in Nat /\ StackPages \in Nat /\ StackPages > 0
  /\ MaxSlots \in Nat /\ MaxSlots >= 4
  /\ \A n \in RegionSizes : n \in Nat /\ n > BootstrapPages + 4 /\ n <= BootL4
  /\ BootL4 \in Nat /\ LapicFrame = BootL4 + 1 /\ TrampolineFrame = BootL4 + 2
<1>1. PICK most \in RegionSizes : \A n \in RegionSizes : n <= most
  BY PagingAssumption
<1>2. \A n \in RegionSizes : n \in Nat /\ n > BootstrapPages + 4
  BY PagingAssumption
<1>3. \E x \in RegionSizes : \A y \in RegionSizes : x >= y
  <2>1. \A y \in RegionSizes : most >= y
    BY <1>1, <1>2
  <2> QED
    BY <2>1
<1>4. BootL4 \in RegionSizes /\ \A y \in RegionSizes : BootL4 >= y
  BY <1>3, Zenon DEF BootL4, Max
<1>5. \A n \in RegionSizes : n <= BootL4
  BY <1>2, <1>4
<1> QED
  BY <1>2, <1>4, <1>5, PagingAssumption DEF LapicFrame, TrampolineFrame

(* The bump allocator hands out the lowest frame. *)
BumpTakes(a, b, z) == AllocateFrame("bump", a .. z) = a /\ a .. z # {} /\ (a .. z) \ {a} = b .. z

(* The bump allocator hands out its first frame and moves on to the next. *)
LEMMA BumpIs ==
  ASSUME NEW a \in Nat, NEW b \in Nat, b = a + 1, NEW z \in Nat, a <= z
  PROVE  BumpTakes(a, b, z)
<1> DEFINE k == Min(a .. z)
<1>1. a \in a .. z /\ \A y \in a .. z : a <= y
  OBVIOUS
<1>2. k \in a .. z /\ \A y \in a .. z : k <= y
  BY <1>1, Zenon DEF Min
<1> HIDE DEF k
<1>3. k = a
  BY <1>1, <1>2
<1>4. AllocateFrame("bump", a .. z) = a
  BY <1>3 DEF k, AllocateFrame
<1> QED
  BY <1>1, <1>4 DEF BumpTakes

BumpMakes(a, b, z, m, t, i, f) ==
  CreateNextTable(Cursor(m, a .. z, t, f, TRUE), i, "bump") = Cursor(NewTable(m, t, i, a), b .. z, a, f, TRUE)

(* create_next_table on a frame of the bump allocator. *)
LEMMA BumpTable ==
  ASSUME NEW a \in Nat, NEW b \in Nat, b = a + 1, NEW z \in Nat, a <= z, NEW m, NEW t, NEW i, Entry(m, t, i) = None, NEW f
  PROVE  BumpMakes(a, b, z, m, t, i, f)
<1> DEFINE p == Cursor(m, a .. z, t, f, TRUE)
<1>0. BumpTakes(a, b, z)
  BY BumpIs
<1>1. p.mem = m /\ p.avail = a .. z /\ p.table = t /\ p.ok = TRUE /\ p.avail # {}
  BY <1>0 DEF Cursor, BumpTakes
<1>2. AllocateFrame("bump", a .. z) = a /\ (a .. z) \ {a} = b .. z
  BY <1>0 DEF BumpTakes
<1> DEFINE w == a .. z
           v == b .. z
<1>3. w \ {a} = v /\ AllocateFrame("bump", w) = a /\ p = Cursor(m, w, t, f, TRUE)
  BY <1>2
<1>4. w # {}
  BY <1>0 DEF BumpTakes
<1> HIDE DEF w, v
<1>5. CreateNextTable(Cursor(m, w, t, f, TRUE), i, "bump") = Cursor(NewTable(m, t, i, a), v, a, f, TRUE)
  BY <1>3, <1>4 DEF CreateNextTable, Cursor, NewTable
<1> QED
  BY <1>5 DEF w, v, BumpMakes

BumpFollows(m, avail, t, i, e, f) ==
  CreateNextTable(Cursor(m, avail, t, f, TRUE), i, "bump") = Cursor(m, avail, e, f, TRUE)

(* create_next_table where the table exists. *)
LEMMA TableThere ==
  ASSUME NEW m, NEW avail, NEW t, NEW i, NEW e, Entry(m, t, i) = e, e # None, NEW f
  PROVE  BumpFollows(m, avail, t, i, e, f)
  BY DEF CreateNextTable, Cursor, BumpFollows

(* The tables of the bootstrap heap with its first h pages. *)
HeapTables(m, h) ==
  /\ DOMAIN m = {BootL4, 1, 2, HeapL1}
  /\ DOMAIN m[BootL4] = {4} /\ m[BootL4][4] = 1
  /\ DOMAIN m[1] = {0} /\ m[1][0] = 2
  /\ DOMAIN m[2] = {0} /\ m[2][0] = HeapL1
  /\ DOMAIN m[HeapL1] = 0 .. h - 1 /\ \A i \in 0 .. h - 1 : m[HeapL1][i] = IF i = 0 THEN 0 ELSE i + 3

(* The first page of the heap: a frame for it and three for its tables. *)
MapsFirstHeapPage(m, z) ==
  \E n, u : /\ MapPageWith(m, 0 .. z, "bump", BootL4, HeapPage(0)) = Cursor(n, 4 .. z, u, 0, TRUE)
            /\ HeapTables(n, 1)

(* The first page of the heap takes frames 0 to 3: its own and three       *)
(* tables.                                                                 *)
LEMMA FirstHeapPage ==
  ASSUME NEW z \in Nat, z > 7, z < BootL4, NEW m, DOMAIN m = {BootL4}, DOMAIN m[BootL4] = {}
  PROVE  MapsFirstHeapPage(m, z)
<1> DEFINE page == HeapPage(0)
           m3 == NewTable(m, BootL4, 4, 1)
           m2 == NewTable(m3, 1, 0, 2)
           m1 == NewTable(m2, 2, 0, 3)
           n == SetEntry(m1, 3, 0, 0)
<1>0. BootL4 \in Nat /\ BootL4 > 8 /\ page[1] = 4 /\ page[2] = 0 /\ page[3] = 0 /\ page[4] = 0
  BY Frames DEF HeapPage
<1> HIDE DEF page
<1>1. TableAdded(m3, m, BootL4, 4, 1)
  BY <1>0, NewTableIs
<1>2. DOMAIN m3 = {BootL4, 1} /\ DOMAIN m3[1] = {} /\ DOMAIN m3[BootL4] = {4} /\ m3[BootL4][4] = 1
  <2> HIDE DEF m3
  <2> QED
    BY <1>1 DEF TableAdded
<1> HIDE DEF m3
<1>3. TableAdded(m2, m3, 1, 0, 2)
  BY <1>0, <1>2, NewTableIs
<1>4. /\ DOMAIN m2 = {BootL4, 1, 2} /\ DOMAIN m2[2] = {} /\ DOMAIN m2[BootL4] = {4} /\ m2[BootL4][4] = 1
      /\ DOMAIN m2[1] = {0} /\ m2[1][0] = 2
  <2> HIDE DEF m2
  <2> QED
    BY <1>0, <1>2, <1>3 DEF TableAdded
<1> HIDE DEF m2
<1>5. TableAdded(m1, m2, 2, 0, 3)
  BY <1>0, <1>4, NewTableIs
<1>6. /\ DOMAIN m1 = {BootL4, 1, 2, 3} /\ DOMAIN m1[3] = {} /\ DOMAIN m1[BootL4] = {4} /\ m1[BootL4][4] = 1
      /\ DOMAIN m1[1] = {0} /\ m1[1][0] = 2 /\ DOMAIN m1[2] = {0} /\ m1[2][0] = 3
  <2> HIDE DEF m1
  <2> QED
    BY <1>0, <1>4, <1>5 DEF TableAdded
<1> HIDE DEF m1
<1>7. /\ DOMAIN n = DOMAIN m1 /\ DOMAIN n[3] = DOMAIN m1[3] \cup {0} /\ n[3][0] = 0
      /\ \A u \in DOMAIN m1 : u # 3 => n[u] = m1[u]
  BY <1>6, SetEntryIs
<1> HIDE DEF n
<1>8. HeapTables(n, 1)
  <2>1. DOMAIN n[3] = 0 .. 0 /\ \A i \in 0 .. 0 : n[3][i] = 0
    BY <1>6, <1>7
  <2> QED
    BY <1>0, <1>6, <1>7, <2>1 DEF HeapTables, HeapL1
<1>a. 1 = 0 + 1 /\ 2 = 1 + 1 /\ 3 = 2 + 1 /\ 4 = 3 + 1 /\ 0 <= z /\ 1 <= z /\ 2 <= z /\ 3 <= z
  OBVIOUS
<1>9. AllocateFrame("bump", 0 .. z) = 0 /\ 0 .. z # {} /\ (0 .. z) \ {0} = 1 .. z
  <2>1. BumpTakes(0, 1, z)
    BY <1>a, BumpIs
  <2> QED
    BY <2>1 DEF BumpTakes
<1>10. MapPageWith(m, 0 .. z, "bump", BootL4, page) = MapTo(m, 1 .. z, "bump", BootL4, page, 0)
  BY <1>9 DEF MapPageWith
<1>11. CreateNextTable(Cursor(m, 1 .. z, BootL4, 0, TRUE), 4, "bump") = Cursor(m3, 2 .. z, 1, 0, TRUE)
  <2>1. Entry(m, BootL4, 4) = None
    BY DEF Entry
  <2>2. BumpMakes(1, 2, z, m, BootL4, 4, 0)
    BY <2>1, <1>a, BumpTable
  <2> QED
    BY <2>2 DEF m3, BumpMakes
<1>12. CreateNextTable(Cursor(m3, 2 .. z, 1, 0, TRUE), 0, "bump") = Cursor(m2, 3 .. z, 2, 0, TRUE)
  <2>1. Entry(m3, 1, 0) = None
    BY <1>2 DEF Entry
  <2>2. BumpMakes(2, 3, z, m3, 1, 0, 0)
    BY <2>1, <1>a, BumpTable
  <2> QED
    BY <2>2 DEF m2, BumpMakes
<1>13. CreateNextTable(Cursor(m2, 3 .. z, 2, 0, TRUE), 0, "bump") = Cursor(m1, 4 .. z, 3, 0, TRUE)
  <2>1. Entry(m2, 2, 0) = None
    BY <1>4 DEF Entry
  <2>2. BumpMakes(3, 4, z, m2, 2, 0, 0)
    BY <2>1, <1>a, BumpTable
  <2> QED
    BY <2>2 DEF m1, BumpMakes
<1> DEFINE p1 == Cursor(m1, 4 .. z, 3, 0, TRUE)
<1>14. Entry(m1, 3, 0) = None
  BY <1>6 DEF Entry
<1>15. MapTo(m, 1 .. z, "bump", BootL4, page, 0)
         = IF p1.ok /\ Entry(p1.mem, p1.table, 0) = None
           THEN [p1 EXCEPT !.mem = SetEntry(@, p1.table, 0, 0)] ELSE [p1 EXCEPT !.ok = FALSE]
  <2>1. [mem |-> m, avail |-> 1 .. z, table |-> BootL4, frame |-> 0, ok |-> TRUE] = Cursor(m, 1 .. z, BootL4, 0, TRUE)
    BY DEF Cursor
  <2> HIDE DEF p1
  <2> QED
    BY <2>1, <1>0, <1>11, <1>12, <1>13 DEF MapTo, p1
<1>16. p1.ok = TRUE /\ p1.mem = m1 /\ p1.table = 3
  BY DEF Cursor
<1> DEFINE r == MapTo(m, 1 .. z, "bump", BootL4, page, 0)
<1>17. Enters(r, p1, n)
  <2> HIDE DEF p1, r
  <2> QED
    BY <1>14, <1>15, <1>16 DEF Enters, n, r
<1>18. r = Cursor(n, 4 .. z, 3, 0, TRUE)
  <2> HIDE DEF r
  <2>1. p1 = Cursor(m1, 4 .. z, 3, 0, TRUE) /\ TRUE \in BOOLEAN
    OBVIOUS
  <2> HIDE DEF p1
  <2> QED
    BY <1>17, <2>1, CursorMoves
<1> HIDE DEF r
<1> QED
  BY <1>8, <1>10, <1>18 DEF r, page, MapsFirstHeapPage

(* Every other page of it: a frame and an entry. *)
MapsNextHeapPage(m, h, a, b, z) ==
  \E n, u : /\ MapPageWith(m, a .. z, "bump", BootL4, HeapPage(h)) = Cursor(n, b .. z, u, a, TRUE)
            /\ HeapTables(n, h + 1)

(* Every later page of the bootstrap heap takes one frame. *)
LEMMA NextHeapPage ==
  ASSUME NEW h \in Nat, h > 0, NEW a \in Nat, a = h + 3, NEW b \in Nat, b = a + 1, NEW z \in Nat, a <= z, BootL4 > 8,
         NEW m, HeapTables(m, h)
  PROVE  MapsNextHeapPage(m, h, a, b, z)
<1> DEFINE page == HeapPage(h)
<1> DEFINE n == SetEntry(m, 3, h, a)
<1>0. BootL4 \in Nat /\ page[1] = 4 /\ page[2] = 0 /\ page[3] = 0 /\ page[4] = h
  BY Frames DEF HeapPage
<1> HIDE DEF page
<1>1. /\ DOMAIN m = {BootL4, 1, 2, 3} /\ DOMAIN m[3] = 0 .. h - 1 /\ \A i \in 0 .. h - 1 : m[3][i] = IF i = 0 THEN 0 ELSE i + 3
      /\ DOMAIN m[BootL4] = {4} /\ m[BootL4][4] = 1
      /\ DOMAIN m[1] = {0} /\ m[1][0] = 2 /\ DOMAIN m[2] = {0} /\ m[2][0] = 3
  BY DEF HeapTables, HeapL1
<1>2. Entry(m, BootL4, 4) = 1 /\ Entry(m, 1, 0) = 2 /\ Entry(m, 2, 0) = 3 /\ Entry(m, 3, h) = None /\ h \notin DOMAIN m[3]
  BY <1>1 DEF Entry
<1>7. /\ DOMAIN n = DOMAIN m /\ DOMAIN n[3] = DOMAIN m[3] \cup {h} /\ n[3][h] = a
      /\ \A j \in DOMAIN m[3] : j # h => n[3][j] = m[3][j]
      /\ \A u \in DOMAIN m : u # 3 => n[u] = m[u]
  BY <1>1, SetEntryIs
<1> HIDE DEF n
<1>8. HeapTables(n, h + 1)
  <2>1. DOMAIN n[3] = 0 .. (h + 1) - 1
    BY <1>1, <1>7
  <2>2. ASSUME NEW i \in 0 .. (h + 1) - 1 PROVE n[3][i] = IF i = 0 THEN 0 ELSE i + 3
    <3>1. CASE i = h
      BY <3>1, <1>7
    <3>2. CASE i # h
      <4>1. i \in 0 .. h - 1
        BY <3>2
      <4> QED
        BY <4>1, <3>2, <1>1, <1>7
    <3> QED
      BY <3>1, <3>2
  <2> QED
    BY <1>0, <1>1, <1>7, <2>1, <2>2 DEF HeapTables, HeapL1
<1>9. AllocateFrame("bump", a .. z) = a /\ a .. z # {} /\ (a .. z) \ {a} = b .. z
  <2>1. BumpTakes(a, b, z)
    BY BumpIs
  <2> QED
    BY <2>1 DEF BumpTakes
<1> DEFINE w == b .. z
<1>10. MapPageWith(m, a .. z, "bump", BootL4, page) = MapTo(m, w, "bump", BootL4, page, a)
  BY <1>9 DEF MapPageWith
<1> HIDE DEF w
<1>11. CreateNextTable(Cursor(m, w, BootL4, a, TRUE), 4, "bump") = Cursor(m, w, 1, a, TRUE)
  <2>1. Entry(m, BootL4, 4) = 1 /\ 1 # None
    BY <1>2 DEF None
  <2>2. BumpFollows(m, w, BootL4, 4, 1, a)
    BY <2>1, TableThere
  <2> QED
    BY <2>2 DEF BumpFollows
<1>12. CreateNextTable(Cursor(m, w, 1, a, TRUE), 0, "bump") = Cursor(m, w, 2, a, TRUE)
  <2>1. Entry(m, 1, 0) = 2 /\ 2 # None
    BY <1>2 DEF None
  <2>2. BumpFollows(m, w, 1, 0, 2, a)
    BY <2>1, TableThere
  <2> QED
    BY <2>2 DEF BumpFollows
<1>13. CreateNextTable(Cursor(m, w, 2, a, TRUE), 0, "bump") = Cursor(m, w, 3, a, TRUE)
  <2>1. Entry(m, 2, 0) = 3 /\ 3 # None
    BY <1>2 DEF None
  <2>2. BumpFollows(m, w, 2, 0, 3, a)
    BY <2>1, TableThere
  <2> QED
    BY <2>2 DEF BumpFollows
<1> DEFINE p1 == Cursor(m, w, 3, a, TRUE)
           r == MapTo(m, w, "bump", BootL4, page, a)
<1>15. r = IF p1.ok /\ Entry(p1.mem, p1.table, h) = None
           THEN [p1 EXCEPT !.mem = SetEntry(@, p1.table, h, a)] ELSE [p1 EXCEPT !.ok = FALSE]
  <2>1. [mem |-> m, avail |-> w, table |-> BootL4, frame |-> a, ok |-> TRUE] = Cursor(m, w, BootL4, a, TRUE)
    BY DEF Cursor
  <2> HIDE DEF p1
  <2> QED
    BY <2>1, <1>0, <1>11, <1>12, <1>13 DEF MapTo, p1
<1>16. p1.ok = TRUE /\ p1.mem = m /\ p1.table = 3
  BY DEF Cursor
<1>17. Enters(r, p1, n)
  <2> HIDE DEF p1, r
  <2> QED
    BY <1>2, <1>15, <1>16 DEF Enters, n
<1>18. r = Cursor(n, w, 3, a, TRUE)
  <2> HIDE DEF r
  <2>1. p1 = Cursor(m, w, 3, a, TRUE) /\ TRUE \in BOOLEAN
    OBVIOUS
  <2> HIDE DEF p1
  <2> QED
    BY <1>17, <2>1, CursorMoves
<1> HIDE DEF r
<1> QED
  BY <1>8, <1>10, <1>18 DEF r, w, page, MapsNextHeapPage

(* The tables of the heap are a forest, with all of PHYS free. *)
LEMMA HeapForest ==
  ASSUME NEW n \in RegionSizes, NEW m, HeapTables(m, BootstrapPages)
  PROVE  \E lvl : Forest(m, BootstrapPages .. n - 1, lvl) /\ lvl[BootL4] = 4
<1> DEFINE lvl == [t \in {BootL4, 1, 2, HeapL1} |-> IF t = BootL4 THEN 4 ELSE IF t = 1 THEN 3 ELSE IF t = 2 THEN 2 ELSE 1]
           free == BootstrapPages .. n - 1
<1>1. BootL4 \in Nat /\ BootL4 >= n /\ n \in Nat /\ BootL4 > 8 /\ BootstrapPages \in Nat /\ BootstrapPages >= 4 /\ HeapL1 = 3
  BY Frames DEF HeapL1
<1>2. DOMAIN lvl = {BootL4, 1, 2, 3} /\ lvl[BootL4] = 4 /\ lvl[1] = 3 /\ lvl[2] = 2 /\ lvl[3] = 1 /\ lvl \in [{BootL4, 1, 2, 3} -> 1 .. 4]
  BY <1>1
<1>3. /\ DOMAIN m = {BootL4, 1, 2, 3} /\ DOMAIN m[BootL4] = {4} /\ m[BootL4][4] = 1
      /\ DOMAIN m[1] = {0} /\ m[1][0] = 2 /\ DOMAIN m[2] = {0} /\ m[2][0] = 3
      /\ DOMAIN m[3] = 0 .. BootstrapPages - 1
      /\ \A i \in 0 .. BootstrapPages - 1 : m[3][i] = IF i = 0 THEN 0 ELSE i + 3
  BY <1>1 DEF HeapTables
<1> HIDE DEF lvl
<1>4. ASSUME NEW t \in DOMAIN m, NEW i \in DOMAIN m[t]
      PROVE  \/ t = BootL4 /\ i = 4 /\ m[t][i] = 1
             \/ t = 1 /\ i = 0 /\ m[t][i] = 2
             \/ t = 2 /\ i = 0 /\ m[t][i] = 3
             \/ t = 3 /\ Exempt(t, i) /\ m[t][i] \in Nat
  BY <1>1, <1>3 DEF Exempt
<1>5. None \notin DOMAIN m /\ None \notin free /\ \A t \in DOMAIN m : t \notin free
  BY <1>1, <1>3 DEF None
<1>6. \A t \in DOMAIN m : \A i \in DOMAIN m[t] : m[t][i] # None
  BY <1>4 DEF None
<1>7. \A t \in DOMAIN m : \A i \in DOMAIN m[t] : lvl[t] > 1 => m[t][i] \in DOMAIN m /\ lvl[m[t][i]] = lvl[t] - 1
  BY <1>1, <1>2, <1>3, <1>4
<1>8. \A t \in DOMAIN m : \A i \in DOMAIN m[t] : lvl[t] = 1 => Exempt(t, i)
  BY <1>1, <1>2, <1>4
<1>9. ASSUME NEW t \in DOMAIN m, NEW u \in DOMAIN m, NEW i \in DOMAIN m[t], NEW j \in DOMAIN m[u], m[t][i] = m[u][j]
      PROVE  Exempt(t, i) \/ Exempt(u, j) \/ (t = u /\ i = j)
  <2>1. \/ t = BootL4 /\ i = 4 /\ m[t][i] = 1
        \/ t = 1 /\ i = 0 /\ m[t][i] = 2
        \/ t = 2 /\ i = 0 /\ m[t][i] = 3
        \/ Exempt(t, i)
    BY <1>4
  <2>2. \/ u = BootL4 /\ j = 4 /\ m[u][j] = 1
        \/ u = 1 /\ j = 0 /\ m[u][j] = 2
        \/ u = 2 /\ j = 0 /\ m[u][j] = 3
        \/ Exempt(u, j)
    BY <1>4
  <2> QED
    BY <2>1, <2>2, <1>9
<1> HIDE DEF free
<1>10. Forest(m, free, lvl)
  BY <1>1, <1>2, <1>3, <1>5, <1>6, <1>7, <1>8, <1>9 DEF Forest
<1> QED
  BY <1>2, <1>10 DEF free

----------------------------------------------------------------------------
(* The invariant. *)

(* The frames: what lies where. *)
Framed ==
  /\ region \in RegionSizes /\ bump = BootstrapPages + 3
  /\ phys \subseteq BootstrapPages .. region - 1
  /\ DOMAIN mem \subseteq 0 .. region - 1 \cup {BootL4} /\ BootL4 \in DOMAIN mem
  /\ \A t \in DOMAIN mem : \A i \in DOMAIN mem[t] :
       /\ mem[t][i] \in 0 .. region - 1 \cup {LapicFrame, TrampolineFrame}
       /\ Exempt(t, i) \/ mem[t][i] \in 1 .. 3 \/ mem[t][i] >= BootstrapPages

(* The L4 tables stand at the top of the forest. *)
Rooted(lvl) ==
  /\ Forest(mem, phys, lvl) /\ lvl[BootL4] = 4
  /\ \A s \in Spaces : spaces[s] # None => spaces[s] \in DOMAIN mem /\ lvl[spaces[s]] = 4

(* The tables of the bootstrap heap stay, and the boot table has no        *)
(* private entry.                                                          *)
HeapInPlace ==
  /\ {1, 2, 3} \subseteq DOMAIN mem
  /\ 4 \in DOMAIN mem[BootL4] /\ mem[BootL4][4] = 1
  /\ 0 \in DOMAIN mem[1] /\ mem[1][0] = 2 /\ 0 \in DOMAIN mem[2] /\ mem[2][0] = 3
  /\ \A i \in 0 .. BootstrapPages - 1 : i \in DOMAIN mem[3] /\ mem[3][i] = IF i = 0 THEN 0 ELSE i + 3
  /\ 1 \notin DOMAIN mem[BootL4]

IsTarget(m, f) == \E t \in DOMAIN m : \E i \in DOMAIN m[t] : m[t][i] = f

(* A frame that is not lost, and that none in use is. *)
Held(f) == IsTarget(mem, f) \/ f \in L4Tables
AllHeld == \A f \in 0 .. region - 1 : f < bump \/ f \notin phys => Held(f)

(* While PHYS has a frame left nothing is lost, and then at most the frame *)
(* of a page and an L4 table.  It comes to the frames of the bump          *)
(* allocator last.                                                         *)
Kept ==
  /\ ~ short => BootstrapPages .. bump - 1 \subseteq phys
  /\ phys # {} => AllHeld
  /\ \E p, g : \A f \in 0 .. region - 1 : f < bump \/ f \notin phys => Held(f) \/ f \in {p, g}

Memory == Framed /\ (\E lvl : Rooted(lvl)) /\ HeapInPlace /\ Kept

(* Which pages are mapped. *)
Mapped(q) == Walk(mem, BootL4, q) # None

BeforeTouch == {"extend", "heap_check"}
BeforeSpaces == BeforeTouch \cup {"first_touch", "unmap", "second_touch", "new_space"}
DemoSteps == {"switch_to", "read_private", "restore"}
BeforeInit == BeforeSpaces \cup DemoSteps \cup {"map_user_code", "map_user_stack"}
SmpSteps == {"map_lapic", "map_trampoline", "send_ipi", "done"}
Steps == BeforeInit \cup {"init", "run"} \cup SmpSteps \cup {"panic"}

HeapPart ==
  /\ heap \in BootstrapPages .. BootstrapPages + RealPages
  /\ \A d \in Nat : Mapped(HeapPage(d)) <=> d < heap
  /\ step \notin {"extend", "panic"} => heap = BootstrapPages + RealPages

StackPart ==
  /\ stacks \in [slots : 0 .. MaxSlots, pages : 0 .. StackPages - 1]
  /\ \A k \in Nat : k >= stacks.slots * (StackPages + 1) + 1 + stacks.pages => ~ Mapped(<<3, 0, 0, k>>)
  /\ \A slot \in 0 .. stacks.slots - 1 : \A i \in 0 .. StackPages - 1 : Mapped(StackPage(slot, i))
  /\ \A i \in 0 .. stacks.pages - 1 : Mapped(StackPage(stacks.slots, i))
  /\ step \in BeforeInit => stacks.slots = 0 /\ stacks.pages = 0

DemandPart ==
  /\ PAGE_FAULTS_DEMAND_PAGED \in 0 .. 2
  /\ step \in BeforeTouch => PAGE_FAULTS_DEMAND_PAGED = 0 /\ ~ Mapped(DemandPage)
  /\ step = "first_touch" => PAGE_FAULTS_DEMAND_PAGED = IF Mapped(DemandPage) THEN 1 ELSE 0
  /\ step = "unmap" => PAGE_FAULTS_DEMAND_PAGED = 1 /\ Mapped(DemandPage)
  /\ step = "second_touch" => PAGE_FAULTS_DEMAND_PAGED = IF Mapped(DemandPage) THEN 2 ELSE 1
  /\ step = "unmap" \/ (step = "first_touch" /\ Mapped(DemandPage)) => AllHeld
  /\ step \notin BeforeTouch \cup {"first_touch", "unmap", "second_touch", "panic"} => Mapped(DemandPage)

FixedPart ==
  /\ step \in BeforeInit \ {"map_user_stack"} => ~ Mapped(<<6, 0, 0, 0>>)
  /\ step \in BeforeInit => ~ Mapped(<<7, 0, 0, 0>>)
  /\ step \notin SmpSteps \ {"map_lapic"} => ~ Mapped(<<2, 0, 0, 0>>) /\ ~ IsTarget(mem, LapicFrame)
  /\ step \notin {"send_ipi", "done"} => ~ Mapped(<<0, 0, 0, 0>>) /\ ~ IsTarget(mem, TrampolineFrame)
  /\ step \in {"map_trampoline", "send_ipi"} => Walk(mem, BootL4, <<2, 0, 0, 0>>) = LapicFrame
  /\ step = "send_ipi" => Walk(mem, BootL4, <<0, 0, 0, 0>>) = TrampolineFrame

Pages == step \in Steps /\ HeapPart /\ StackPart /\ DemandPart /\ FixedPart

(* The address spaces. *)
SpacesPart ==
  /\ spaces \in [Spaces -> Int]
  /\ step \in BeforeSpaces => spaces["demo"] = None
  /\ step \in DemoSteps => spaces["demo"] # None
  /\ step \in BeforeInit => spaces["task_e"] = None
  /\ spaces["task_e"] = None => stacks.slots < 3 \/ (stacks.slots = 3 /\ stacks.pages = 0)
  /\ spaces["task_e"] = None /\ step = "run" => phys = {}
  /\ spaces["demo"] # None => spaces["task_e"] # spaces["demo"]

PrivatePart ==
  \A s \in Spaces : spaces[s] # None =>
    /\ Walk(mem, spaces[s], PrivatePage) # None
    /\ Walk(mem, spaces[s], PrivatePage) \in DOMAIN data
    /\ data[Walk(mem, spaces[s], PrivatePage)] = "private"

SharedPart ==
  spaces["task_e"] # None =>
    \A i \in {3, 4, 5} : /\ i \in DOMAIN mem[BootL4] /\ i \in DOMAIN mem[spaces["task_e"]]
                         /\ mem[BootL4][i] = mem[spaces["task_e"]][i]

(* The processor. *)
CorePart ==
  /\ running \in Tasks
  /\ step \notin {"run", "panic"} => running = "boot"
  /\ cr3 = IF step \in {"read_private", "restore"} THEN spaces["demo"] ELSE DesiredL4Frame(running)

TlbPart ==
  /\ \A q \in DOMAIN tlb : tlb[q] # None /\ tlb[q] = Walk(mem, cr3, q)
  /\ step \in BeforeTouch \cup {"first_touch", "unmap"} => DOMAIN tlb \subseteq {DemandPage}

ResultsPart ==
  /\ short \in BOOLEAN /\ \A name \in DOMAIN checks : checks[name] \in BOOLEAN
  /\ ~ short => step # "panic" /\ \A name \in DOMAIN checks : checks[name]

Running == Memory /\ Pages /\ SpacesPart /\ PrivatePart /\ SharedPart /\ CorePart /\ TlbPart /\ ResultsPart

(* While the bump allocator maps the heap. *)
Bootstrapping ==
  /\ step = "init_bootstrap" /\ region \in RegionSizes /\ heap \in 0 .. BootstrapPages /\ phys = {}
  /\ cr3 = BootL4 /\ DOMAIN tlb = {} /\ DOMAIN data = {} /\ PAGE_FAULTS_DEMAND_PAGED = 0 /\ DOMAIN checks = {}
  /\ spaces = [s \in Spaces |-> None] /\ stacks = [slots |-> 0, pages |-> 0] /\ running = "boot" /\ short = FALSE
  /\ bump = IF heap = 0 THEN 0 ELSE heap + 3
  /\ heap = 0 => DOMAIN mem = {BootL4} /\ DOMAIN mem[BootL4] = {}
  /\ heap > 0 => HeapTables(mem, heap)

PagingInv == Bootstrapping \/ Running

----------------------------------------------------------------------------
(* What a call does to the memory. *)

(* What mapping the page through the boot table does to the rest: f is its *)
(* frame when it succeeds, and when it does not, PHYS is exhausted.        *)
MapsPage(page, f, ok) ==
  /\ ok \in BOOLEAN /\ f # None /\ Extends(mem, mem')
  /\ ok => Walk(mem', BootL4, page) = f
  /\ \A q \in Page : q # page \/ ~ ok => Walk(mem', BootL4, q) = Walk(mem, BootL4, q)
  /\ ~ ok => short' /\ phys' = {}
  /\ short => short'
  /\ \A x \in {LapicFrame, TrampolineFrame} : IsTarget(mem', x) => IsTarget(mem, x) \/ (ok /\ x = f)
  /\ phys = {} => phys' = {}
  /\ ok /\ phys # {} => AllHeld'

(* What is held stays so when no frame and no table changes. *)
LEMMA KeptStays ==
  ASSUME UNCHANGED <<region, bump, phys, mem, spaces, short>>
  PROVE  (Kept => Kept') /\ (AllHeld => AllHeld')
<1>1. region' = region /\ bump' = bump /\ phys' = phys /\ mem' = mem /\ spaces' = spaces /\ short' = short
  OBVIOUS
<1>2. \A f : Held(f)' <=> Held(f)
  BY <1>1 DEF Held, L4Tables
<1>3. AllHeld => AllHeld'
  BY <1>1, <1>2 DEF AllHeld
<1>4. ASSUME Kept PROVE Kept'
  <2>1. PICK p, g : \A f \in 0 .. region - 1 : f < bump \/ f \notin phys => Held(f) \/ f \in {p, g}
    BY <1>4 DEF Kept
  <2>2. \A f \in 0 .. region' - 1 : f < bump' \/ f \notin phys' => Held(f)' \/ f \in {p, g}
    BY <2>1, <1>1, <1>2
  <2>3. \E x, y : \A f \in 0 .. region' - 1 : f < bump' \/ f \notin phys' => Held(f)' \/ f \in {x, y}
    BY <2>2
  <2>4. (~ short' => BootstrapPages .. bump' - 1 \subseteq phys') /\ (phys' # {} => AllHeld')
    BY <1>1, <1>3, <1>4 DEF Kept
  <2> QED
    BY <2>3, <2>4 DEF Kept
<1> QED
  BY <1>3, <1>4

(* What a call that takes frames from PHYS leaves in order, when all of    *)
(* them are held, or all but two that were the last.                       *)
LEMMA SpendingKeeps ==
  ASSUME Memory, UNCHANGED <<region, bump>>, phys' \subseteq phys,
         \A x : IsTarget(mem, x) => IsTarget(mem', x), L4Tables \subseteq L4Tables',
         NEW p, NEW g, \A h \in phys \ phys' : Held(h)' \/ h \in {p, g},
         phys' = {} \/ \A h \in phys \ phys' : Held(h)',
         short' = (short \/ \E h \in phys \ phys' : h < bump), short \in BOOLEAN
  PROVE  Kept' /\ (phys # {} /\ (\A h \in phys \ phys' : Held(h)') => AllHeld')
<1>0. Kept /\ Framed /\ region' = region /\ bump' = bump
  BY DEF Memory
<1>1. BootstrapPages \in Nat /\ bump = BootstrapPages + 3
  BY <1>0, Frames DEF Framed
<1>2. \A h : Held(h) => Held(h)'
  BY DEF Held
<1>3. ASSUME ~ short' PROVE BootstrapPages .. bump - 1 \subseteq phys'
  <2>1. ~ short /\ \A h \in phys \ phys' : ~ (h < bump)
    BY <1>3
  <2>2. BootstrapPages .. bump - 1 \subseteq phys
    BY <2>1, <1>0 DEF Kept
  <2>3. \A h \in BootstrapPages .. bump - 1 : h < bump
    BY <1>1
  <2> QED
    BY <2>1, <2>2, <2>3
<1>4. ASSUME phys # {}, \A h \in phys \ phys' : Held(h)' PROVE AllHeld'
  <2>1. AllHeld
    BY <1>0, <1>4 DEF Kept
  <2> QED
    BY <2>1, <1>0, <1>2, <1>4 DEF AllHeld
<1>5. \E x, y : \A h \in 0 .. region - 1 : h < bump \/ h \notin phys' => Held(h)' \/ h \in {x, y}
  <2>1. CASE phys = {}
    <3>1. PICK x, y : \A h \in 0 .. region - 1 : h < bump \/ h \notin phys => Held(h) \/ h \in {x, y}
      BY <1>0 DEF Kept
    <3>2. phys' = phys
      BY <2>1
    <3> QED
      BY <3>1, <3>2, <1>2
  <2>2. CASE phys # {}
    <3>1. AllHeld
      BY <1>0, <2>2 DEF Kept
    <3>2. \A h \in 0 .. region - 1 : h < bump \/ h \notin phys' => Held(h)' \/ h \in {p, g}
      BY <3>1, <1>2 DEF AllHeld
    <3> QED
      BY <3>2
  <2> QED
    BY <2>1, <2>2
<1>6. phys' # {} => AllHeld'
  BY <1>4
<1> QED
  BY <1>0, <1>3, <1>4, <1>5, <1>6 DEF Kept

(* Mapping a page through the boot table keeps the memory in order, whether*)
(* it succeeds or not.                                                     *)
LEMMA MapsKeepsMemory ==
  ASSUME Memory, NEW lvl, Rooted(lvl), NEW page \in Page, page[1] # 1, ~ Mapped(page),
         NEW free, free \subseteq phys, NEW f, phys \subseteq free \cup {f},
         f \in phys \/ f \in {LapicFrame, TrampolineFrame},
         NEW l, NEW ok, Maps(mem, free, lvl, BootL4, page, f, mem', phys', l, ok),
         short' = (short \/ \E g \in phys \ phys' : g < bump), short \in BOOLEAN,
         UNCHANGED <<region, bump, spaces>>
  PROVE  Memory' /\ MapsPage(page, f, ok)
<1>0. /\ Framed /\ HeapInPlace /\ Kept
      /\ region' = region /\ bump' = bump /\ spaces' = spaces
  BY DEF Memory
<1>1. /\ Forest(mem', phys', l)
      /\ phys' \subseteq free /\ DOMAIN mem' = DOMAIN mem \cup (free \ phys')
      /\ \A t \in DOMAIN mem : l[t] = lvl[t]
      /\ Extends(mem, mem')
      /\ \A t \in DOMAIN mem' : \A i \in DOMAIN mem'[t] :
           (t \in DOMAIN mem /\ i \in DOMAIN mem[t]) \/ mem'[t][i] \in free \ phys' \/ (ok /\ mem'[t][i] = f)
      /\ \A g \in free \ phys' : \E t \in DOMAIN mem' : \E i \in DOMAIN mem'[t] : mem'[t][i] = g
      /\ \A t \in DOMAIN mem : lvl[t] = 4 => \A i \in DOMAIN mem'[t] : i \in DOMAIN mem[t] \/ (t = BootL4 /\ i = page[1])
      /\ ok \in BOOLEAN
      /\ ok => Walk(mem', BootL4, page) = f
      /\ ~ ok => phys' = {} \/ Walk(mem, BootL4, page) # None
      /\ \A s \in DOMAIN mem : lvl[s] = 4 => \A q \in Page :
           q # page \/ ~ ok \/ (s # BootL4 /\ page[1] = 1) => Walk(mem', s, q) = Walk(mem, s, q)
  BY DEF Maps
<1>2. /\ region \in RegionSizes /\ bump = BootstrapPages + 3 /\ phys \subseteq BootstrapPages .. region - 1
      /\ DOMAIN mem \subseteq 0 .. region - 1 \cup {BootL4} /\ BootL4 \in DOMAIN mem
  BY <1>0 DEF Framed
<1>3. /\ region \in Nat /\ region > BootstrapPages + 4 /\ region <= BootL4 /\ BootL4 \in Nat
      /\ BootstrapPages \in Nat /\ BootstrapPages >= 4 /\ LapicFrame = BootL4 + 1 /\ TrampolineFrame = BootL4 + 2
  BY <1>2, Frames
<1>4. lvl[BootL4] = 4 /\ Forest(mem, phys, lvl)
  BY DEF Rooted
<1>5. Rooted(l)'
  BY <1>0, <1>1, <1>2 DEF Rooted
<1>6. ASSUME NEW t \in DOMAIN mem', NEW i \in DOMAIN mem'[t]
      PROVE  \/ t \in DOMAIN mem /\ i \in DOMAIN mem[t] /\ mem'[t][i] = mem[t][i]
             \/ mem'[t][i] \in phys
             \/ ok /\ mem'[t][i] = f
  BY <1>1 DEF Extends
<1>7. Framed'
  <2>1. phys' \subseteq BootstrapPages .. region - 1 /\ phys \subseteq 0 .. region - 1
    BY <1>1, <1>2, <1>3
  <2>2. DOMAIN mem' \subseteq 0 .. region - 1 \cup {BootL4} /\ BootL4 \in DOMAIN mem'
    BY <1>1, <1>2, <2>1
  <2>3. ASSUME NEW t \in DOMAIN mem', NEW i \in DOMAIN mem'[t]
        PROVE  /\ mem'[t][i] \in 0 .. region - 1 \cup {LapicFrame, TrampolineFrame}
               /\ Exempt(t, i) \/ mem'[t][i] \in 1 .. 3 \/ mem'[t][i] >= BootstrapPages
    <3>1. CASE t \in DOMAIN mem /\ i \in DOMAIN mem[t] /\ mem'[t][i] = mem[t][i]
      BY <3>1, <1>0 DEF Framed
    <3>2. CASE mem'[t][i] \in phys
      <4>1. mem'[t][i] \in BootstrapPages .. region - 1
        BY <3>2, <1>2
      <4> QED
        BY <4>1, <1>3
    <3>3. CASE mem'[t][i] = f
      <4>1. f \in BootstrapPages .. region - 1 \/ f \in {LapicFrame, TrampolineFrame}
        BY <1>2
      <4> QED
        BY <4>1, <3>3, <1>3
    <3> QED
      BY <1>6, <3>1, <3>2, <3>3
  <2> QED
    BY <1>0, <1>2, <2>1, <2>2, <2>3 DEF Framed
<1>8. HeapInPlace'
  <2>1. 1 \notin DOMAIN mem'[BootL4]
    BY <1>0, <1>1, <1>2, <1>4 DEF HeapInPlace
  <2>2. {1, 2, 3} \subseteq DOMAIN mem'
    BY <1>0, <1>1 DEF HeapInPlace
  <2>3. /\ 4 \in DOMAIN mem'[BootL4] /\ mem'[BootL4][4] = 1
        /\ 0 \in DOMAIN mem'[1] /\ mem'[1][0] = 2 /\ 0 \in DOMAIN mem'[2] /\ mem'[2][0] = 3
    BY <1>0, <1>1, <1>2 DEF HeapInPlace, Extends
  <2>4. \A i \in 0 .. BootstrapPages - 1 : i \in DOMAIN mem'[3] /\ mem'[3][i] = IF i = 0 THEN 0 ELSE i + 3
    BY <1>0, <1>1 DEF HeapInPlace, Extends
  <2> QED
    BY <2>1, <2>2, <2>3, <2>4 DEF HeapInPlace
<1>9. ~ ok => short' /\ phys' = {}
  <2> SUFFICES ASSUME ~ ok, ~ short' PROVE FALSE
    BY <1>1 DEF Mapped
  <2>1. phys' = {} /\ ~ short
    BY <1>1 DEF Mapped
  <2>2. BootstrapPages \in phys
    BY <1>0, <1>2, <1>3, <2>1 DEF Kept
  <2>3. BootstrapPages \in phys \ phys' /\ BootstrapPages < bump
    BY <2>1, <2>2, <1>2, <1>3
  <2>4. \E g \in phys \ phys' : g < bump
    BY <2>3
  <2> QED
    BY <2>4, Zenon
<1>10. Kept' /\ (ok /\ phys # {} => AllHeld')
  <2>1. ASSUME NEW g, IsTarget(mem, g) PROVE IsTarget(mem', g)
    BY <2>1, <1>1 DEF IsTarget, Extends
  <2>2. L4Tables \subseteq L4Tables'
    BY <1>0 DEF L4Tables
  <2>3. ASSUME NEW g \in phys \ phys' PROVE IsTarget(mem', g) \/ (~ ok /\ g = f)
    <3>1. CASE ok /\ g = f
      <4>1. Walk(mem', BootL4, page) = f /\ f # None
        BY <3>1, <1>1, <1>2, <1>3 DEF None
      <4> QED
        BY <3>1, <4>1 DEF Walk, Entry, IsTarget
    <3>2. CASE g # f
      BY <3>2, <1>1 DEF IsTarget
    <3> QED
      BY <3>1, <3>2, <1>1
  <2>4. /\ \A g \in phys \ phys' : Held(g)' \/ g \in {f, f}
        /\ ok => \A g \in phys \ phys' : Held(g)'
    BY <2>3 DEF Held
  <2>5. phys' = {} \/ \A g \in phys \ phys' : Held(g)'
    BY <2>4, <1>1, <1>9
  <2>6. phys' \subseteq phys
    BY <1>1
  <2> QED
    BY <2>1, <2>2, <2>4, <2>5, <2>6, SpendingKeeps
<1>11. Memory'
  BY <1>5, <1>7, <1>8, <1>10 DEF Memory
<1>12. f # None
  BY <1>2, <1>3 DEF None
<1>13. ASSUME NEW x \in {LapicFrame, TrampolineFrame}, IsTarget(mem', x) PROVE IsTarget(mem, x) \/ (ok /\ x = f)
  <2>1. PICK t \in DOMAIN mem' : \E i \in DOMAIN mem'[t] : mem'[t][i] = x
    BY <1>13 DEF IsTarget
  <2>2. PICK i \in DOMAIN mem'[t] : mem'[t][i] = x
    BY <2>1
  <2>3. x \notin phys
    BY <1>2, <1>3
  <2> QED
    BY <1>6, <2>2, <2>3 DEF IsTarget
<1>14. \A q \in Page : q # page \/ ~ ok => Walk(mem', BootL4, q) = Walk(mem, BootL4, q)
  BY <1>1, <1>2, <1>4
<1>15. short => short'
  OBVIOUS
<1> QED
  BY <1>1, <1>9, <1>10, <1>11, <1>12, <1>13, <1>14, <1>15 DEF MapsPage

(* map_page, of a page that is not mapped. *)
LEMMA MapPageStep ==
  ASSUME Memory, NEW page \in Page, page[1] # 1, ~ Mapped(page), NEW r, r = MapPage(page), Uses(r),
         short \in BOOLEAN, UNCHANGED <<region, bump, spaces>>
  PROVE  Memory' /\ \E f : f \notin {LapicFrame, TrampolineFrame} /\ MapsPage(page, f, r.ok)
<1>1. PICK lvl : Rooted(lvl)
  BY DEF Memory
<1>2. /\ region \in RegionSizes /\ bump = BootstrapPages + 3 /\ phys \subseteq BootstrapPages .. region - 1 /\ BootL4 \in DOMAIN mem
  BY DEF Memory, Framed
<1>3. /\ region \in Nat /\ region > BootstrapPages + 4 /\ region <= BootL4 /\ BootL4 \in Nat
      /\ BootstrapPages \in Nat /\ BootstrapPages >= 4 /\ LapicFrame = BootL4 + 1 /\ TrampolineFrame = BootL4 + 2
  BY <1>2, Frames
<1>4. lvl[BootL4] = 4 /\ Forest(mem, phys, lvl)
  BY <1>1 DEF Rooted
<1>5. mem' = r.mem /\ phys' = r.avail /\ short' = (short \/ \E g \in phys \ r.avail : g < bump)
  BY DEF Uses
<1>6. CASE phys = {}
  <2>1. mem' = mem /\ phys' = phys /\ r.ok = FALSE
    BY <1>5, <1>6 DEF MapPage, MapPageWith
  <2>2. short' = short
    BY <1>5, <1>6
  <2>3. short
    <3>1. BootstrapPages \in BootstrapPages .. bump - 1
      BY <1>2, <1>3
    <3> QED
      BY <3>1, <1>6 DEF Memory, Kept
  <2>4. Memory'
    <3>1. Framed' /\ HeapInPlace' /\ Kept'
      BY <2>1, <2>2, KeptStays DEF Memory, Framed, HeapInPlace
    <3>2. Rooted(lvl)'
      BY <1>1, <2>1 DEF Rooted
    <3> QED
      BY <3>1, <3>2 DEF Memory
  <2>5. MapsPage(page, 0, FALSE)
    BY <2>1, <2>2, <2>3, <1>6 DEF MapsPage, None, Extends
  <2>6. 0 \notin {LapicFrame, TrampolineFrame}
    BY <1>3
  <2> QED
    BY <2>1, <2>4, <2>5, <2>6
<1>7. CASE phys # {}
  <2>1. Chooses("phys", phys)
    <3>1. phys \subseteq 0 .. region
      BY <1>2, <1>3
    <3> QED
      BY <3>1, <1>3, PhysChooses
  <2>2. PICK f \in phys : \E n, left, u, l, ok :
           /\ MapPageWith(mem, phys, "phys", BootL4, page) = Cursor(n, left, u, f, ok)
           /\ Maps(mem, phys \ {f}, lvl, BootL4, page, f, n, left, l, ok)
    BY <1>2, <1>4, <1>7, <2>1, MapPageWithIs
  <2>3. PICK n, left, u, l, ok :
           /\ MapPageWith(mem, phys, "phys", BootL4, page) = Cursor(n, left, u, f, ok)
           /\ Maps(mem, phys \ {f}, lvl, BootL4, page, f, n, left, l, ok)
    BY <2>2
  <2>4. r.mem = n /\ r.avail = left /\ r.ok = ok
    BY <2>3 DEF MapPage, Cursor
  <2>5. Maps(mem, phys \ {f}, lvl, BootL4, page, f, mem', phys', l, ok)
    BY <2>3, <2>4, <1>5
  <2>6. short' = (short \/ \E g \in phys \ phys' : g < bump)
    BY <1>5
  <2>7. Memory' /\ MapsPage(page, f, ok)
    <3>1. phys \ {f} \subseteq phys /\ phys \subseteq (phys \ {f}) \cup {f}
      OBVIOUS
    <3> QED
      BY <1>1, <2>5, <2>6, <3>1, MapsKeepsMemory
  <2>8. f \notin {LapicFrame, TrampolineFrame}
    BY <1>2, <1>3
  <2> QED
    BY <2>4, <2>7, <2>8
<1> QED
  BY <1>6, <1>7

(* map_page_to_frame, of a fixed frame nothing leads to yet. *)
LEMMA MapToFrameStep ==
  ASSUME Memory, NEW page \in Page, page[1] # 1, ~ Mapped(page), NEW f \in {LapicFrame, TrampolineFrame}, ~ IsTarget(mem, f),
         NEW r, r = MapTo(mem, phys, "phys", BootL4, page, f), Uses(r),
         short \in BOOLEAN, UNCHANGED <<region, bump, spaces>>
  PROVE  Memory' /\ MapsPage(page, f, r.ok)
<1>1. PICK lvl : Rooted(lvl)
  BY DEF Memory
<1>2. /\ region \in RegionSizes /\ bump = BootstrapPages + 3 /\ phys \subseteq BootstrapPages .. region - 1 /\ BootL4 \in DOMAIN mem
      /\ DOMAIN mem \subseteq 0 .. region - 1 \cup {BootL4}
  BY DEF Memory, Framed
<1>3. /\ region \in Nat /\ region > BootstrapPages + 4 /\ region <= BootL4 /\ BootL4 \in Nat
      /\ BootstrapPages \in Nat /\ BootstrapPages >= 4 /\ LapicFrame = BootL4 + 1 /\ TrampolineFrame = BootL4 + 2
  BY <1>2, Frames
<1>4. lvl[BootL4] = 4 /\ Forest(mem, phys, lvl)
  BY <1>1 DEF Rooted
<1>5. Fresh(mem, phys, f)
  <2>1. f \notin DOMAIN mem /\ f \notin phys /\ f # None
    BY <1>2, <1>3 DEF None
  <2> QED
    BY <2>1 DEF Fresh, IsTarget
<1>6. Chooses("phys", phys)
  <2>1. phys \subseteq 0 .. region
    BY <1>2, <1>3
  <2> QED
    BY <2>1, <1>3, PhysChooses
<1>7. PICK n, left, u, l, ok :
         /\ MapTo(mem, phys, "phys", BootL4, page, f) = Cursor(n, left, u, f, ok)
         /\ Maps(mem, phys, lvl, BootL4, page, f, n, left, l, ok)
  BY <1>2, <1>4, <1>5, <1>6, MapToIs
<1>8. r.mem = n /\ r.avail = left /\ r.ok = ok
  BY <1>7 DEF Cursor
<1>9. mem' = n /\ phys' = left /\ short' = (short \/ \E g \in phys \ phys' : g < bump)
  BY <1>8 DEF Uses
<1>10. Maps(mem, phys, lvl, BootL4, page, f, mem', phys', l, ok) /\ phys \subseteq phys \cup {f}
  BY <1>7, <1>9
<1> QED
  BY <1>1, <1>8, <1>9, <1>10, MapsKeepsMemory

(* The constants, as the steps of the memory use them. *)
LEMMA Sizes ==
  ASSUME Memory
  PROVE  /\ region \in RegionSizes /\ region \in Nat /\ region > BootstrapPages + 4 /\ region <= BootL4 /\ BootL4 \in Nat
         /\ bump = BootstrapPages + 3 /\ BootstrapPages \in Nat /\ BootstrapPages >= 4
         /\ LapicFrame = BootL4 + 1 /\ TrampolineFrame = BootL4 + 2
         /\ phys \subseteq BootstrapPages .. region - 1 /\ BootL4 \in DOMAIN mem
         /\ DOMAIN mem \subseteq 0 .. region - 1 \cup {BootL4}
  BY Frames DEF Memory, Framed

(* A page that is mapped lies under a table of the last level, and has its *)
(* frame to itself unless it is one of the bootstrap heap's.               *)
LEMMA LeafIs ==
  ASSUME NEW m, NEW free, NEW lvl, Forest(m, free, lvl), NEW r \in DOMAIN m, lvl[r] = 4, NEW q, Walk(m, r, q) # None
  PROVE  /\ WalkToL1(m, r, q) \in DOMAIN m /\ lvl[WalkToL1(m, r, q)] = 1
         /\ q[4] \in DOMAIN m[WalkToL1(m, r, q)] /\ Walk(m, r, q) = m[WalkToL1(m, r, q)][q[4]]
<1> DEFINE a == Entry(m, r, q[1])
           b == Entry(m, a, q[2])
           c == Entry(m, b, q[3])
<1>1. OnTheWay(m, lvl, a, b, c, q)
  BY WayIs
<1>2. WalkToL1(m, r, q) = c /\ Walk(m, r, q) = Entry(m, c, q[4])
  BY DEF Walk, WalkToL1
<1>3. \A i : Entry(m, None, i) = None
  BY NoneHasNoEntry
<1> HIDE DEF a, b, c
<1>4. c # None /\ c \in DOMAIN m /\ lvl[c] = 1
  BY <1>1, <1>2, <1>3 DEF OnTheWay
<1> QED
  BY <1>2, <1>4 DEF Entry

(* The walk to a page of the heap comes to its table. *)
LEMMA HeapWay ==
  ASSUME HeapInPlace, BootL4 \in DOMAIN mem, NEW d
  PROVE  WalkToL1(mem, BootL4, HeapPage(d)) = HeapL1 /\ Walk(mem, BootL4, HeapPage(d)) = Entry(mem, HeapL1, d)
<1>1. Entry(mem, BootL4, 4) = 1 /\ Entry(mem, 1, 0) = 2 /\ Entry(mem, 2, 0) = 3
  BY DEF HeapInPlace, Entry
<1>2. HeapPage(d)[1] = 4 /\ HeapPage(d)[2] = 0 /\ HeapPage(d)[3] = 0 /\ HeapPage(d)[4] = d
  BY DEF HeapPage
<1> QED
  BY <1>1, <1>2 DEF Walk, WalkToL1, HeapL1

(* The heap and its tables hold the frames of the bump allocator. *)
LEMMA HeapFramesAreTargets ==
  ASSUME NEW m, BootL4 \in DOMAIN m, {1, 2, 3} \subseteq DOMAIN m,
         4 \in DOMAIN m[BootL4], m[BootL4][4] = 1,
         0 \in DOMAIN m[1], m[1][0] = 2, 0 \in DOMAIN m[2], m[2][0] = 3,
         \A i \in 0 .. BootstrapPages - 1 : i \in DOMAIN m[3] /\ m[3][i] = IF i = 0 THEN 0 ELSE i + 3,
         BootstrapPages \in Nat, BootstrapPages >= 4, NEW f \in 0 .. BootstrapPages + 2
  PROVE  IsTarget(m, f)
<1>1. CASE f = 0
  <2>1. 0 \in DOMAIN m[3] /\ m[3][0] = 0
    OBVIOUS
  <2> QED
    BY <1>1, <2>1 DEF IsTarget
<1>2. CASE f \in 1 .. 3
  <2>1. f = 1 \/ f = 2 \/ f = 3
    BY <1>2
  <2> QED
    BY <2>1 DEF IsTarget
<1>3. CASE f \in 4 .. BootstrapPages + 2
  <2>1. f - 3 \in 0 .. BootstrapPages - 1 /\ f - 3 # 0 /\ (f - 3) + 3 = f
    BY <1>3
  <2>2. 3 \in DOMAIN m /\ f - 3 \in DOMAIN m[3] /\ m[3][f - 3] = f
    BY <2>1
  <2> QED
    BY <2>2 DEF IsTarget
<1> QED
  BY <1>1, <1>2, <1>3

(* unmap_page, of the demand page. *)
LEMMA UnmapStep ==
  ASSUME Memory, AllHeld, Mapped(DemandPage), ~ IsTarget(mem, LapicFrame), ~ IsTarget(mem, TrampolineFrame),
         mem' = WithoutDemandPage, phys' = phys \cup {DemandFrame}, UNCHANGED <<region, bump, spaces, short>>
  PROVE  /\ Memory' /\ DemandFrame \notin phys /\ DemandFrame # None
         /\ Walk(mem', BootL4, DemandPage) = None
         /\ \A q \in Page : q # DemandPage => Walk(mem', BootL4, q) = Walk(mem, BootL4, q)
         /\ \A x : IsTarget(mem', x) => IsTarget(mem, x)
<1> DEFINE t == WalkToL1(mem, BootL4, DemandPage)
           f == DemandFrame
<1>0. /\ Framed /\ HeapInPlace /\ Kept
      /\ region' = region /\ bump' = bump /\ spaces' = spaces /\ short' = short
  BY DEF Memory
<1>1. PICK lvl : Rooted(lvl)
  BY DEF Memory
<1>2. /\ region \in RegionSizes /\ region \in Nat /\ region > BootstrapPages + 4 /\ region <= BootL4 /\ BootL4 \in Nat
      /\ bump = BootstrapPages + 3 /\ BootstrapPages \in Nat /\ BootstrapPages >= 4
      /\ LapicFrame = BootL4 + 1 /\ TrampolineFrame = BootL4 + 2
      /\ phys \subseteq BootstrapPages .. region - 1 /\ BootL4 \in DOMAIN mem
      /\ DOMAIN mem \subseteq 0 .. region - 1 \cup {BootL4}
  BY Sizes
<1>3. lvl[BootL4] = 4 /\ Forest(mem, phys, lvl)
  BY <1>1 DEF Rooted
<1>4. DemandPage \in Page /\ DemandPage[1] = 5 /\ DemandPage[4] = 0 /\ f = Walk(mem, BootL4, DemandPage) /\ f # None
  BY DEF DemandPage, Page, DemandFrame, Mapped
<1>5. t \in DOMAIN mem /\ lvl[t] = 1 /\ 0 \in DOMAIN mem[t] /\ f = mem[t][0]
  BY <1>2, <1>3, <1>4, LeafIs
<1>6. t # HeapL1
  <2>1. WalkToL1(mem, BootL4, HeapPage(0)) = HeapL1
    BY <1>0, <1>2, HeapWay
  <2>2. t # None
    BY <1>3, <1>5 DEF Forest
  <2>3. HeapPage(0)[1] = 4
    BY DEF HeapPage
  <2>4. ASSUME t = HeapL1 PROVE FALSE
    <3>1. WalkToL1(mem, BootL4, DemandPage) # None /\ WalkToL1(mem, BootL4, DemandPage) = WalkToL1(mem, BootL4, HeapPage(0))
      BY <2>1, <2>2, <2>4
    <3>2. DemandPage[1] = HeapPage(0)[1]
      BY <3>1, <1>2, <1>3, OneWay
    <3> QED
      BY <3>2, <2>3, <1>4
  <2> QED
    BY <2>4
<1>7. Cleared(mem', mem, t, 0)
  BY <1>4, <1>5, ClearEntryIs DEF WithoutDemandPage, LeafTable
<1>8. phys' = phys \cup {mem[t][0]} /\ ~ Exempt(t, 0)
  BY <1>5, <1>6 DEF Exempt
<1>a. t = WalkToL1(mem, BootL4, DemandPage)
  OBVIOUS
<1> HIDE DEF t, f
<1>9. Forest(mem', phys', lvl)
  BY <1>3, <1>5, <1>7, <1>8, ClearKeepsForest
<1>10. /\ Entry(mem', t, 0) = None
       /\ \A u : \A j : u # t \/ j # 0 => Entry(mem', u, j) = Entry(mem, u, j)
  BY <1>5, <1>7, ClearedEntry
<1>11. /\ Walk(mem', BootL4, DemandPage) = None
       /\ \A q \in Page : q # DemandPage => Walk(mem', BootL4, q) = Walk(mem, BootL4, q)
  <2>1. DOMAIN mem' = DOMAIN mem
    BY <1>7 DEF Cleared
  <2>2. \A u : \A j : u # t \/ j # DemandPage[4] => Entry(mem', u, j) = Entry(mem, u, j)
    BY <1>4, <1>10
  <2>3. /\ Walk(mem', BootL4, DemandPage) = Entry(mem', t, DemandPage[4])
        /\ \A s \in DOMAIN mem : lvl[s] = 4 => \A q \in Page :
             q # DemandPage \/ (s # BootL4 /\ DemandPage[1] = 1) => Walk(mem', s, q) = Walk(mem, s, q)
    BY <2>1, <2>2, <1>2, <1>3, <1>4, <1>5, <1>a, LeafWalks
  <2> QED
    BY <2>3, <1>2, <1>3, <1>4, <1>10
<1>12. /\ DOMAIN mem' = DOMAIN mem /\ DOMAIN mem'[t] = DOMAIN mem[t] \ {0}
       /\ \A j \in DOMAIN mem'[t] : mem'[t][j] = mem[t][j]
       /\ \A u \in DOMAIN mem : u # t => mem'[u] = mem[u]
  BY <1>7 DEF Cleared
<1>13. ASSUME NEW u \in DOMAIN mem', NEW j \in DOMAIN mem'[u]
       PROVE  u \in DOMAIN mem /\ j \in DOMAIN mem[u] /\ mem'[u][j] = mem[u][j]
  <2>1. CASE u = t
    BY <2>1, <1>12
  <2>2. CASE u # t
    BY <2>2, <1>12
  <2> QED
    BY <2>1, <2>2
<1>14. f \notin phys /\ f \in BootstrapPages .. region - 1
  <2>1. f \notin DOMAIN mem /\ f \notin phys
    BY <1>3, <1>5, <1>8 DEF Forest
  <2>2. f \in 0 .. region - 1 \cup {LapicFrame, TrampolineFrame} /\ (f \in 1 .. 3 \/ f >= BootstrapPages)
    BY <1>0, <1>5, <1>8 DEF Framed
  <2>3. f # LapicFrame /\ f # TrampolineFrame
    BY <1>5 DEF IsTarget
  <2>4. {1, 2, 3} \subseteq DOMAIN mem
    BY <1>0 DEF HeapInPlace
  <2>5. ~ (f \in 1 .. 3)
    BY <2>1, <2>4
  <2> QED
    BY <2>1, <2>2, <2>3, <2>5, <1>2
<1>15. Framed'
  <2>1. phys' \subseteq BootstrapPages .. region - 1
    BY <1>2, <1>5, <1>8, <1>14
  <2>2. \A u \in DOMAIN mem' : \A j \in DOMAIN mem'[u] :
          /\ mem'[u][j] \in 0 .. region - 1 \cup {LapicFrame, TrampolineFrame}
          /\ Exempt(u, j) \/ mem'[u][j] \in 1 .. 3 \/ mem'[u][j] >= BootstrapPages
    BY <1>0, <1>13 DEF Framed
  <2> QED
    BY <1>0, <1>2, <1>12, <2>1, <2>2 DEF Framed
<1>16. Rooted(lvl)'
  BY <1>0, <1>1, <1>9, <1>12 DEF Rooted
<1>17. HeapInPlace'
  <2>1. 1 # t /\ 2 # t /\ 3 # t /\ BootL4 # t
    <3>1. 1 \in DOMAIN mem /\ 2 \in DOMAIN mem /\ lvl[1] = 3
      BY <1>0, <1>2, <1>3 DEF HeapInPlace, Forest
    <3>2. lvl[2] = 2
      BY <1>0, <1>3, <3>1 DEF HeapInPlace, Forest
    <3> QED
      BY <3>1, <3>2, <1>3, <1>5, <1>6 DEF HeapL1
  <2> QED
    BY <2>1, <1>0, <1>2, <1>12 DEF HeapInPlace
<1>18. Kept'
  <2>1. AllHeld'
    <3> SUFFICES ASSUME NEW g \in 0 .. region - 1, g < bump \/ g \notin phys' PROVE IsTarget(mem', g) \/ g \in L4Tables'
      BY <1>0 DEF AllHeld, Held
    <3>1. CASE g < bump
      <4>1. g \in 0 .. BootstrapPages + 2 /\ BootL4 \in DOMAIN mem'
        BY <3>1, <1>2, <1>12
      <4> QED
        BY <4>1, <1>2, <1>17, HeapFramesAreTargets DEF HeapInPlace
    <3>2. CASE ~ (g < bump)
      <4>1. g # f /\ g \notin phys
        BY <3>2, <1>5, <1>8
      <4>2. CASE g \in L4Tables
        BY <4>2, <1>0 DEF L4Tables
      <4>3. CASE IsTarget(mem, g)
        <5>1. PICK u \in DOMAIN mem : \E j \in DOMAIN mem[u] : mem[u][j] = g
          BY <4>3 DEF IsTarget
        <5>2. PICK j \in DOMAIN mem[u] : mem[u][j] = g
          BY <5>1
        <5>3. u # t \/ j # 0
          BY <4>1, <5>2, <1>5
        <5>4. u \in DOMAIN mem' /\ j \in DOMAIN mem'[u] /\ mem'[u][j] = g
          <6>1. CASE u = t
            BY <6>1, <5>2, <5>3, <1>12
          <6>2. CASE u # t
            BY <6>2, <5>2, <1>12
          <6> QED
            BY <6>1, <6>2
        <5> QED
          BY <5>4 DEF IsTarget
      <4> QED
        BY <4>1, <4>2, <4>3 DEF AllHeld, Held
    <3> QED
      BY <3>1, <3>2
  <2>2. ~ short => BootstrapPages .. bump - 1 \subseteq phys'
    BY <1>0, <1>8 DEF Kept
  <2>3. \A g \in 0 .. region - 1 : g < bump \/ g \notin phys' => Held(g)' \/ g \in {0, 0}
    BY <2>1, <1>0 DEF AllHeld
  <2> QED
    BY <2>1, <2>2, <2>3, <1>0 DEF Kept
<1>19. \A x : IsTarget(mem', x) => IsTarget(mem, x)
  BY <1>13 DEF IsTarget
<1> QED
  BY <1>4, <1>11, <1>14, <1>15, <1>16, <1>17, <1>18, <1>19 DEF Memory, f

(* What building an address space for the owner does to the rest. *)
BuildsSpace(owner) ==
  /\ NewSpace.ok \in BOOLEAN /\ Extends(mem, mem')
  /\ \A q \in Page : Walk(mem', BootL4, q) = Walk(mem, BootL4, q)
  /\ \A x \in {LapicFrame, TrampolineFrame} : IsTarget(mem', x) => IsTarget(mem, x)
  /\ short => short'
  /\ ~ NewSpace.ok => short' /\ phys' = {} /\ spaces' = spaces
  /\ NewSpace.ok =>
       /\ spaces'[owner] # None /\ spaces'[owner] \in Int /\ spaces'[owner] \notin DOMAIN mem
       /\ Walk(mem', spaces'[owner], PrivatePage) = NewSpace.frame /\ NewSpace.frame # None
       /\ \A i \in DOMAIN mem[BootL4] : i \in DOMAIN mem'[spaces'[owner]] /\ mem'[spaces'[owner]][i] = mem[BootL4][i]

(* AddressSpace::new keeps the memory in order, whether it succeeds or not. *)
LEMMA BuildSpaceStep ==
  ASSUME Memory, cr3 = BootL4, NEW owner \in Spaces, spaces \in [Spaces -> Int], spaces[owner] = None, short \in BOOLEAN,
         Uses(NewSpace), spaces' = [spaces EXCEPT ![owner] = NewSpace.l4], UNCHANGED <<region, bump>>
  PROVE  Memory' /\ BuildsSpace(owner)
<1>0. /\ Framed /\ HeapInPlace /\ Kept /\ region' = region /\ bump' = bump
  BY DEF Memory
<1>1. PICK lvl : Rooted(lvl)
  BY DEF Memory
<1>2. /\ region \in RegionSizes /\ region \in Nat /\ region > BootstrapPages + 4 /\ region <= BootL4 /\ BootL4 \in Nat
      /\ bump = BootstrapPages + 3 /\ BootstrapPages \in Nat /\ BootstrapPages >= 4
      /\ LapicFrame = BootL4 + 1 /\ TrampolineFrame = BootL4 + 2
      /\ phys \subseteq BootstrapPages .. region - 1 /\ BootL4 \in DOMAIN mem
      /\ DOMAIN mem \subseteq 0 .. region - 1 \cup {BootL4}
  BY Sizes
<1>3. lvl[BootL4] = 4 /\ Forest(mem, phys, lvl)
  BY <1>1 DEF Rooted
<1>4. mem' = NewSpace.mem /\ phys' = NewSpace.avail /\ short' = (short \/ \E g \in phys \ phys' : g < bump)
  BY DEF Uses
<1>5. BootstrapPages \in BootstrapPages .. bump - 1
  BY <1>2
<1>6. CASE phys = {}
  <2>1. NewSpace = [mem |-> mem, avail |-> {}, frame |-> None, l4 |-> None, ok |-> FALSE]
    BY <1>6 DEF NewSpace, NewSpaceIn
  <2>2. mem' = mem /\ phys' = phys /\ NewSpace.ok = FALSE /\ spaces' = spaces /\ short' = short
    BY <2>1, <1>4, <1>6
  <2>3. short
    BY <1>5, <1>6, <1>0 DEF Kept
  <2>4. Framed' /\ HeapInPlace' /\ Kept'
    BY <1>0, <2>2, KeptStays DEF Framed, HeapInPlace
  <2>5. Rooted(lvl)'
    BY <1>1, <2>2 DEF Rooted
  <2>6. BuildsSpace(owner)
    BY <2>2, <2>3, <1>6 DEF BuildsSpace, Extends
  <2> QED
    BY <2>4, <2>5, <2>6 DEF Memory
<1>7. CASE phys # {}
  <2> DEFINE g == NewL4
             r == MapPageWith(Put(mem, NewL4, mem[BootL4]), phys \ {NewL4}, "phys", NewL4, PrivatePage)
  <2>1. NewSpace = [mem |-> r.mem, avail |-> r.avail, frame |-> r.frame, l4 |-> IF r.ok THEN NewL4 ELSE None, ok |-> r.ok]
    BY <1>7 DEF NewSpace, NewSpaceIn
  <2>2. Chooses("phys", phys)
    <3>1. phys \subseteq 0 .. region
      BY <1>2
    <3> QED
      BY <3>1, <1>2, PhysChooses
  <2>3. 1 \notin DOMAIN mem[BootL4]
    BY <1>0 DEF HeapInPlace
  <2>4. PICK n, left, l, f, ok :
           /\ r.mem = n /\ r.avail = left /\ r.frame = f /\ r.ok = ok
           /\ Builds(mem, phys, lvl, BootL4, g, n, left, l, f, ok)
    <3>1. g = AllocateFrame("phys", phys) /\ r = MapPageWith(Put(mem, g, mem[BootL4]), phys \ {g}, "phys", g, PrivatePage)
      BY DEF NewL4
    <3> HIDE DEF g, r
    <3> QED
      BY <3>1, <1>2, <1>3, <1>7, <2>2, <2>3, NewSpaceIs
  <2> HIDE DEF g, r
  <2>5. /\ mem' = n /\ phys' = left /\ NewSpace.ok = ok /\ NewSpace.frame = f
        /\ NewSpace.l4 = IF ok THEN g ELSE None
    BY <2>1, <2>4, <1>4 DEF g
  <2>6. Builds(mem, phys, lvl, BootL4, g, mem', phys', l, f, ok)
    BY <2>4, <2>5
  <2>7. /\ Forest(mem', phys', l) /\ ok \in BOOLEAN
        /\ g \in phys /\ phys' \subseteq phys \ {g} /\ DOMAIN mem' \subseteq DOMAIN mem \cup phys
        /\ g \in DOMAIN mem' /\ l[g] = 4
        /\ DOMAIN mem \subseteq DOMAIN mem' /\ \A t \in DOMAIN mem : l[t] = lvl[t]
        /\ Extends(mem, mem')
        /\ \A i \in DOMAIN mem[BootL4] : i \in DOMAIN mem'[g] /\ mem'[g][i] = mem[BootL4][i]
        /\ \A t \in DOMAIN mem' : \A i \in DOMAIN mem'[t] :
             \/ t \in DOMAIN mem /\ i \in DOMAIN mem[t]
             \/ t = g /\ i \in DOMAIN mem[BootL4]
             \/ mem'[t][i] \in phys \ phys'
        /\ \A t \in DOMAIN mem : lvl[t] = 4 => \A i \in DOMAIN mem'[t] : i \in DOMAIN mem[t]
        /\ \A h \in phys \ phys' : h = g \/ (~ ok /\ h = f) \/ IsTarget(mem', h)
        /\ ok => f \in phys /\ Walk(mem', g, PrivatePage) = f
        /\ ~ ok => phys' = {}
        /\ \A s \in DOMAIN mem : lvl[s] = 4 => \A q \in Page : Walk(mem', s, q) = Walk(mem, s, q)
    BY <2>6 DEF Builds, IsTarget
  <2>8. g \notin DOMAIN mem
    BY <2>7, <1>3 DEF Forest
  <2>9. g # None /\ g \in Int /\ (ok => f # None)
    BY <2>7, <1>2 DEF None
  <2>10. (ok => spaces'[owner] = g) /\ (\A s \in Spaces : s # owner => spaces'[s] = spaces[s])
    BY <2>5
  <2>11. ~ ok => spaces' = spaces
    BY <2>5
  <2>12. Rooted(l)'
    <3>1. ASSUME NEW s \in Spaces, spaces'[s] # None PROVE spaces'[s] \in DOMAIN mem' /\ l[spaces'[s]] = 4
      <4>1. CASE ok /\ s = owner
        BY <4>1, <2>7, <2>10
      <4>2. CASE ~ (ok /\ s = owner)
        <5>1. spaces'[s] = spaces[s]
          BY <4>2, <2>10, <2>11
        <5>2. spaces[s] \in DOMAIN mem /\ lvl[spaces[s]] = 4
          BY <5>1, <3>1, <1>1 DEF Rooted
        <5> QED
          BY <5>1, <5>2, <2>7
      <4> QED
        BY <4>1, <4>2
    <3>2. l[BootL4] = 4
      BY <1>2, <1>3, <2>7
    <3> QED
      BY <3>1, <3>2, <2>7 DEF Rooted
  <2>13. ASSUME NEW t \in DOMAIN mem', NEW i \in DOMAIN mem'[t]
         PROVE  \/ \E u \in DOMAIN mem : /\ i \in DOMAIN mem[u] /\ mem'[t][i] = mem[u][i] /\ (Exempt(u, i) => t = u)
                \/ mem'[t][i] \in phys
    <3>1. CASE t \in DOMAIN mem /\ i \in DOMAIN mem[t]
      BY <3>1, <2>7 DEF Extends
    <3>2. CASE t = g /\ i \in DOMAIN mem[BootL4]
      <4>1. ~ Exempt(BootL4, i)
        BY <1>2 DEF Exempt, HeapL1
      <4> QED
        BY <3>2, <4>1, <2>7, <1>2
    <3> QED
      BY <3>1, <3>2, <2>7
  <2>14. Framed'
    <3>1. phys' \subseteq BootstrapPages .. region - 1 /\ phys \subseteq 0 .. region - 1
      BY <1>2, <2>7
    <3>2. DOMAIN mem' \subseteq 0 .. region - 1 \cup {BootL4} /\ BootL4 \in DOMAIN mem'
      BY <1>2, <2>7, <3>1
    <3>3. ASSUME NEW t \in DOMAIN mem', NEW i \in DOMAIN mem'[t]
          PROVE  /\ mem'[t][i] \in 0 .. region - 1 \cup {LapicFrame, TrampolineFrame}
                 /\ Exempt(t, i) \/ mem'[t][i] \in 1 .. 3 \/ mem'[t][i] >= BootstrapPages
      <4>1. CASE mem'[t][i] \in phys
        <5>1. mem'[t][i] \in BootstrapPages .. region - 1
          BY <4>1, <1>2
        <5> QED
          BY <5>1, <1>2
      <4>2. CASE \E u \in DOMAIN mem : /\ i \in DOMAIN mem[u] /\ mem'[t][i] = mem[u][i] /\ (Exempt(u, i) => t = u)
        BY <4>2, <1>0 DEF Framed
      <4> QED
        BY <2>13, <4>1, <4>2
    <3> QED
      BY <1>0, <1>2, <3>1, <3>2, <3>3 DEF Framed
  <2>15. HeapInPlace'
    <3>1. 1 \notin DOMAIN mem'[BootL4]
      BY <2>3, <2>7, <1>2, <1>3
    <3>2. {1, 2, 3} \subseteq DOMAIN mem'
      BY <1>0, <2>7 DEF HeapInPlace
    <3>3. /\ 4 \in DOMAIN mem'[BootL4] /\ mem'[BootL4][4] = 1
          /\ 0 \in DOMAIN mem'[1] /\ mem'[1][0] = 2 /\ 0 \in DOMAIN mem'[2] /\ mem'[2][0] = 3
      BY <1>0, <2>7, <1>2 DEF HeapInPlace, Extends
    <3>4. \A i \in 0 .. BootstrapPages - 1 : i \in DOMAIN mem'[3] /\ mem'[3][i] = IF i = 0 THEN 0 ELSE i + 3
      BY <1>0, <2>7 DEF HeapInPlace, Extends
    <3> QED
      BY <3>1, <3>2, <3>3, <3>4 DEF HeapInPlace
  <2>16. ~ ok => short' /\ phys' = {}
    <3> SUFFICES ASSUME ~ ok, ~ short' PROVE FALSE
      BY <2>7
    <3>1. phys' = {} /\ ~ short
      BY <2>7, <1>4
    <3>2. BootstrapPages \in phys
      BY <1>0, <1>5, <3>1 DEF Kept
    <3>3. BootstrapPages \in phys \ phys' /\ BootstrapPages < bump
      BY <3>1, <3>2, <1>2
    <3>4. \E h \in phys \ phys' : h < bump
      BY <3>3
    <3> QED
      BY <3>4, <1>4, Zenon
  <2>17. Kept'
    <3>1. ASSUME NEW h, IsTarget(mem, h) PROVE IsTarget(mem', h)
      BY <3>1, <2>7 DEF IsTarget, Extends
    <3>2. L4Tables \subseteq L4Tables' /\ (ok => g \in L4Tables')
      <4>1. ok => owner \in Spaces /\ spaces'[owner] = g /\ g # None
        BY <2>9, <2>10
      <4>2. ok => g \in L4Tables'
        BY <4>1 DEF L4Tables
      <4>3. \A s \in Spaces : spaces[s] # None => spaces'[s] = spaces[s]
        BY <2>10
      <4>4. L4Tables \subseteq L4Tables'
        BY <4>3 DEF L4Tables
      <4> QED
        BY <4>2, <4>4
    <3>3. /\ \A h \in phys \ phys' : Held(h)' \/ h \in {f, g}
          /\ ok => \A h \in phys \ phys' : Held(h)'
      BY <2>7, <3>2 DEF Held
    <3>4. phys' = {} \/ \A h \in phys \ phys' : Held(h)'
      BY <3>3, <2>7
    <3>5. phys' \subseteq phys
      BY <2>7
    <3> QED
      BY <3>1, <3>2, <3>3, <3>4, <3>5, <1>0, <1>4, SpendingKeeps
  <2>18. ASSUME NEW x \in {LapicFrame, TrampolineFrame}, IsTarget(mem', x) PROVE IsTarget(mem, x)
    <3>1. PICK t \in DOMAIN mem' : \E i \in DOMAIN mem'[t] : mem'[t][i] = x
      BY <2>18 DEF IsTarget
    <3>2. PICK i \in DOMAIN mem'[t] : mem'[t][i] = x
      BY <3>1
    <3>3. x \notin phys
      BY <1>2
    <3> QED
      BY <2>13, <3>2, <3>3 DEF IsTarget
  <2>19. short => short'
    BY <1>4
  <2>20. \A q \in Page : Walk(mem', BootL4, q) = Walk(mem, BootL4, q)
    BY <2>7, <1>2, <1>3
  <2>21. BuildsSpace(owner)
    <3>1. ok => /\ spaces'[owner] # None /\ spaces'[owner] \in Int /\ spaces'[owner] \notin DOMAIN mem
                /\ Walk(mem', spaces'[owner], PrivatePage) = f /\ f # None
                /\ \A i \in DOMAIN mem[BootL4] : i \in DOMAIN mem'[spaces'[owner]] /\ mem'[spaces'[owner]][i] = mem[BootL4][i]
      BY <2>7, <2>8, <2>9, <2>10
    <3> QED
      BY <3>1, <2>5, <2>7, <2>11, <2>16, <2>18, <2>19, <2>20 DEF BuildsSpace
  <2> QED
    BY <2>12, <2>14, <2>15, <2>17, <2>21 DEF Memory
<1> QED
  BY <1>6, <1>7

----------------------------------------------------------------------------
(* The bootstrap. *)

(* The invariant holds at boot. *)
LEMMA InitBootstraps == Init => Bootstrapping
<1> SUFFICES ASSUME Init PROVE Bootstrapping
  OBVIOUS
<1>1. heap = 0 /\ bump = 0 /\ BootstrapPages \in Nat
  BY Frames DEF Init
<1>2. DOMAIN mem = {BootL4} /\ DOMAIN mem[BootL4] = {}
  BY DEF Init
<1>3. /\ step = "init_bootstrap" /\ region \in RegionSizes /\ phys = {}
      /\ cr3 = BootL4 /\ PAGE_FAULTS_DEMAND_PAGED = 0
      /\ spaces = [s \in Spaces |-> None] /\ stacks = [slots |-> 0, pages |-> 0] /\ running = "boot" /\ short = FALSE
  BY DEF Init
<1>4. DOMAIN tlb = {} /\ DOMAIN data = {} /\ DOMAIN checks = {}
  BY DEF Init
<1> QED
  BY <1>1, <1>2, <1>3, <1>4 DEF Bootstrapping

(* init_bootstrap maps one more page. *)
LEMMA InitBootstrapStep ==
  ASSUME Bootstrapping, InitBootstrap
  PROVE  Bootstrapping'
<1> DEFINE z == region - 1
           r == MapPageWith(mem, bump .. z, "bump", BootL4, HeapPage(heap))
<1>0. /\ heap < BootstrapPages /\ step = "init_bootstrap"
      /\ mem' = r.mem /\ bump' = region - Cardinality(r.avail)
      /\ r.ok => heap' = heap + 1 /\ tlb' = [p \in DOMAIN tlb \ {HeapPage(heap)} |-> tlb[p]] /\ step' = step
      /\ region' = region /\ phys' = phys /\ cr3' = cr3 /\ data' = data
      /\ PAGE_FAULTS_DEMAND_PAGED' = PAGE_FAULTS_DEMAND_PAGED /\ checks' = checks /\ spaces' = spaces
      /\ stacks' = stacks /\ running' = running /\ short' = short
  BY DEF InitBootstrap, Flush, Flushed
<1>2. /\ region \in Nat /\ region > BootstrapPages + 4 /\ region <= BootL4 /\ BootL4 \in Nat
      /\ BootstrapPages \in Nat /\ BootstrapPages >= 4 /\ heap \in Nat
  BY Frames DEF Bootstrapping
<1>a. z \in Nat /\ z = region - 1
  BY <1>2
<1> HIDE DEF z
<1>3. PICK n, a : /\ r.mem = n /\ r.avail = a .. z /\ r.ok /\ HeapTables(n, heap + 1)
                  /\ a = heap + 4 /\ a \in Nat /\ a <= region
  <2>1. CASE heap = 0
    <3>1. bump = 0 /\ DOMAIN mem = {BootL4} /\ DOMAIN mem[BootL4] = {}
      BY <2>1 DEF Bootstrapping
    <3>2. z > 7 /\ z < BootL4
      BY <1>2, <1>a
    <3>3. MapsFirstHeapPage(mem, z)
      BY <3>1, <3>2, <1>a, FirstHeapPage
    <3>4. PICK n, u : MapPageWith(mem, 0 .. z, "bump", BootL4, HeapPage(0)) = Cursor(n, 4 .. z, u, 0, TRUE) /\ HeapTables(n, 1)
      BY <3>3 DEF MapsFirstHeapPage
    <3>5. r.mem = n /\ r.avail = 4 .. z /\ r.ok
      BY <2>1, <3>1, <3>4 DEF Cursor
    <3>6. heap + 1 = 1 /\ heap + 4 = 4 /\ 4 <= region
      BY <2>1, <1>2
    <3> HIDE DEF r
    <3> QED
      BY <3>4, <3>5, <3>6
  <2>2. CASE heap > 0
    <3>1. bump = heap + 3 /\ HeapTables(mem, heap)
      BY <2>2, <1>2 DEF Bootstrapping
    <3>2. bump \in Nat /\ bump + 1 \in Nat /\ bump <= z /\ BootL4 > 8
      BY <1>0, <1>2, <1>a, <3>1
    <3>3. MapsNextHeapPage(mem, heap, bump, bump + 1, z)
      BY <1>2, <1>a, <2>2, <3>1, <3>2, NextHeapPage
    <3>4. PICK n, u : r = Cursor(n, bump + 1 .. z, u, bump, TRUE) /\ HeapTables(n, heap + 1)
      BY <3>3 DEF MapsNextHeapPage
    <3>5. r.mem = n /\ r.avail = bump + 1 .. z /\ r.ok
      BY <3>4 DEF Cursor
    <3>6. bump + 1 = heap + 4 /\ bump + 1 <= region
      BY <1>2, <1>a, <3>1, <3>2
    <3> HIDE DEF r
    <3> QED
      BY <3>2, <3>4, <3>5, <3>6
  <2> QED
    BY <1>2, <2>1, <2>2
<1> HIDE DEF r
<1>4. bump' = heap + 4
  <2>1. a \in Int /\ z \in Int
    BY <1>a, <1>3
  <2>2. Cardinality(a .. z) = IF a > z THEN 0 ELSE z - a + 1
    BY <2>1, FS_Interval
  <2>3. Cardinality(a .. z) = region - a
    BY <1>2, <1>a, <1>3, <2>2
  <2> QED
    BY <1>0, <1>2, <1>3, <2>3
<1>5. heap' = heap + 1 /\ step' = step /\ DOMAIN tlb' = {}
  BY <1>0, <1>3 DEF Bootstrapping
<1>6. heap' \in 0 .. BootstrapPages /\ heap' > 0 /\ bump' = heap' + 3
  BY <1>0, <1>2, <1>4, <1>5
<1>7. HeapTables(mem', heap')
  BY <1>0, <1>3, <1>5
<1> QED
  BY <1>0, <1>2, <1>5, <1>6, <1>7 DEF Bootstrapping

(* A page under an L4 entry that is absent is not mapped. *)
LEMMA NoEntryNoWalk ==
  ASSUME NEW m, None \notin DOMAIN m, NEW r, NEW q, Entry(m, r, q[1]) = None
  PROVE  Walk(m, r, q) = None
<1>1. \A i : Entry(m, None, i) = None
  BY DEF Entry
<1> QED
  BY <1>1 DEF Walk, WalkToL1

(* store_globals hands the rest of the region to PHYS: the second part of  *)
(* the invariant begins.                                                   *)
LEMMA StoreGlobalsStep ==
  ASSUME Bootstrapping, StoreGlobals
  PROVE  Running'
<1>1. /\ heap = BootstrapPages /\ phys' = BootstrapPages .. region - 1 /\ step' = "extend"
      /\ region' = region /\ bump' = bump /\ heap' = heap /\ mem' = mem /\ cr3' = cr3 /\ tlb' = tlb /\ data' = data
      /\ PAGE_FAULTS_DEMAND_PAGED' = PAGE_FAULTS_DEMAND_PAGED /\ checks' = checks /\ spaces' = spaces
      /\ stacks' = stacks /\ running' = running /\ short' = short
  BY DEF StoreGlobals
<1>2. /\ region \in RegionSizes /\ region \in Nat /\ region > BootstrapPages + 4 /\ region <= BootL4 /\ BootL4 \in Nat
      /\ BootstrapPages \in Nat /\ BootstrapPages >= 4 /\ RealPages \in Nat
      /\ LapicFrame = BootL4 + 1 /\ TrampolineFrame = BootL4 + 2 /\ MaxSlots \in Nat /\ StackPages \in Nat /\ StackPages > 0
  BY Frames DEF Bootstrapping
<1>3. HeapTables(mem', BootstrapPages) /\ bump' = BootstrapPages + 3
  BY <1>1, <1>2 DEF Bootstrapping
<1>4. /\ cr3' = BootL4 /\ DOMAIN tlb' = {} /\ PAGE_FAULTS_DEMAND_PAGED' = 0 /\ DOMAIN checks' = {}
      /\ spaces' = [s \in Spaces |-> None] /\ stacks' = [slots |-> 0, pages |-> 0] /\ running' = "boot" /\ short' = FALSE
  BY <1>1 DEF Bootstrapping
<1> DEFINE m == mem'
<1>5. /\ DOMAIN m = {BootL4, 1, 2, 3} /\ DOMAIN m[BootL4] = {4} /\ m[BootL4][4] = 1
      /\ DOMAIN m[1] = {0} /\ m[1][0] = 2 /\ DOMAIN m[2] = {0} /\ m[2][0] = 3
      /\ DOMAIN m[3] = 0 .. BootstrapPages - 1
      /\ \A i \in 0 .. BootstrapPages - 1 : m[3][i] = IF i = 0 THEN 0 ELSE i + 3
  BY <1>3 DEF HeapTables, HeapL1
<1>6. HeapInPlace'
  BY <1>2, <1>5 DEF HeapInPlace
<1>7. Framed'
  <2>1. ASSUME NEW t \in DOMAIN m, NEW i \in DOMAIN m[t]
        PROVE  /\ m[t][i] \in 0 .. region - 1
               /\ Exempt(t, i) \/ m[t][i] \in 1 .. 3
    <3>1. CASE t = 3
      BY <3>1, <1>2, <1>5 DEF Exempt, HeapL1
    <3>2. CASE t # 3
      BY <3>2, <1>2, <1>5
    <3> QED
      BY <3>1, <3>2
  <2>2. DOMAIN m \subseteq 0 .. region - 1 \cup {BootL4} /\ BootL4 \in DOMAIN m
    BY <1>2, <1>5
  <2> QED
    BY <1>1, <1>2, <1>3, <2>1, <2>2 DEF Framed
<1>8. \E lvl : Rooted(lvl)'
  <2>1. PICK lvl : Forest(m, BootstrapPages .. region - 1, lvl) /\ lvl[BootL4] = 4
    BY <1>2, <1>3, HeapForest
  <2>2. Rooted(lvl)'
    BY <1>1, <1>4, <2>1 DEF Rooted
  <2> QED
    BY <2>2
<1>9. Kept'
  <2>1. BootstrapPages .. bump' - 1 \subseteq phys'
    BY <1>1, <1>2, <1>3
  <2>2. ASSUME NEW f \in 0 .. region - 1, f < bump' \/ f \notin phys' PROVE IsTarget(m, f)
    <3>1. f \in 0 .. BootstrapPages + 2
      BY <1>1, <1>2, <1>3, <2>2
    <3> QED
      BY <3>1, <1>2, <1>5, HeapFramesAreTargets
  <2> QED
    BY <1>1, <2>1, <2>2 DEF Kept, AllHeld, Held
<1>10. Memory'
  BY <1>6, <1>7, <1>8, <1>9 DEF Memory
<1>11. ASSUME NEW q, q[1] # 4 PROVE Walk(m, BootL4, q) = None
  <2>1. Entry(m, BootL4, q[1]) = None
    BY <1>5, <1>11 DEF Entry
  <2>2. None \notin DOMAIN m
    BY <1>2, <1>5 DEF None
  <2> QED
    BY <2>1, <2>2, NoEntryNoWalk
<1>12. HeapPart'
  <2>1. ASSUME NEW d \in Nat PROVE (Walk(m, BootL4, HeapPage(d)) # None) <=> d < BootstrapPages
    <3>1. Entry(m, BootL4, 4) = 1 /\ Entry(m, 1, 0) = 2 /\ Entry(m, 2, 0) = 3
      BY <1>5 DEF Entry
    <3>2. HeapPage(d)[1] = 4 /\ HeapPage(d)[2] = 0 /\ HeapPage(d)[3] = 0 /\ HeapPage(d)[4] = d
      BY DEF HeapPage
    <3>3. Walk(m, BootL4, HeapPage(d)) = Entry(m, 3, d)
      BY <3>1, <3>2 DEF Walk, WalkToL1
    <3>4. CASE d < BootstrapPages
      <4>1. d \in 0 .. BootstrapPages - 1
        BY <3>4, <1>2
      <4> QED
        BY <3>3, <3>4, <4>1, <1>5 DEF Entry, None
    <3>5. CASE ~ (d < BootstrapPages)
      <4>1. d \notin 0 .. BootstrapPages - 1
        BY <3>5, <1>2
      <4> QED
        BY <3>3, <3>5, <4>1, <1>5 DEF Entry
    <3> QED
      BY <3>4, <3>5
  <2> QED
    BY <2>1, <1>1, <1>2 DEF HeapPart, Mapped
<1>13. StackPart'
  <2>1. \A k \in Nat : Walk(m, BootL4, <<3, 0, 0, k>>) = None
    BY <1>11
  <2>2. stacks'.slots = 0 /\ stacks'.pages = 0 /\ stacks' \in [slots : 0 .. MaxSlots, pages : 0 .. StackPages - 1]
    BY <1>2, <1>4
  <2> QED
    BY <2>1, <2>2, <1>2 DEF StackPart, Mapped
<1>14. DemandPart'
  <2>1. Walk(m, BootL4, DemandPage) = None
    BY <1>11 DEF DemandPage
  <2> QED
    BY <2>1, <1>1, <1>4 DEF DemandPart, Mapped, BeforeTouch
<1>15. FixedPart'
  <2>1. /\ Walk(m, BootL4, <<6, 0, 0, 0>>) = None /\ Walk(m, BootL4, <<7, 0, 0, 0>>) = None
        /\ Walk(m, BootL4, <<2, 0, 0, 0>>) = None /\ Walk(m, BootL4, <<0, 0, 0, 0>>) = None
    BY <1>11
  <2>2. ASSUME NEW t \in DOMAIN m, NEW i \in DOMAIN m[t] PROVE m[t][i] \in 0 .. region - 1
    <3>1. CASE t = 3
      BY <3>1, <1>2, <1>5
    <3>2. CASE t # 3
      BY <3>2, <1>2, <1>5
    <3> QED
      BY <3>1, <3>2
  <2>3. ~ IsTarget(m, LapicFrame) /\ ~ IsTarget(m, TrampolineFrame)
    BY <2>2, <1>2 DEF IsTarget
  <2> QED
    BY <2>1, <2>3, <1>1 DEF FixedPart, Mapped
<1>16. SpacesPart' /\ PrivatePart' /\ SharedPart'
  <2>1. spaces' \in [Spaces -> Int] /\ spaces'["demo"] = None /\ spaces'["task_e"] = None /\ \A s \in Spaces : spaces'[s] = None
    BY <1>4 DEF Spaces, None
  <2>2. step' = "extend" /\ stacks'.slots = 0 /\ "extend" \notin DemoSteps
    BY <1>1, <1>4 DEF DemoSteps
  <2> QED
    BY <2>1, <2>2 DEF SpacesPart, PrivatePart, SharedPart
<1>17. CorePart' /\ TlbPart' /\ ResultsPart'
  <2>1. running' \in Tasks'
    BY <1>4 DEF Tasks
  <2> QED
    BY <2>1, <1>1, <1>4 DEF CorePart, TlbPart, ResultsPart, DesiredL4Frame
<1>18. step' \in Steps
  BY <1>1 DEF Steps, BeforeInit, BeforeSpaces, BeforeTouch
<1> QED
  BY <1>10, <1>12, <1>13, <1>14, <1>15, <1>16, <1>17, <1>18 DEF Running, Pages

----------------------------------------------------------------------------
(* What stays when a call touches something else. *)

(* The walks from the boot table under its entry i stay. *)
Keeps(i) == \A q \in Page : q[1] = i => Walk(mem', BootL4, q) = Walk(mem, BootL4, q)

(* The fixed pages lie under L4 entries of their own. *)
LEMMA PagesAre ==
  /\ \A d \in Nat : HeapPage(d) \in Page /\ HeapPage(d)[1] = 4 /\ <<3, 0, 0, d>> \in Page /\ <<3, 0, 0, d>>[1] = 3
  /\ DemandPage \in Page /\ DemandPage[1] = 5 /\ PrivatePage \in Page /\ PrivatePage[1] = 1
  /\ <<6, 0, 0, 0>> \in Page /\ <<6, 0, 0, 0>>[1] = 6 /\ <<7, 0, 0, 0>> \in Page /\ <<7, 0, 0, 0>>[1] = 7
  /\ <<2, 0, 0, 0>> \in Page /\ <<2, 0, 0, 0>>[1] = 2 /\ <<0, 0, 0, 0>> \in Page /\ <<0, 0, 0, 0>>[1] = 0
  BY DEF Page, HeapPage, DemandPage, PrivatePage

(* The page of a task's stack is the one its slot and index make it. *)
LEMMA StackIndex ==
  ASSUME NEW slot \in Nat, NEW i \in Nat
  PROVE  /\ slot * (StackPages + 1) + 1 + i \in Nat
         /\ StackPage(slot, i) = <<3, 0, 0, slot * (StackPages + 1) + 1 + i>>
         /\ StackPage(slot, i) \in Page /\ StackPage(slot, i)[1] = 3
<1>1. StackPages \in Nat
  BY Frames
<1>2. slot * (StackPages + 1) \in Nat
  BY <1>1
<1> DEFINE k == slot * (StackPages + 1) + 1 + i
<1>3. k \in Nat
  BY <1>2
<1>4. StackPage(slot, i) = <<3, 0, 0, k>>
  BY DEF StackPage
<1> HIDE DEF k
<1>5. <<3, 0, 0, k>> \in Page /\ <<3, 0, 0, k>>[1] = 3
  BY <1>3 DEF Page
<1> QED
  BY <1>3, <1>4, <1>5 DEF k

(* The heap stays when the walks under its entry do. *)
LEMMA HeapKept ==
  ASSUME HeapPart, Keeps(4), heap' = heap,
         step' \notin {"extend", "panic"} => step \notin {"extend", "panic"} \/ heap = BootstrapPages + RealPages
  PROVE  HeapPart'
<1>1. \A d \in Nat : Mapped(HeapPage(d))' <=> Mapped(HeapPage(d))
  BY PagesAre DEF Keeps, Mapped
<1> QED
  BY <1>1 DEF HeapPart

(* The stacks stay when the walks under their entry do. *)
LEMMA StackKept ==
  ASSUME StackPart, Keeps(3), stacks' = stacks, step' \in BeforeInit => step \in BeforeInit
  PROVE  StackPart'
<1>1. \A k \in Nat : Mapped(<<3, 0, 0, k>>)' <=> Mapped(<<3, 0, 0, k>>)
  BY PagesAre DEF Keeps, Mapped
<1>2. stacks.slots \in Nat /\ stacks.pages \in Nat
  BY DEF StackPart
<1>3. ASSUME NEW slot \in Nat, NEW i \in Nat PROVE Mapped(StackPage(slot, i))' <=> Mapped(StackPage(slot, i))
  BY <1>1, StackIndex DEF Mapped
<1>4. \A slot \in 0 .. stacks.slots - 1 : \A i \in 0 .. StackPages - 1 : Mapped(StackPage(slot, i))'
  <2> SUFFICES ASSUME NEW slot \in 0 .. stacks.slots - 1, NEW i \in 0 .. StackPages - 1 PROVE Mapped(StackPage(slot, i))'
    OBVIOUS
  <2>1. slot \in Nat /\ i \in Nat /\ Mapped(StackPage(slot, i))
    BY DEF StackPart
  <2> QED
    BY <2>1, <1>3
<1>5. \A i \in 0 .. stacks.pages - 1 : Mapped(StackPage(stacks.slots, i))'
  <2> SUFFICES ASSUME NEW i \in 0 .. stacks.pages - 1 PROVE Mapped(StackPage(stacks.slots, i))'
    OBVIOUS
  <2>1. i \in Nat /\ Mapped(StackPage(stacks.slots, i))
    BY DEF StackPart
  <2> QED
    BY <2>1, <1>2, <1>3
<1>6. \A k \in Nat : k >= stacks.slots * (StackPages + 1) + 1 + stacks.pages => ~ Mapped(<<3, 0, 0, k>>)'
  BY <1>1 DEF StackPart
<1>7. stacks' \in [slots : 0 .. MaxSlots, pages : 0 .. StackPages - 1] /\ (step' \in BeforeInit => stacks'.slots = 0 /\ stacks'.pages = 0)
  BY DEF StackPart
<1>8. \A slot \in 0 .. stacks'.slots - 1 : \A i \in 0 .. StackPages - 1 : Mapped(StackPage(slot, i))'
  BY <1>4
<1>9. \A i \in 0 .. stacks'.pages - 1 : Walk(mem', BootL4, StackPage(stacks'.slots, i)) # None
  BY <1>5 DEF Mapped
<1>10. \A k \in Nat : k >= stacks'.slots * (StackPages + 1) + 1 + stacks'.pages => ~ Mapped(<<3, 0, 0, k>>)'
  BY <1>6
<1> QED
  BY <1>7, <1>8, <1>9, <1>10 DEF StackPart, Mapped

(* The demand page stays mapped, or unmapped, when the walks under its     *)
(* entry do.                                                               *)
LEMMA DemandKept ==
  ASSUME Keeps(5)
  PROVE  Mapped(DemandPage)' <=> Mapped(DemandPage)
  BY PagesAre DEF Keeps, Mapped

(* The user pages and those of smp.rs stay when the walks under their      *)
(* entries do.                                                             *)
LEMMA FixedKept ==
  ASSUME FixedPart, Keeps(6), Keeps(7), Keeps(2), Keeps(0),
         \A x \in {LapicFrame, TrampolineFrame} : IsTarget(mem', x) => IsTarget(mem, x),
         step' \in BeforeInit \ {"map_user_stack"} => step \in BeforeInit \ {"map_user_stack"},
         step' \in BeforeInit => step \in BeforeInit,
         step' \notin SmpSteps \ {"map_lapic"} => step \notin SmpSteps \ {"map_lapic"},
         step' \notin {"send_ipi", "done"} => step \notin {"send_ipi", "done"},
         step' \notin {"map_trampoline", "send_ipi"}
  PROVE  FixedPart'
<1>1. /\ Walk(mem', BootL4, <<6, 0, 0, 0>>) = Walk(mem, BootL4, <<6, 0, 0, 0>>)
      /\ Walk(mem', BootL4, <<7, 0, 0, 0>>) = Walk(mem, BootL4, <<7, 0, 0, 0>>)
      /\ Walk(mem', BootL4, <<2, 0, 0, 0>>) = Walk(mem, BootL4, <<2, 0, 0, 0>>)
      /\ Walk(mem', BootL4, <<0, 0, 0, 0>>) = Walk(mem, BootL4, <<0, 0, 0, 0>>)
  BY PagesAre DEF Keeps
<1> QED
  BY <1>1 DEF FixedPart, Mapped

(* A walk that succeeds goes on to. *)
LEMMA ExtendsWalk ==
  ASSUME NEW m, None \notin DOMAIN m, NEW n, Extends(m, n), NEW r, NEW q, Walk(m, r, q) # None
  PROVE  Walk(n, r, q) = Walk(m, r, q)
<1> DEFINE a == Entry(m, r, q[1])
           b == Entry(m, a, q[2])
           c == Entry(m, b, q[3])
<1>1. \A i : Entry(m, None, i) = None
  BY DEF Entry
<1>2. Walk(m, r, q) = Entry(m, c, q[4]) /\ a = Entry(m, r, q[1]) /\ b = Entry(m, a, q[2]) /\ c = Entry(m, b, q[3])
  BY DEF Walk, WalkToL1
<1> HIDE DEF a, b, c
<1>3. c # None /\ b # None /\ a # None
  BY <1>1, <1>2
<1>4. Entry(n, r, q[1]) = a /\ Entry(n, a, q[2]) = b /\ Entry(n, b, q[3]) = c /\ Entry(n, c, q[4]) = Entry(m, c, q[4])
  BY <1>2, <1>3, ExtendsEntry
<1> QED
  BY <1>2, <1>4 DEF Walk, WalkToL1

(* The private values stay where tables only grow. *)
LEMMA PrivateKept ==
  ASSUME PrivatePart, None \notin DOMAIN mem, Extends(mem, mem'), spaces' = spaces, data' = data
  PROVE  PrivatePart'
<1>1. ASSUME NEW s \in Spaces, spaces[s] # None PROVE Walk(mem', spaces[s], PrivatePage) = Walk(mem, spaces[s], PrivatePage)
  <2>1. Walk(mem, spaces[s], PrivatePage) # None
    BY <1>1 DEF PrivatePart
  <2> QED
    BY <2>1, ExtendsWalk
<1> QED
  BY <1>1 DEF PrivatePart

(* task_e's tables go on sharing the kernel's where tables only grow. *)
LEMMA SharedKept ==
  ASSUME SharedPart, Memory, Extends(mem, mem'), spaces' = spaces
  PROVE  SharedPart'
<1>1. PICK lvl : Rooted(lvl)
  BY DEF Memory
<1>2. BootL4 \in DOMAIN mem /\ \A s \in Spaces : spaces[s] # None => spaces[s] \in DOMAIN mem
  BY <1>1 DEF Memory, Framed, Rooted
<1> QED
  BY <1>2 DEF SharedPart, Extends, Spaces

(* The TLB stays right where tables only grow. *)
LEMMA TlbKept ==
  ASSUME TlbPart, None \notin DOMAIN mem, Extends(mem, mem'), cr3' = cr3, NEW page, tlb' \in {tlb, Flushed(page)},
         step' \in BeforeTouch \cup {"first_touch", "unmap"} => step \in BeforeTouch \cup {"first_touch", "unmap"}
  PROVE  TlbPart'
<1>1. DOMAIN tlb' \subseteq DOMAIN tlb /\ \A q \in DOMAIN tlb' : tlb'[q] = tlb[q]
  <2>1. DOMAIN Flushed(page) \subseteq DOMAIN tlb /\ \A q \in DOMAIN Flushed(page) : Flushed(page)[q] = tlb[q]
    BY DEF Flushed
  <2> QED
    BY <2>1
<1>2. ASSUME NEW q \in DOMAIN tlb' PROVE tlb'[q] # None /\ tlb'[q] = Walk(mem', cr3, q)
  <2>1. tlb'[q] = tlb[q] /\ tlb[q] # None /\ tlb[q] = Walk(mem, cr3, q)
    BY <1>1 DEF TlbPart
  <2> QED
    BY <2>1, ExtendsWalk
<1>3. step' \in BeforeTouch \cup {"first_touch", "unmap"} => DOMAIN tlb' \subseteq {DemandPage}
  BY <1>1 DEF TlbPart
<1> QED
  BY <1>2, <1>3 DEF TlbPart

(* No table is at None, and tables extend themselves. *)
LEMMA NoneIsNoTable ==
  ASSUME Memory
  PROVE  None \notin DOMAIN mem /\ Extends(mem, mem)
  BY DEF Memory, Rooted, Forest, Extends

(* What the processor translates is what a walk finds. *)
LEMMA TranslateIs ==
  ASSUME TlbPart, NEW q
  PROVE  Translate(q) = Walk(mem, cr3, q)
  BY DEF TlbPart, Translate

(* A result that is recorded. *)
LEMMA RecordKeeps ==
  ASSUME NEW name, NEW ok \in BOOLEAN, Record(name, ok), \A n \in DOMAIN checks : checks[n] \in BOOLEAN
  PROVE  /\ \A n \in DOMAIN checks' : checks'[n] \in BOOLEAN
         /\ ok /\ (\A n \in DOMAIN checks : checks[n]) => \A n \in DOMAIN checks' : checks'[n]
<1> DEFINE v == ok /\ (name \in DOMAIN checks => checks[name])
<1>1. v \in BOOLEAN
  OBVIOUS
<1>2. checks' = Put(checks, name, v)
  BY DEF Record
<1>4. ok /\ (\A n \in DOMAIN checks : checks[n]) => v
  OBVIOUS
<1> HIDE DEF v
<1>3. DOMAIN checks' = DOMAIN checks \cup {name} /\ checks'[name] = v /\ \A n \in DOMAIN checks : n # name => checks'[n] = checks[n]
  <2>1. \A w : DOMAIN Put(checks, name, w) = DOMAIN checks \cup {name} /\ Put(checks, name, w)[name] = w
    BY DEF Put
  <2>2. \A w : \A n \in DOMAIN checks : n # name => Put(checks, name, w)[n] = checks[n]
    BY DEF Put
  <2> QED
    BY <1>2, <2>1, <2>2, Zenon
<1> QED
  BY <1>1, <1>3, <1>4

(* The memory stays when its variables do. *)
LEMMA MemoryKept ==
  ASSUME Memory, UNCHANGED <<region, bump, phys, mem, spaces, short>>
  PROVE  Memory' /\ (\A i : Keeps(i)) /\ Extends(mem, mem') /\ \A x : IsTarget(mem', x) => IsTarget(mem, x)
<1>1. PICK lvl : Rooted(lvl)
  BY DEF Memory
<1>2. region' = region /\ bump' = bump /\ phys' = phys /\ mem' = mem /\ spaces' = spaces /\ short' = short
  OBVIOUS
<1>3. Rooted(lvl)'
  BY <1>1, <1>2 DEF Rooted
<1>4. Framed' /\ HeapInPlace' /\ Kept'
  BY <1>2, KeptStays DEF Memory, Framed, HeapInPlace
<1> QED
  BY <1>2, <1>3, <1>4 DEF Memory, Keeps, Extends

----------------------------------------------------------------------------
(* The steps of kernel_main, one lemma each. *)

(* kernel_main never goes back. *)
Onward ==
  /\ step' \in Steps
  /\ step' \in BeforeTouch \cup {"first_touch", "unmap"} => step \in BeforeTouch \cup {"first_touch", "unmap"}
  /\ step' \in BeforeSpaces => step \in BeforeSpaces
  /\ step' \in BeforeInit => step \in BeforeInit
  /\ step' \in BeforeInit \ {"map_user_stack"} => step \in BeforeInit \ {"map_user_stack"}
  /\ step' \notin SmpSteps \ {"map_lapic"} => step \notin SmpSteps \ {"map_lapic"}
  /\ step' \notin {"send_ipi", "done"} => step \notin {"send_ipi", "done"}

(* The address spaces stay. *)
LEMMA SpacesKept ==
  ASSUME SpacesPart, spaces' = spaces, stacks' = stacks, phys = {} => phys' = {}, Onward,
         step' \in DemoSteps => step \in DemoSteps, step' = "run" => step = "run"
  PROVE  SpacesPart'
  BY DEF SpacesPart, Onward

(* Who runs, and on which tables, stays. *)
LEMMA CoreKept ==
  ASSUME CorePart, UNCHANGED <<spaces, cr3, running>>, running \in Tasks',
         step' \notin {"run", "panic"} => step \notin {"run", "panic"},
         step' \in {"read_private", "restore"} <=> step \in {"read_private", "restore"}
  PROVE  CorePart'
  BY DEF CorePart, DesiredL4Frame

(* Mapping a page through the boot table leaves everything else. *)
LEMMA MappingStep ==
  ASSUME Running, NEW page \in Page, NEW f, NEW ok, MapsPage(page, f, ok), Onward,
         UNCHANGED <<spaces, data, cr3>>, tlb' \in {tlb, Flushed(page)}
  PROVE  /\ PrivatePart' /\ SharedPart' /\ TlbPart'
         /\ \A i : i # page[1] \/ ~ ok => Keeps(i)
         /\ f \notin {LapicFrame, TrampolineFrame} \/ ~ ok =>
              \A x \in {LapicFrame, TrampolineFrame} : IsTarget(mem', x) => IsTarget(mem, x)
<1>1. Memory /\ PrivatePart /\ SharedPart /\ TlbPart
  BY DEF Running
<1>2. None \notin DOMAIN mem
  BY <1>1, NoneIsNoTable
<1>3. Extends(mem, mem') /\ spaces' = spaces /\ data' = data /\ cr3' = cr3
  BY DEF MapsPage
<1>4. PrivatePart'
  BY <1>1, <1>2, <1>3, PrivateKept
<1>5. SharedPart'
  BY <1>1, <1>3, SharedKept
<1>6. TlbPart'
  BY <1>1, <1>2, <1>3, TlbKept DEF Onward
<1>7. \A i : i # page[1] \/ ~ ok => Keeps(i)
  BY DEF MapsPage, Keeps
<1>8. f \notin {LapicFrame, TrampolineFrame} \/ ~ ok =>
              \A x \in {LapicFrame, TrampolineFrame} : IsTarget(mem', x) => IsTarget(mem, x)
  BY DEF MapsPage
<1> QED
  BY <1>4, <1>5, <1>6, <1>7, <1>8

(* extend_with_real_pages maps one more page of the heap, or panics. *)
LEMMA ExtendStep ==
  ASSUME Running, ExtendWithRealPages
  PROVE  Running'
<1> DEFINE r == MapPage(HeapPage(heap))
<1>1. /\ step = "extend" /\ heap < BootstrapPages + RealPages /\ Uses(r)
      /\ \/ r.ok /\ heap' = heap + 1 /\ tlb' = Flushed(HeapPage(heap)) /\ step' = step
         \/ ~ r.ok /\ step' = "panic" /\ heap' = heap /\ tlb' = tlb
      /\ region' = region /\ bump' = bump /\ cr3' = cr3 /\ data' = data /\ spaces' = spaces /\ stacks' = stacks
      /\ PAGE_FAULTS_DEMAND_PAGED' = PAGE_FAULTS_DEMAND_PAGED /\ checks' = checks /\ running' = running
  BY DEF ExtendWithRealPages, Flush
<1>2. /\ Memory /\ HeapPart /\ StackPart /\ DemandPart /\ FixedPart /\ SpacesPart /\ CorePart /\ ResultsPart
  BY DEF Running, Pages
<1>3. heap \in Nat /\ BootstrapPages \in Nat /\ RealPages \in Nat /\ ~ Mapped(HeapPage(heap))
  BY <1>2, Frames DEF HeapPart
<1>4. HeapPage(heap) \in Page /\ HeapPage(heap)[1] = 4
  BY <1>3, PagesAre
<1> HIDE DEF r
<1>5. Memory' /\ \E f : f \notin {LapicFrame, TrampolineFrame} /\ MapsPage(HeapPage(heap), f, r.ok)
  BY <1>1, <1>2, <1>3, <1>4, MapPageStep DEF ResultsPart, r
<1>6. PICK f : f \notin {LapicFrame, TrampolineFrame} /\ MapsPage(HeapPage(heap), f, r.ok)
  BY <1>5
<1>7. Onward
  BY <1>1 DEF Onward, Steps, BeforeInit, BeforeSpaces, BeforeTouch, SmpSteps, DemoSteps
<1>8. /\ PrivatePart' /\ SharedPart' /\ TlbPart'
      /\ \A i : i # 4 \/ ~ r.ok => Keeps(i)
      /\ \A x \in {LapicFrame, TrampolineFrame} : IsTarget(mem', x) => IsTarget(mem, x)
  BY <1>1, <1>4, <1>6, <1>7, MappingStep
<1>9. HeapPart'
  <2>1. CASE r.ok
    <3>1. ASSUME NEW d \in Nat PROVE Mapped(HeapPage(d))' <=> d < heap + 1
      <4>1. CASE d = heap
        BY <4>1, <2>1, <1>3, <1>6 DEF MapsPage, Mapped
      <4>2. CASE d # heap
        <5>1. HeapPage(d) \in Page /\ HeapPage(d) # HeapPage(heap)
          BY <4>2, PagesAre DEF HeapPage
        <5>2. Walk(mem', BootL4, HeapPage(d)) = Walk(mem, BootL4, HeapPage(d))
          BY <5>1, <1>6 DEF MapsPage
        <5>3. Mapped(HeapPage(d)) <=> d < heap
          BY <1>2 DEF HeapPart
        <5> QED
          BY <5>2, <5>3, <4>2, <1>3 DEF Mapped
      <4> QED
        BY <4>1, <4>2
    <3> QED
      BY <3>1, <2>1, <1>1, <1>2, <1>3 DEF HeapPart
  <2>2. CASE ~ r.ok
    BY <2>2, <1>1, <1>2, <1>8, HeapKept
  <2> QED
    BY <2>1, <2>2
<1>10. StackPart'
  BY <1>1, <1>2, <1>7, <1>8, StackKept DEF Onward
<1>11. DemandPart'
  <2>1. Mapped(DemandPage)' <=> Mapped(DemandPage)
    BY <1>8, DemandKept
  <2> QED
    BY <2>1, <1>1, <1>2 DEF DemandPart, BeforeTouch
<1>12. FixedPart'
  BY <1>1, <1>2, <1>7, <1>8, FixedKept DEF Onward
<1>13. SpacesPart'
  BY <1>1, <1>2, <1>6, <1>7, SpacesKept DEF MapsPage, DemoSteps
<1>14. CorePart'
  <2>1. running \in Tasks'
    BY <1>1, <1>2 DEF CorePart, Tasks
  <2> QED
    BY <2>1, <1>1, <1>2, CoreKept
<1>15. ResultsPart'
  BY <1>1, <1>2, <1>6 DEF ResultsPart, MapsPage, Uses
<1> QED
  BY <1>5, <1>7, <1>8, <1>9, <1>10, <1>11, <1>12, <1>13, <1>14, <1>15 DEF Running, Pages, Onward

(* Steps that leave the tables and PHYS alone leave the pages alone. *)
LEMMA StillStep ==
  ASSUME Running, UNCHANGED <<region, bump, heap, phys, mem, spaces, stacks, short>>, Onward,
         step' \notin {"extend", "panic"} => step \notin {"extend", "panic"} \/ heap = BootstrapPages + RealPages,
         step' \notin {"map_trampoline", "send_ipi"}
  PROVE  /\ Memory' /\ HeapPart' /\ StackPart' /\ FixedPart' /\ SharedPart'
         /\ Mapped(DemandPage)' <=> Mapped(DemandPage)
<1>1. /\ Memory /\ HeapPart /\ StackPart /\ FixedPart /\ SharedPart
  BY DEF Running, Pages
<1>2. heap' = heap /\ stacks' = stacks /\ spaces' = spaces
  OBVIOUS
<1>3. Memory' /\ (\A i : Keeps(i)) /\ Extends(mem, mem') /\ \A x : IsTarget(mem', x) => IsTarget(mem, x)
  BY <1>1, MemoryKept
<1>4. HeapPart'
  BY <1>1, <1>2, <1>3, HeapKept
<1>5. StackPart'
  BY <1>1, <1>2, <1>3, StackKept DEF Onward
<1>6. FixedPart'
  BY <1>1, <1>2, <1>3, FixedKept DEF Onward
<1>7. SharedPart'
  BY <1>1, <1>2, <1>3, SharedKept
<1>8. Mapped(DemandPage)' <=> Mapped(DemandPage)
  BY <1>3, DemandKept
<1> QED
  BY <1>3, <1>4, <1>5, <1>6, <1>7, <1>8

(* The value of a space's page stays when the data does. *)
LEMMA StillPrivate ==
  ASSUME Running, mem' = mem, spaces' = spaces, data' = data
  PROVE  PrivatePart'
  BY DEF Running, PrivatePart

(* What a page that is mapped is found by the processor adds nothing wrong. *)
LEMMA RememberKeeps ==
  ASSUME TlbPart, mem' = mem, cr3' = cr3, NEW page, Translate(page) # None, Remember(page),
         step' \in BeforeTouch \cup {"first_touch", "unmap"} =>
           page = DemandPage /\ step \in BeforeTouch \cup {"first_touch", "unmap"}
  PROVE  TlbPart'
<1>1. Translate(page) = Walk(mem, cr3, page)
  BY TranslateIs
<1>2. /\ DOMAIN tlb' = DOMAIN tlb \cup {page} /\ tlb'[page] = Translate(page)
      /\ \A q \in DOMAIN tlb : q # page => tlb'[q] = tlb[q]
  <2> DEFINE v == Translate(page)
  <2>1. tlb' = Put(tlb, page, v)
    BY DEF Remember
  <2> HIDE DEF v
  <2>2. DOMAIN tlb' = DOMAIN tlb \cup {page} /\ tlb'[page] = v /\ \A q \in DOMAIN tlb : q # page => tlb'[q] = tlb[q]
    BY <2>1 DEF Put
  <2> QED
    BY <2>2 DEF v
<1>3. \A q \in DOMAIN tlb' : tlb'[q] # None /\ tlb'[q] = Walk(mem, cr3, q)
  BY <1>1, <1>2 DEF TlbPart
<1> QED
  BY <1>2, <1>3 DEF TlbPart

(* The boot flow, before the scheduler runs, without a switch of tables. *)
LEMMA StillCore ==
  ASSUME CorePart, UNCHANGED <<spaces, cr3, running, stacks>>, step \notin {"run", "panic"},
         step' \in {"read_private", "restore"} <=> step \in {"read_private", "restore"}
  PROVE  CorePart'
<1>1. running \in Tasks'
  BY DEF CorePart, Tasks
<1> QED
  BY <1>1, CoreKept

(* The check of PHYS gives its two frames back, or loses its last one. *)
LEMMA PhysRoundTripStep ==
  ASSUME Running, PhysRoundTrip
  PROVE  Running'
<1>1. /\ step = "extend" /\ heap = BootstrapPages + RealPages /\ step' = "heap_check"
      /\ \/ phys' = phys /\ Record("Memory", TRUE)
         \/ Cardinality(phys) < 2 /\ phys' = {} /\ Record("Memory", FALSE)
      /\ short' = (short \/ phys' # phys)
      /\ region' = region /\ bump' = bump /\ heap' = heap /\ cr3' = cr3 /\ data' = data /\ spaces' = spaces
      /\ PAGE_FAULTS_DEMAND_PAGED' = PAGE_FAULTS_DEMAND_PAGED /\ stacks' = stacks /\ running' = running
      /\ mem' = mem /\ tlb' = tlb
  BY DEF PhysRoundTrip, bootVars
<1>2. /\ Memory /\ HeapPart /\ StackPart /\ DemandPart /\ FixedPart /\ SpacesPart /\ CorePart /\ ResultsPart /\ TlbPart
      /\ SharedPart /\ Framed /\ HeapInPlace /\ Kept
  BY DEF Running, Pages, Memory
<1>3. phys' \subseteq phys
  BY <1>1
<1>4. Memory'
  <2>1. PICK lvl : Rooted(lvl)
    BY <1>2 DEF Memory
  <2>2. Forest(mem, phys', lvl)
    BY <2>1, <1>3 DEF Rooted, Forest
  <2>3. Rooted(lvl)'
    BY <2>1, <2>2, <1>1 DEF Rooted
  <2>4. Framed' /\ HeapInPlace'
    BY <1>1, <1>2, <1>3 DEF Framed, HeapInPlace
  <2>5. Kept'
    <3>1. CASE phys' = phys
      <4>1. short' = short
        BY <3>1, <1>1, <1>2 DEF ResultsPart
      <4> QED
        BY <3>1, <4>1, <1>1, <1>2, KeptStays
    <3>2. CASE phys' # phys
      <4>1. phys # {} /\ phys' = {} /\ Cardinality(phys) < 2 /\ short'
        BY <3>2, <1>1
      <4>2. PICK x : phys = {x}
        <5>1. region \in Nat /\ BootstrapPages \in Nat /\ phys \subseteq BootstrapPages .. region - 1
          BY <1>2, Sizes
        <5>5. IsFiniteSet(BootstrapPages .. region - 1)
          BY <5>1, FS_Interval
        <5>2. IsFiniteSet(phys)
          BY <5>1, <5>5, FS_Subset
        <5>3. Cardinality(phys) \in Nat /\ Cardinality(phys) # 0
          BY <5>2, <4>1, FS_CardinalityType, FS_EmptySet
        <5>4. Cardinality(phys) = 1
          BY <5>3, <4>1
        <5> QED
          BY <5>2, <5>4, FS_Singleton
      <4>3. \A h \in 0 .. region - 1 : h < bump \/ h \notin phys' => Held(h)' \/ h \in {x, x}
        <5>1. AllHeld
          BY <4>1, <1>2 DEF Kept
        <5> QED
          BY <5>1, <4>2, <1>1 DEF AllHeld, Held, L4Tables
      <4> QED
        BY <4>1, <4>3, <1>1 DEF Kept
    <3> QED
      BY <3>1, <3>2
  <2> QED
    BY <2>3, <2>4, <2>5 DEF Memory
<1>5. Onward
  BY <1>1 DEF Onward, Steps, BeforeInit, BeforeSpaces, BeforeTouch, SmpSteps, DemoSteps
<1>6. (\A i : Keeps(i)) /\ Extends(mem, mem') /\ \A x : IsTarget(mem', x) => IsTarget(mem, x)
  BY <1>1 DEF Keeps, Extends
<1>7. HeapPart'
  BY <1>1, <1>2, <1>6, HeapKept
<1>8. StackPart'
  BY <1>1, <1>2, <1>5, <1>6, StackKept DEF Onward
<1>9. FixedPart'
  BY <1>1, <1>2, <1>5, <1>6, FixedKept DEF Onward
<1>10. DemandPart'
  BY <1>1, <1>2, <1>6, DemandKept DEF DemandPart, BeforeTouch
<1>11. SharedPart' /\ PrivatePart'
  BY <1>1, <1>2, <1>6, SharedKept, StillPrivate
<1>12. SpacesPart'
  BY <1>1, <1>2, <1>3, <1>5, SpacesKept DEF DemoSteps
<1>13. CorePart'
  BY <1>1, <1>2, StillCore
<1>14. TlbPart'
  BY <1>1, <1>2 DEF TlbPart, BeforeTouch
<1>15. ResultsPart'
  <2>1. short' \in BOOLEAN /\ step' # "panic"
    BY <1>1
  <2>2. CASE phys' = phys /\ Record("Memory", TRUE)
    <3>1. /\ \A n \in DOMAIN checks' : checks'[n] \in BOOLEAN
          /\ (\A n \in DOMAIN checks : checks[n]) => \A n \in DOMAIN checks' : checks'[n]
      BY <1>2, <2>2, RecordKeeps DEF ResultsPart
    <3> QED
      BY <2>1, <2>2, <3>1, <1>1, <1>2 DEF ResultsPart
  <2>3. CASE phys' = {} /\ Record("Memory", FALSE)
    <3>1. \A n \in DOMAIN checks' : checks'[n] \in BOOLEAN
      BY <1>2, <2>3, RecordKeeps DEF ResultsPart
    <3>2. phys = {} => short
      <4>1. BootstrapPages \in BootstrapPages .. bump - 1
        BY <1>2, Sizes
      <4> QED
        BY <4>1, <1>2 DEF Kept
    <3>3. short'
      BY <3>2, <2>3, <1>1, <1>2 DEF ResultsPart
    <3> QED
      BY <2>1, <3>1, <3>3 DEF ResultsPart
  <2> QED
    BY <1>1, <2>2, <2>3
<1> QED
  BY <1>4, <1>5, <1>7, <1>8, <1>9, <1>10, <1>11, <1>12, <1>13, <1>14, <1>15 DEF Running, Pages, Onward

(* The frames of two pages of the heap, until PHYS comes to its frames. *)
LEMMA HeapFramesDiffer ==
  ASSUME Memory, HeapPart, ~ short, NEW i \in Nat, NEW j \in Nat, i < j, j < heap
  PROVE  /\ Walk(mem, BootL4, HeapPage(i)) # None /\ Walk(mem, BootL4, HeapPage(j)) # None
         /\ Walk(mem, BootL4, HeapPage(i)) # Walk(mem, BootL4, HeapPage(j))
<1>1. PICK lvl : Rooted(lvl)
  BY DEF Memory
<1>2. Forest(mem, phys, lvl) /\ HeapInPlace /\ Framed /\ Kept /\ HeapL1 \in DOMAIN mem /\ lvl[HeapL1] = 1
  BY <1>1 DEF Rooted, Memory, Forest
<1>3. /\ Walk(mem, BootL4, HeapPage(i)) = Entry(mem, HeapL1, i) /\ Walk(mem, BootL4, HeapPage(j)) = Entry(mem, HeapL1, j)
  BY <1>2, Sizes, HeapWay
<1>4. Mapped(HeapPage(i)) /\ Mapped(HeapPage(j))
  <2>1. heap \in Nat
    BY Sizes, Frames DEF HeapPart
  <2>2. i < heap
    BY <2>1
  <2> QED
    BY <2>2 DEF HeapPart
<1>5. /\ i \in DOMAIN mem[HeapL1] /\ Entry(mem, HeapL1, i) = mem[HeapL1][i]
      /\ j \in DOMAIN mem[HeapL1] /\ Entry(mem, HeapL1, j) = mem[HeapL1][j]
  BY <1>3, <1>4 DEF Mapped, Entry
<1>6. mem[HeapL1][i] # mem[HeapL1][j]
  <2>0. BootstrapPages \in Nat /\ bump = BootstrapPages + 3 /\ BootstrapPages >= 4
    BY Sizes
  <2>9. \A d \in Nat : ~ (d < BootstrapPages) => ~ Exempt(HeapL1, d)
    BY <2>0 DEF Exempt
  <2>1. \A d \in Nat : d < BootstrapPages => mem[HeapL1][d] = IF d = 0 THEN 0 ELSE d + 3
    BY <1>2, <2>0 DEF HeapInPlace, HeapL1
  <2>2. CASE j < BootstrapPages
    <3>1. i < BootstrapPages
      BY <2>2, <2>0
    <3> QED
      BY <2>1, <2>2, <3>1
  <2>3. CASE ~ (j < BootstrapPages) /\ i < BootstrapPages
    <3>1. mem[HeapL1][i] < bump
      BY <2>0, <2>1, <2>3
    <3>2. mem[HeapL1][j] \notin phys /\ mem[HeapL1][j] \notin DOMAIN mem
      BY <1>2, <1>5, <2>3, <2>9 DEF Forest
    <3>3. mem[HeapL1][j] \in 1 .. 3 \/ mem[HeapL1][j] >= BootstrapPages
      BY <1>2, <1>5, <2>3, <2>9 DEF Framed
    <3>4. mem[HeapL1][j] \notin 1 .. 3
      BY <3>2, <1>2 DEF HeapInPlace
    <3>5. mem[HeapL1][j] \in 0 .. region - 1 \cup {LapicFrame, TrampolineFrame}
      BY <1>2, <1>5 DEF Framed
    <3>6. mem[HeapL1][j] \in Nat
      BY <3>5, Sizes
    <3>7. ~ (mem[HeapL1][j] < bump)
      <4> SUFFICES ASSUME mem[HeapL1][j] < bump PROVE FALSE
        OBVIOUS
      <4>1. mem[HeapL1][j] \in BootstrapPages .. bump - 1
        BY <3>3, <3>4, <3>6, <2>0
      <4> QED
        BY <4>1, <3>2, <1>2 DEF Kept
    <3> QED
      BY <3>1, <3>7
  <2>4. CASE ~ (j < BootstrapPages) /\ ~ (i < BootstrapPages)
    BY <2>4, <1>2, <1>5, <2>9 DEF Forest
  <2> QED
    BY <2>2, <2>3, <2>4
<1> QED
  BY <1>3, <1>4, <1>5, <1>6 DEF Mapped

(* The check of the heap finds two pages with frames of their own, unless  *)
(* PHYS had run short.                                                     *)
LEMMA HeapHoldsDataStep ==
  ASSUME Running, HeapHoldsData
  PROVE  Running'
<1>1. /\ step = "heap_check" /\ step' = "first_touch"
      /\ region' = region /\ bump' = bump /\ heap' = heap /\ cr3' = cr3 /\ data' = data /\ spaces' = spaces
      /\ PAGE_FAULTS_DEMAND_PAGED' = PAGE_FAULTS_DEMAND_PAGED /\ stacks' = stacks /\ running' = running
      /\ phys' = phys /\ mem' = mem /\ tlb' = tlb /\ short' = short
  BY DEF HeapHoldsData, bootVars
<1>2. /\ Memory /\ HeapPart /\ DemandPart /\ SpacesPart /\ CorePart /\ ResultsPart /\ TlbPart
  BY DEF Running, Pages
<1>5. Onward
  BY <1>1 DEF Onward, Steps, BeforeInit, BeforeSpaces, BeforeTouch, SmpSteps, DemoSteps
<1>6. /\ Memory' /\ HeapPart' /\ StackPart' /\ FixedPart' /\ SharedPart'
      /\ Mapped(DemandPage)' <=> Mapped(DemandPage)
  BY <1>1, <1>5, StillStep
<1>10. DemandPart'
  BY <1>1, <1>2, <1>6 DEF DemandPart, BeforeTouch
<1>11. PrivatePart'
  BY <1>1, StillPrivate
<1>12. SpacesPart'
  BY <1>1, <1>2, <1>5, SpacesKept DEF DemoSteps
<1>13. CorePart' /\ cr3 = BootL4
  BY <1>1, <1>2, StillCore DEF CorePart, DesiredL4Frame
<1>14. TlbPart'
  BY <1>1, <1>2 DEF TlbPart, BeforeTouch
<1>15. ResultsPart'
  <2>1. PICK i \in 0 .. heap - 2 :
           LET f == Walk(mem, cr3, HeapPage(i)) IN
           LET g == Walk(mem, cr3, HeapPage(i + 1)) IN
           Record("Paging", f # None /\ g # None /\ f # g)
    BY DEF HeapHoldsData
  <2> DEFINE ok == /\ Walk(mem, cr3, HeapPage(i)) # None /\ Walk(mem, cr3, HeapPage(i + 1)) # None
                   /\ Walk(mem, cr3, HeapPage(i)) # Walk(mem, cr3, HeapPage(i + 1))
  <2>2. ok \in BOOLEAN
    OBVIOUS
  <2>3. Record("Paging", ok)
    BY <2>1
  <2>4. ~ short => ok
    <3>1. heap \in Nat
      BY <1>2, Sizes, Frames DEF HeapPart
    <3>2. i \in Nat /\ i + 1 \in Nat /\ i < i + 1 /\ i + 1 < heap
      BY <3>1
    <3> QED
      BY <3>2, <1>2, <1>13, HeapFramesDiffer
  <2> HIDE DEF ok
  <2>5. /\ \A n \in DOMAIN checks' : checks'[n] \in BOOLEAN
        /\ ok /\ (\A n \in DOMAIN checks : checks[n]) => \A n \in DOMAIN checks' : checks'[n]
    BY <1>2, <2>2, <2>3, RecordKeeps DEF ResultsPart
  <2> QED
    BY <2>4, <2>5, <1>1, <1>2 DEF ResultsPart
<1> QED
  BY <1>5, <1>6, <1>10, <1>11, <1>12, <1>13, <1>14, <1>15 DEF Running, Pages, Onward

(* The two writes to the demand page, and what follows them. *)
LEMMA TouchesAre ==
  DOMAIN Touches = {"first_touch", "second_touch"} /\ Touches["first_touch"] = "unmap" /\ Touches["second_touch"] = "new_space"
  BY DEF Touches

(* The boot flow runs on the boot table, but for the demo of a space. *)
LEMMA BootRuns ==
  ASSUME CorePart, step \notin {"run", "panic", "read_private", "restore"}
  PROVE  running = "boot" /\ cr3 = BootL4
  BY DEF CorePart, DesiredL4Frame

(* page_fault_handler maps the demand page once a touch, or panics. *)
LEMMA PageFaultStep ==
  ASSUME Running, page_fault_handler
  PROVE  Running'
<1> DEFINE r == MapPage(DemandPage)
<1>1. /\ step \in {"first_touch", "second_touch"} /\ Translate(DemandPage) = None /\ Uses(r)
      /\ \/ r.ok /\ PAGE_FAULTS_DEMAND_PAGED' = PAGE_FAULTS_DEMAND_PAGED + 1 /\ tlb' = Flushed(DemandPage) /\ step' = step
         \/ ~ r.ok /\ step' = "panic" /\ PAGE_FAULTS_DEMAND_PAGED' = PAGE_FAULTS_DEMAND_PAGED /\ tlb' = tlb
      /\ region' = region /\ bump' = bump /\ cr3' = cr3 /\ data' = data /\ spaces' = spaces /\ stacks' = stacks
      /\ heap' = heap /\ checks' = checks /\ running' = running
  BY TouchesAre DEF page_fault_handler, Flush
<1>2. /\ Memory /\ HeapPart /\ StackPart /\ DemandPart /\ FixedPart /\ SpacesPart /\ CorePart /\ ResultsPart /\ TlbPart
  BY DEF Running, Pages
<1>3. ~ Mapped(DemandPage)
  <2>1. cr3 = BootL4
    BY <1>1, <1>2, BootRuns
  <2>2. Translate(DemandPage) = Walk(mem, cr3, DemandPage)
    BY <1>2, TranslateIs
  <2> QED
    BY <2>1, <2>2, <1>1 DEF Mapped
<1>4. DemandPage \in Page /\ DemandPage[1] = 5
  BY PagesAre
<1> HIDE DEF r
<1>5. Memory' /\ \E f : f \notin {LapicFrame, TrampolineFrame} /\ MapsPage(DemandPage, f, r.ok)
  BY <1>1, <1>2, <1>3, <1>4, MapPageStep DEF ResultsPart, r
<1>6. PICK f : f \notin {LapicFrame, TrampolineFrame} /\ MapsPage(DemandPage, f, r.ok)
  BY <1>5
<1>7. Onward
  BY <1>1 DEF Onward, Steps, BeforeInit, BeforeSpaces, BeforeTouch, SmpSteps, DemoSteps
<1>8. /\ PrivatePart' /\ SharedPart' /\ TlbPart'
      /\ \A i : i # 5 \/ ~ r.ok => Keeps(i)
      /\ \A x \in {LapicFrame, TrampolineFrame} : IsTarget(mem', x) => IsTarget(mem, x)
  BY <1>1, <1>4, <1>6, <1>7, MappingStep
<1>9. HeapPart'
  BY <1>1, <1>2, <1>8, HeapKept
<1>10. StackPart'
  BY <1>1, <1>2, <1>7, <1>8, StackKept DEF Onward
<1>11. DemandPart'
  <2>1. CASE r.ok
    <3>1. Mapped(DemandPage)'
      BY <2>1, <1>6 DEF MapsPage, Mapped
    <3>2. PAGE_FAULTS_DEMAND_PAGED = IF step = "first_touch" THEN 0 ELSE 1
      BY <1>1, <1>2, <1>3 DEF DemandPart
    <3>3. AllHeld'
      <4>1. phys = {} => ~ r.ok
        BY DEF r, MapPage, MapPageWith
      <4> QED
        BY <4>1, <2>1, <1>6 DEF MapsPage
    <3> QED
      BY <2>1, <3>1, <3>2, <3>3, <1>1 DEF DemandPart, BeforeTouch
  <2>2. CASE ~ r.ok
    BY <2>2, <1>1, <1>2 DEF DemandPart, BeforeTouch
  <2> QED
    BY <2>1, <2>2
<1>12. FixedPart'
  BY <1>1, <1>2, <1>7, <1>8, FixedKept DEF Onward
<1>13. SpacesPart'
  BY <1>1, <1>2, <1>6, <1>7, SpacesKept DEF MapsPage, DemoSteps
<1>14. CorePart'
  BY <1>1, <1>2, StillCore
<1>15. ResultsPart'
  BY <1>1, <1>2, <1>6 DEF ResultsPart, MapsPage, Uses
<1> QED
  BY <1>5, <1>7, <1>8, <1>9, <1>10, <1>11, <1>12, <1>13, <1>14, <1>15 DEF Running, Pages, Onward

(* Before there is a space, nothing is asked of one. *)
LEMMA NoSpaces ==
  ASSUME SpacesPart', step' \in BeforeSpaces
  PROVE  PrivatePart' /\ SharedPart'
<1>1. spaces'["demo"] = None /\ spaces'["task_e"] = None
  BY DEF SpacesPart, BeforeInit
<1> QED
  BY <1>1 DEF PrivatePart, SharedPart, Spaces

(* The write goes through after exactly one fault for each touch. *)
LEMMA TouchStep ==
  ASSUME Running, TouchDemandPage
  PROVE  Running'
<1>1. /\ step \in {"first_touch", "second_touch"} /\ Translate(DemandPage) # None /\ Remember(DemandPage)
      /\ \/ step = "first_touch" /\ Record("PageFault", PAGE_FAULTS_DEMAND_PAGED = 1) /\ step' = "unmap"
         \/ step = "second_touch" /\ Record("Unmap", PAGE_FAULTS_DEMAND_PAGED = 2) /\ step' = "new_space"
      /\ region' = region /\ bump' = bump /\ heap' = heap /\ cr3' = cr3 /\ spaces' = spaces
      /\ PAGE_FAULTS_DEMAND_PAGED' = PAGE_FAULTS_DEMAND_PAGED /\ stacks' = stacks /\ running' = running
      /\ phys' = phys /\ mem' = mem /\ short' = short
  BY TouchesAre DEF TouchDemandPage
<1>2. /\ Memory /\ HeapPart /\ DemandPart /\ SpacesPart /\ CorePart /\ ResultsPart /\ TlbPart
  BY DEF Running, Pages
<1>3. Mapped(DemandPage)
  <2>1. cr3 = BootL4
    BY <1>1, <1>2, BootRuns
  <2>2. Translate(DemandPage) = Walk(mem, cr3, DemandPage)
    BY <1>2, TranslateIs
  <2> QED
    BY <2>1, <2>2, <1>1 DEF Mapped
<1>5. Onward
  BY <1>1 DEF Onward, Steps, BeforeInit, BeforeSpaces, BeforeTouch, SmpSteps, DemoSteps
<1>6. /\ Memory' /\ HeapPart' /\ StackPart' /\ FixedPart'
      /\ Mapped(DemandPage)' <=> Mapped(DemandPage)
  BY <1>1, <1>5, StillStep
<1>10. DemandPart'
  <2>1. AllHeld => AllHeld'
    BY <1>1, KeptStays
  <2> QED
    BY <2>1, <1>1, <1>2, <1>3, <1>6 DEF DemandPart, BeforeTouch
<1>12. SpacesPart'
  BY <1>1, <1>2, <1>5, SpacesKept DEF DemoSteps
<1>11. PrivatePart' /\ SharedPart'
  BY <1>1, <1>12, NoSpaces DEF BeforeSpaces
<1>13. CorePart'
  BY <1>1, <1>2, StillCore
<1>14. TlbPart'
  BY <1>1, <1>2, RememberKeeps DEF BeforeTouch
<1>15. ResultsPart'
  <2>1. ASSUME NEW name, NEW ok \in BOOLEAN, ok, Record(name, ok) PROVE ResultsPart'
    <3>1. /\ \A x \in DOMAIN checks' : checks'[x] \in BOOLEAN
          /\ (\A x \in DOMAIN checks : checks[x]) => \A x \in DOMAIN checks' : checks'[x]
      BY <1>2, <2>1, RecordKeeps DEF ResultsPart
    <3> QED
      BY <3>1, <1>1, <1>2 DEF ResultsPart
  <2>2. CASE step = "first_touch"
    <3> DEFINE ok == PAGE_FAULTS_DEMAND_PAGED = 1
    <3>1. ok \in BOOLEAN /\ ok
      BY <2>2, <1>2, <1>3 DEF DemandPart
    <3>2. Record("PageFault", ok)
      BY <2>2, <1>1
    <3> HIDE DEF ok
    <3> QED
      BY <2>1, <3>1, <3>2
  <2>3. CASE step = "second_touch"
    <3> DEFINE ok == PAGE_FAULTS_DEMAND_PAGED = 2
    <3>1. ok \in BOOLEAN /\ ok
      BY <2>3, <1>2, <1>3 DEF DemandPart
    <3>2. Record("Unmap", ok)
      BY <2>3, <1>1
    <3> HIDE DEF ok
    <3> QED
      BY <2>1, <3>1, <3>2
  <2> QED
    BY <2>2, <2>3, <1>1
<1> QED
  BY <1>5, <1>6, <1>10, <1>11, <1>12, <1>13, <1>14, <1>15 DEF Running, Pages, Onward

(* unmap_page gives one frame back, and neither a table nor the TLB leads  *)
(* to it any more.                                                         *)
LEMMA UnmapPageStep ==
  ASSUME Running, UnmapPage
  PROVE  Running'
<1>1. /\ step = "unmap" /\ step' = "second_touch"
      /\ mem' = WithoutDemandPage /\ tlb' = Flushed(DemandPage) /\ phys' = phys \cup {DemandFrame}
      /\ Record("Unmap", Cardinality(phys \cup {DemandFrame}) = Cardinality(phys) + 1)
      /\ region' = region /\ bump' = bump /\ heap' = heap /\ cr3' = cr3 /\ data' = data /\ spaces' = spaces
      /\ PAGE_FAULTS_DEMAND_PAGED' = PAGE_FAULTS_DEMAND_PAGED /\ stacks' = stacks /\ running' = running
      /\ short' = short
  BY DEF UnmapPage, Unmaps, bootVars
<1>2. /\ Memory /\ HeapPart /\ StackPart /\ DemandPart /\ FixedPart /\ SpacesPart /\ CorePart /\ ResultsPart /\ TlbPart
  BY DEF Running, Pages
<1>3. Mapped(DemandPage) /\ AllHeld /\ ~ IsTarget(mem, LapicFrame) /\ ~ IsTarget(mem, TrampolineFrame)
  BY <1>1, <1>2 DEF DemandPart, FixedPart, SmpSteps
<1>4. /\ Memory' /\ DemandFrame \notin phys /\ DemandFrame # None
      /\ Walk(mem', BootL4, DemandPage) = None
      /\ \A q \in Page : q # DemandPage => Walk(mem', BootL4, q) = Walk(mem, BootL4, q)
      /\ \A x : IsTarget(mem', x) => IsTarget(mem, x)
  BY <1>1, <1>2, <1>3, UnmapStep
<1>5. Onward
  BY <1>1 DEF Onward, Steps, BeforeInit, BeforeSpaces, BeforeTouch, SmpSteps, DemoSteps
<1>6. \A i : i # 5 => Keeps(i)
  BY <1>4, PagesAre DEF Keeps
<1>9. HeapPart'
  BY <1>1, <1>2, <1>6, HeapKept
<1>10. StackPart'
  BY <1>1, <1>2, <1>5, <1>6, StackKept DEF Onward
<1>11. DemandPart'
  BY <1>1, <1>2, <1>4 DEF DemandPart, BeforeTouch, Mapped
<1>12. FixedPart'
  BY <1>1, <1>2, <1>4, <1>5, <1>6, FixedKept DEF Onward
<1>13. SpacesPart'
  BY <1>1, <1>2 DEF SpacesPart, BeforeSpaces, DemoSteps, BeforeInit
<1>14. PrivatePart' /\ SharedPart'
  BY <1>1, <1>13, NoSpaces DEF BeforeSpaces
<1>15. CorePart'
  BY <1>1, <1>2, StillCore
<1>16. TlbPart'
  <2>1. DOMAIN tlb \subseteq {DemandPage}
    BY <1>1, <1>2 DEF TlbPart
  <2>2. DOMAIN tlb' = {}
    BY <2>1, <1>1 DEF Flushed
  <2> QED
    BY <2>2 DEF TlbPart
<1>17. ResultsPart'
  <2> DEFINE ok == Cardinality(phys \cup {DemandFrame}) = Cardinality(phys) + 1
  <2>1. ok \in BOOLEAN
    OBVIOUS
  <2>2. ok
    <3>1. region \in Nat /\ BootstrapPages \in Nat /\ phys \subseteq BootstrapPages .. region - 1
      BY <1>2, Sizes
    <3>2. IsFiniteSet(BootstrapPages .. region - 1)
      BY <3>1, FS_Interval
    <3>3. IsFiniteSet(phys)
      BY <3>1, <3>2, FS_Subset
    <3> QED
      BY <3>3, <1>4, FS_AddElement
  <2>3. Record("Unmap", ok)
    BY <1>1
  <2> HIDE DEF ok
  <2>4. /\ \A x \in DOMAIN checks' : checks'[x] \in BOOLEAN
        /\ (\A x \in DOMAIN checks : checks[x]) => \A x \in DOMAIN checks' : checks'[x]
    BY <1>2, <2>1, <2>2, <2>3, RecordKeeps DEF ResultsPart
  <2> QED
    BY <2>4, <1>1, <1>2 DEF ResultsPart
<1> QED
  BY <1>4, <1>5, <1>9, <1>10, <1>11, <1>12, <1>13, <1>14, <1>15, <1>16, <1>17 DEF Running, Pages, Onward

(* A mapped page has its entry in the boot table. *)
LEMMA MappedEntry ==
  ASSUME Memory, NEW q, Mapped(q)
  PROVE  q[1] \in DOMAIN mem[BootL4]
<1>1. \A i : Entry(mem, None, i) = None
  BY NoneIsNoTable DEF Entry
<1>2. Entry(mem, BootL4, q[1]) # None
  BY <1>1 DEF Mapped, Walk, WalkToL1
<1> QED
  BY <1>2 DEF Entry

(* What building a space leaves. *)
LEMMA BuildingStep ==
  ASSUME Running, NEW owner \in Spaces, spaces[owner] = None, BuildSpace(owner), cr3 = BootL4, Onward,
         UNCHANGED <<region, bump, heap, cr3, stacks>>, step \notin {"extend", "panic"},
         step' \notin {"map_trampoline", "send_ipi"}
  PROVE  /\ Memory' /\ BuildsSpace(owner) /\ HeapPart' /\ StackPart' /\ FixedPart' /\ PrivatePart' /\ TlbPart'
         /\ Mapped(DemandPage)' <=> Mapped(DemandPage)
         /\ spaces' = [spaces EXCEPT ![owner] = NewSpace.l4] /\ spaces' \in [Spaces -> Int]
<1>1. /\ Memory /\ HeapPart /\ StackPart /\ DemandPart /\ FixedPart /\ SpacesPart /\ ResultsPart /\ TlbPart /\ PrivatePart
  BY DEF Running, Pages
<1>2. /\ Uses(NewSpace) /\ spaces' = [spaces EXCEPT ![owner] = NewSpace.l4]
      /\ NewSpace.ok => data' = Put(data, NewSpace.frame, "private") /\ tlb' = Flushed(PrivatePage)
      /\ ~ NewSpace.ok => data' = data /\ tlb' = tlb
  BY DEF BuildSpace, Flush
<1>3. spaces \in [Spaces -> Int] /\ short \in BOOLEAN
  BY <1>1 DEF SpacesPart, ResultsPart
<1>4. Memory' /\ BuildsSpace(owner)
  BY <1>1, <1>2, <1>3, BuildSpaceStep
<1>5. /\ NewSpace.ok \in BOOLEAN /\ Extends(mem, mem')
      /\ \A q \in Page : Walk(mem', BootL4, q) = Walk(mem, BootL4, q)
      /\ \A x \in {LapicFrame, TrampolineFrame} : IsTarget(mem', x) => IsTarget(mem, x)
      /\ ~ NewSpace.ok => spaces' = spaces
      /\ NewSpace.ok =>
           /\ spaces'[owner] # None /\ spaces'[owner] \in Int
           /\ Walk(mem', spaces'[owner], PrivatePage) = NewSpace.frame /\ NewSpace.frame # None
  BY <1>4 DEF BuildsSpace
<1>6. \A i : Keeps(i)
  BY <1>5 DEF Keeps
<1>7. HeapPart'
  BY <1>1, <1>6, HeapKept
<1>8. StackPart'
  BY <1>1, <1>6, StackKept DEF Onward
<1>9. FixedPart'
  BY <1>1, <1>5, <1>6, FixedKept DEF Onward
<1>10. Mapped(DemandPage)' <=> Mapped(DemandPage)
  BY <1>6, DemandKept
<1>11. spaces' \in [Spaces -> Int]
  BY <1>2, <1>3, <1>5
<1>12. None \notin DOMAIN mem
  BY <1>1, NoneIsNoTable
<1>13. TlbPart'
  <2>1. PICK page : tlb' \in {tlb, Flushed(page)}
    BY <1>2
  <2> QED
    BY <2>1, <1>1, <1>5, <1>12, TlbKept DEF Onward
<1>14. PrivatePart'
  <2>1. CASE NewSpace.ok
    <3> DEFINE g == NewSpace.frame
    <3>1. data' = Put(data, g, "private") /\ Walk(mem', spaces'[owner], PrivatePage) = g /\ g # None
      BY <2>1, <1>2, <1>5
    <3> HIDE DEF g
    <3>2. DOMAIN data' = DOMAIN data \cup {g} /\ data'[g] = "private" /\ \A h \in DOMAIN data : h # g => data'[h] = data[h]
      BY <3>1 DEF Put
    <3>3. ASSUME NEW s \in Spaces, spaces'[s] # None
          PROVE  /\ Walk(mem', spaces'[s], PrivatePage) # None
                 /\ Walk(mem', spaces'[s], PrivatePage) \in DOMAIN data'
                 /\ data'[Walk(mem', spaces'[s], PrivatePage)] = "private"
      <4>1. CASE s = owner
        BY <4>1, <3>1, <3>2
      <4>2. CASE s # owner
        <5>1. spaces'[s] = spaces[s]
          BY <4>2, <1>2, <1>3
        <5>2. /\ Walk(mem, spaces[s], PrivatePage) # None
              /\ Walk(mem, spaces[s], PrivatePage) \in DOMAIN data
              /\ data[Walk(mem, spaces[s], PrivatePage)] = "private"
          BY <5>1, <3>3, <1>1 DEF PrivatePart
        <5>3. Walk(mem', spaces[s], PrivatePage) = Walk(mem, spaces[s], PrivatePage)
          BY <5>2, <1>5, <1>12, ExtendsWalk
        <5> QED
          BY <5>1, <5>2, <5>3, <3>2
      <4> QED
        BY <4>1, <4>2
    <3> QED
      BY <3>3 DEF PrivatePart
  <2>2. CASE ~ NewSpace.ok
    BY <2>2, <1>1, <1>2, <1>5, <1>12, PrivateKept
  <2> QED
    BY <2>1, <2>2
<1> QED
  BY <1>2, <1>4, <1>7, <1>8, <1>9, <1>10, <1>11, <1>13, <1>14

(* The demo builds its address space, or fails for want of frames. *)
LEMMA DemoBuildsStep ==
  ASSUME Running, DemoBuildsSpace
  PROVE  Running'
<1>1. /\ step = "new_space" /\ BuildSpace("demo")
      /\ Record("AddressSpace", Entry(mem, cr3, PrivatePage[1]) = None /\ NewSpace.ok)
      /\ step' = IF NewSpace.ok THEN "switch_to" ELSE "map_user_code"
      /\ region' = region /\ bump' = bump /\ heap' = heap /\ cr3' = cr3
      /\ PAGE_FAULTS_DEMAND_PAGED' = PAGE_FAULTS_DEMAND_PAGED /\ stacks' = stacks /\ running' = running
  BY DEF DemoBuildsSpace
<1>2. /\ Memory /\ DemandPart /\ SpacesPart /\ CorePart /\ ResultsPart
  BY DEF Running, Pages
<1>3. cr3 = BootL4 /\ running = "boot" /\ "demo" \in Spaces /\ "task_e" \in Spaces
  BY <1>1, <1>2, BootRuns DEF Spaces
<1>4. spaces["demo"] = None /\ spaces["task_e"] = None /\ spaces \in [Spaces -> Int]
  BY <1>1, <1>2 DEF SpacesPart, BeforeSpaces, BeforeInit
<1>5. Onward
  BY <1>1 DEF Onward, Steps, BeforeInit, BeforeSpaces, BeforeTouch, SmpSteps, DemoSteps
<1>6. /\ Memory' /\ BuildsSpace("demo") /\ HeapPart' /\ StackPart' /\ FixedPart' /\ PrivatePart' /\ TlbPart'
      /\ Mapped(DemandPage)' <=> Mapped(DemandPage)
      /\ spaces' = [spaces EXCEPT !["demo"] = NewSpace.l4] /\ spaces' \in [Spaces -> Int]
  BY <1>1, <1>3, <1>4, <1>5, BuildingStep
<1>7. NewSpace.ok \in BOOLEAN /\ (NewSpace.ok => spaces'["demo"] # None) /\ (~ NewSpace.ok => short' /\ spaces' = spaces) /\ (short => short')
  BY <1>6 DEF BuildsSpace
<1>8. spaces'["task_e"] = None
  BY <1>3, <1>4, <1>6
<1>9. DemandPart'
  BY <1>1, <1>2, <1>6 DEF DemandPart, BeforeTouch
<1>10. SharedPart'
  BY <1>8 DEF SharedPart
<1>11. SpacesPart'
  BY <1>1, <1>2, <1>6, <1>7, <1>8 DEF SpacesPart, BeforeSpaces, BeforeTouch, DemoSteps, BeforeInit
<1>12. CorePart'
  <2>1. running' \in Tasks'
    BY <1>1, <1>3 DEF Tasks
  <2> QED
    BY <2>1, <1>1, <1>3 DEF CorePart, DesiredL4Frame
<1>13. ResultsPart'
  <2> DEFINE ok == Entry(mem, cr3, PrivatePage[1]) = None /\ NewSpace.ok
  <2>1. ok \in BOOLEAN
    OBVIOUS
  <2>2. NewSpace.ok => ok
    <3>1. 1 \notin DOMAIN mem[BootL4] /\ PrivatePage[1] = 1
      BY <1>2, PagesAre DEF Memory, HeapInPlace
    <3> QED
      BY <3>1, <1>3 DEF Entry
  <2>3. Record("AddressSpace", ok)
    BY <1>1
  <2> HIDE DEF ok
  <2>4. /\ \A x \in DOMAIN checks' : checks'[x] \in BOOLEAN
        /\ ok /\ (\A x \in DOMAIN checks : checks[x]) => \A x \in DOMAIN checks' : checks'[x]
    BY <1>2, <2>1, <2>3, RecordKeeps DEF ResultsPart
  <2>5. short' \in BOOLEAN
    BY <1>1 DEF BuildSpace, Uses
  <2>6. ~ short' => ~ short /\ NewSpace.ok
    BY <1>7
  <2>7. step' # "panic"
    BY <1>1
  <2>8. ~ short' => \A x \in DOMAIN checks' : checks'[x]
    BY <2>2, <2>4, <2>6, <1>2 DEF ResultsPart
  <2> QED
    BY <2>4, <2>5, <2>7, <2>8 DEF ResultsPart
<1> QED
  BY <1>5, <1>6, <1>9, <1>10, <1>11, <1>12, <1>13 DEF Running, Pages, Onward

(* task_e's address space shares the heap, the stacks and the demand page, *)
(* all mapped by then.                                                     *)
LEMMA InitBuildsStep ==
  ASSUME Running, InitBuildsSpace
  PROVE  Running'
<1>1. /\ step = "init" /\ stacks.slots = 3 /\ spaces["task_e"] = None /\ BuildSpace("task_e")
      /\ step' = IF NewSpace.ok THEN "init" ELSE "run"
      /\ region' = region /\ bump' = bump /\ heap' = heap /\ cr3' = cr3 /\ checks' = checks
      /\ PAGE_FAULTS_DEMAND_PAGED' = PAGE_FAULTS_DEMAND_PAGED /\ stacks' = stacks /\ running' = running
  BY DEF InitBuildsSpace, SpaceIsDue, FirstTasks
<1>2. /\ Memory /\ HeapPart /\ StackPart /\ DemandPart /\ SpacesPart /\ CorePart /\ ResultsPart
  BY DEF Running, Pages
<1>3. cr3 = BootL4 /\ running = "boot" /\ "demo" \in Spaces /\ "task_e" \in Spaces
  BY <1>1, <1>2, BootRuns DEF Spaces
<1>4. spaces \in [Spaces -> Int]
  BY <1>2 DEF SpacesPart
<1>5. Onward
  BY <1>1 DEF Onward, Steps, BeforeInit, BeforeSpaces, BeforeTouch, SmpSteps, DemoSteps
<1>6. /\ Memory' /\ BuildsSpace("task_e") /\ HeapPart' /\ StackPart' /\ FixedPart' /\ PrivatePart' /\ TlbPart'
      /\ Mapped(DemandPage)' <=> Mapped(DemandPage)
      /\ spaces' = [spaces EXCEPT !["task_e"] = NewSpace.l4] /\ spaces' \in [Spaces -> Int]
  BY <1>1, <1>3, <1>4, <1>5, BuildingStep
<1>7. /\ NewSpace.ok \in BOOLEAN /\ (~ NewSpace.ok => short' /\ spaces' = spaces /\ phys' = {}) /\ (short => short')
      /\ NewSpace.ok => /\ spaces'["task_e"] # None /\ spaces'["task_e"] \notin DOMAIN mem
                        /\ \A i \in DOMAIN mem[BootL4] : i \in DOMAIN mem'[spaces'["task_e"]] /\ mem'[spaces'["task_e"]][i] = mem[BootL4][i]
      /\ Extends(mem, mem')
  BY <1>6 DEF BuildsSpace
<1>8. spaces'["demo"] = spaces["demo"]
  BY <1>3, <1>4, <1>6
<1>9. DemandPart' /\ Mapped(DemandPage)
  BY <1>1, <1>2, <1>6 DEF DemandPart, BeforeTouch
<1>10. SharedPart'
  <2> SUFFICES ASSUME spaces'["task_e"] # None, NEW i \in {3, 4, 5}
               PROVE  /\ i \in DOMAIN mem'[BootL4] /\ i \in DOMAIN mem'[spaces'["task_e"]]
                      /\ mem'[BootL4][i] = mem'[spaces'["task_e"]][i]
    BY DEF SharedPart
  <2>1. NewSpace.ok
    BY <1>1, <1>7
  <2>2. i \in DOMAIN mem[BootL4]
    <3>1. Mapped(StackPage(0, 0))
      <4>1. 0 \in 0 .. stacks.slots - 1 /\ 0 \in 0 .. StackPages - 1
        BY <1>1, Frames
      <4> QED
        BY <4>1, <1>2 DEF StackPart
    <3>2. Mapped(HeapPage(0))
      <4>1. heap \in Nat /\ heap > 0
        BY <1>2, Frames DEF HeapPart
      <4> QED
        BY <4>1, <1>2 DEF HeapPart
    <3>3. StackPage(0, 0)[1] = 3 /\ HeapPage(0)[1] = 4 /\ DemandPage[1] = 5
      BY StackIndex, PagesAre
    <3> QED
      BY <3>1, <3>2, <3>3, <1>2, <1>9, MappedEntry
  <2>3. BootL4 \in DOMAIN mem
    BY <1>2, Sizes
  <2>4. i \in DOMAIN mem'[BootL4] /\ mem'[BootL4][i] = mem[BootL4][i]
    BY <2>2, <2>3, <1>7 DEF Extends
  <2> QED
    BY <2>1, <2>2, <2>4, <1>7
<1>11. SpacesPart'
  <2>1. spaces["demo"] # None => spaces["demo"] \in DOMAIN mem
    BY <1>2, <1>3 DEF Memory, Rooted
  <2>2. spaces'["demo"] # None => spaces'["task_e"] # spaces'["demo"]
    BY <2>1, <1>1, <1>7, <1>8
  <2>3. spaces'["task_e"] = None => stacks'.slots < 3 \/ (stacks'.slots = 3 /\ stacks'.pages = 0)
    BY <1>1, <1>2 DEF SpacesPart
  <2>4. spaces'["task_e"] = None => ~ NewSpace.ok
    BY <1>7
  <2> QED
    BY <1>1, <1>6, <1>7, <2>2, <2>3, <2>4 DEF SpacesPart, BeforeSpaces, BeforeTouch, DemoSteps, BeforeInit
<1>12. CorePart'
  <2>1. running' \in Tasks'
    BY <1>1, <1>3 DEF Tasks
  <2> QED
    BY <2>1, <1>1, <1>3 DEF CorePart, DesiredL4Frame
<1>13. ResultsPart'
  <2>1. short' \in BOOLEAN
    BY <1>1 DEF BuildSpace, Uses
  <2>2. ~ short' => ~ short
    BY <1>7
  <2> QED
    BY <2>1, <2>2, <1>1, <1>2 DEF ResultsPart
<1> QED
  BY <1>5, <1>6, <1>9, <1>10, <1>11, <1>12, <1>13 DEF Running, Pages, Onward

(* Another table in CR3 comes with an empty TLB. *)
LEMMA LoadCr3Keeps ==
  ASSUME TlbPart, mem' = mem, NEW l4, LoadCr3(l4), step' \notin BeforeTouch \cup {"first_touch", "unmap"}
  PROVE  TlbPart' /\ cr3' = l4
<1>1. cr3' = l4 /\ tlb' = IF l4 = cr3 THEN tlb ELSE <<>>
  BY DEF LoadCr3
<1>2. CASE l4 = cr3
  BY <1>1, <1>2 DEF TlbPart
<1>3. CASE l4 # cr3
  BY <1>1, <1>3 DEF TlbPart
<1> QED
  BY <1>1, <1>2, <1>3

(* switch_to loads the demo's tables. *)
LEMMA DemoSwitchesStep ==
  ASSUME Running, DemoSwitchesTo
  PROVE  Running'
<1>1. /\ step = "switch_to" /\ step' = "read_private" /\ LoadCr3(spaces["demo"])
      /\ region' = region /\ bump' = bump /\ heap' = heap /\ data' = data /\ spaces' = spaces /\ checks' = checks
      /\ PAGE_FAULTS_DEMAND_PAGED' = PAGE_FAULTS_DEMAND_PAGED /\ stacks' = stacks /\ running' = running
      /\ phys' = phys /\ mem' = mem /\ short' = short
  BY DEF DemoSwitchesTo
<1>2. /\ Memory /\ HeapPart /\ DemandPart /\ SpacesPart /\ CorePart /\ ResultsPart /\ TlbPart
  BY DEF Running, Pages
<1>3. Onward
  BY <1>1 DEF Onward, Steps, BeforeInit, BeforeSpaces, BeforeTouch, SmpSteps, DemoSteps
<1>4. /\ Memory' /\ HeapPart' /\ StackPart' /\ FixedPart' /\ SharedPart'
      /\ Mapped(DemandPage)' <=> Mapped(DemandPage)
  BY <1>1, <1>3, StillStep
<1>5. DemandPart'
  BY <1>1, <1>2, <1>4 DEF DemandPart, BeforeTouch
<1>6. PrivatePart'
  BY <1>1, StillPrivate
<1>7. SpacesPart'
  BY <1>1, <1>2, <1>3, SpacesKept DEF DemoSteps
<1>8. TlbPart' /\ cr3' = spaces["demo"]
  BY <1>1, <1>2, LoadCr3Keeps DEF BeforeTouch
<1>9. CorePart'
  <2>1. running = "boot"
    BY <1>1, <1>2, BootRuns
  <2> QED
    BY <2>1, <1>1, <1>8 DEF CorePart, Tasks
<1>10. ResultsPart'
  BY <1>1, <1>2 DEF ResultsPart
<1> QED
  BY <1>3, <1>4, <1>5, <1>6, <1>7, <1>8, <1>9, <1>10 DEF Running, Pages, Onward

(* The read on the demo's tables finds the private value. *)
LEMMA DemoReadsStep ==
  ASSUME Running, DemoReads
  PROVE  Running'
<1> DEFINE f == Translate(PrivatePage)
           ok == f \in DOMAIN data /\ data[f] = "private"
<1>2. /\ Memory /\ HeapPart /\ DemandPart /\ SpacesPart /\ CorePart /\ ResultsPart /\ TlbPart /\ PrivatePart
  BY DEF Running, Pages
<1>10. ok /\ f # None
  <2>1. step = "read_private"
    BY DEF DemoReads
  <2>2. cr3 = spaces["demo"] /\ spaces["demo"] # None
    BY <2>1, <1>2 DEF CorePart, SpacesPart, DemoSteps
  <2>3. f = Walk(mem, spaces["demo"], PrivatePage)
    BY <2>2, <1>2, TranslateIs
  <2> QED
    BY <2>2, <2>3, <1>2 DEF PrivatePart, Spaces
<1>1. /\ step = "read_private" /\ step' = "restore" /\ Record("AddressSpace", ok) /\ Remember(PrivatePage)
      /\ region' = region /\ bump' = bump /\ heap' = heap /\ cr3' = cr3 /\ data' = data /\ spaces' = spaces
      /\ PAGE_FAULTS_DEMAND_PAGED' = PAGE_FAULTS_DEMAND_PAGED /\ stacks' = stacks /\ running' = running
      /\ phys' = phys /\ mem' = mem /\ short' = short
  BY <1>10 DEF DemoReads, bootVars
<1>3. Onward
  BY <1>1 DEF Onward, Steps, BeforeInit, BeforeSpaces, BeforeTouch, SmpSteps, DemoSteps
<1>4. /\ Memory' /\ HeapPart' /\ StackPart' /\ FixedPart' /\ SharedPart'
      /\ Mapped(DemandPage)' <=> Mapped(DemandPage)
  BY <1>1, <1>3, StillStep
<1>5. DemandPart'
  BY <1>1, <1>2, <1>4 DEF DemandPart, BeforeTouch
<1>6. PrivatePart'
  BY <1>1, StillPrivate
<1>7. SpacesPart'
  BY <1>1, <1>2, <1>3, SpacesKept DEF DemoSteps
<1>8. TlbPart'
  BY <1>1, <1>2, <1>10, RememberKeeps DEF BeforeTouch
<1>9. CorePart'
  BY <1>1, <1>2, StillCore
<1>11. ok \in BOOLEAN
  OBVIOUS
<1> HIDE DEF ok
<1>12. ResultsPart'
  <2>1. /\ \A x \in DOMAIN checks' : checks'[x] \in BOOLEAN
        /\ (\A x \in DOMAIN checks : checks[x]) => \A x \in DOMAIN checks' : checks'[x]
    BY <1>1, <1>2, <1>10, <1>11, RecordKeeps DEF ResultsPart
  <2> QED
    BY <2>1, <1>1, <1>2 DEF ResultsPart
<1> QED
  BY <1>3, <1>4, <1>5, <1>6, <1>7, <1>8, <1>9, <1>12 DEF Running, Pages, Onward

(* restore loads the boot table. *)
LEMMA DemoRestoresStep ==
  ASSUME Running, DemoRestores
  PROVE  Running'
<1>1. /\ step = "restore" /\ step' = "map_user_code" /\ LoadCr3(BootL4)
      /\ region' = region /\ bump' = bump /\ heap' = heap /\ data' = data /\ spaces' = spaces /\ checks' = checks
      /\ PAGE_FAULTS_DEMAND_PAGED' = PAGE_FAULTS_DEMAND_PAGED /\ stacks' = stacks /\ running' = running
      /\ phys' = phys /\ mem' = mem /\ short' = short
  BY DEF DemoRestores
<1>2. /\ Memory /\ HeapPart /\ DemandPart /\ SpacesPart /\ CorePart /\ ResultsPart /\ TlbPart
  BY DEF Running, Pages
<1>3. Onward
  BY <1>1 DEF Onward, Steps, BeforeInit, BeforeSpaces, BeforeTouch, SmpSteps, DemoSteps
<1>4. /\ Memory' /\ HeapPart' /\ StackPart' /\ FixedPart' /\ SharedPart'
      /\ Mapped(DemandPage)' <=> Mapped(DemandPage)
  BY <1>1, <1>3, StillStep
<1>5. DemandPart'
  BY <1>1, <1>2, <1>4 DEF DemandPart, BeforeTouch
<1>6. PrivatePart'
  BY <1>1, StillPrivate
<1>7. SpacesPart'
  BY <1>1, <1>2, <1>3, SpacesKept DEF DemoSteps
<1>8. TlbPart' /\ cr3' = BootL4
  BY <1>1, <1>2, LoadCr3Keeps DEF BeforeTouch
<1>9. CorePart'
  <2>1. running = "boot"
    BY <1>1, <1>2 DEF CorePart
  <2> QED
    BY <2>1, <1>1, <1>8 DEF CorePart, Tasks, DesiredL4Frame
<1>10. ResultsPart'
  BY <1>1, <1>2 DEF ResultsPart
<1> QED
  BY <1>3, <1>4, <1>5, <1>6, <1>7, <1>8, <1>9, <1>10 DEF Running, Pages, Onward

(* init ends with all stacks of its tasks mapped, task_e's included. *)
LEMMA InitEndsStep ==
  ASSUME Running, InitEnds
  PROVE  Running'
<1>1. /\ step = "init" /\ step' = "run" /\ stacks.slots > 3 /\ checks' = checks /\ tlb' = tlb /\ cr3' = cr3
      /\ region' = region /\ bump' = bump /\ heap' = heap /\ data' = data /\ spaces' = spaces
      /\ PAGE_FAULTS_DEMAND_PAGED' = PAGE_FAULTS_DEMAND_PAGED /\ stacks' = stacks /\ running' = running
      /\ phys' = phys /\ mem' = mem /\ short' = short
  BY DEF InitEnds, TaskE, bootVars
<1>2. /\ Memory /\ HeapPart /\ StackPart /\ DemandPart /\ SpacesPart /\ CorePart /\ ResultsPart /\ TlbPart
  BY DEF Running, Pages
<1>3. Onward
  BY <1>1 DEF Onward, Steps, BeforeInit, BeforeSpaces, BeforeTouch, SmpSteps, DemoSteps
<1>4. /\ Memory' /\ HeapPart' /\ StackPart' /\ FixedPart' /\ SharedPart'
      /\ Mapped(DemandPage)' <=> Mapped(DemandPage)
  BY <1>1, <1>3, StillStep
<1>5. DemandPart'
  BY <1>1, <1>2, <1>4 DEF DemandPart, BeforeTouch
<1>6. PrivatePart'
  BY <1>1, StillPrivate
<1>7. SpacesPart'
  <2>1. stacks.slots \in Nat
    BY <1>2 DEF StackPart
  <2>2. spaces["task_e"] # None
    BY <2>1, <1>1, <1>2 DEF SpacesPart
  <2> QED
    BY <2>2, <1>1, <1>2 DEF SpacesPart, BeforeSpaces, BeforeTouch, DemoSteps, BeforeInit
<1>8. TlbPart'
  BY <1>1, <1>2 DEF TlbPart, BeforeTouch
<1>9. CorePart'
  BY <1>1, <1>2, StillCore
<1>10. ResultsPart'
  BY <1>1, <1>2 DEF ResultsPart
<1> QED
  BY <1>3, <1>4, <1>5, <1>6, <1>7, <1>8, <1>9, <1>10 DEF Running, Pages, Onward

(* bring_up_ap starts in the boot flow. *)
LEMMA BringUpStartsStep ==
  ASSUME Running, BringUpStarts
  PROVE  Running'
<1>1. /\ step = "run" /\ step' = "map_lapic" /\ running = "boot" /\ checks' = checks /\ tlb' = tlb /\ cr3' = cr3
      /\ region' = region /\ bump' = bump /\ heap' = heap /\ data' = data /\ spaces' = spaces
      /\ PAGE_FAULTS_DEMAND_PAGED' = PAGE_FAULTS_DEMAND_PAGED /\ stacks' = stacks /\ running' = running
      /\ phys' = phys /\ mem' = mem /\ short' = short
  BY DEF BringUpStarts, bootVars
<1>2. /\ Memory /\ HeapPart /\ StackPart /\ DemandPart /\ SpacesPart /\ CorePart /\ ResultsPart /\ TlbPart
  BY DEF Running, Pages
<1>3. Onward
  BY <1>1 DEF Onward, Steps, BeforeInit, BeforeSpaces, BeforeTouch, SmpSteps, DemoSteps
<1>4. /\ Memory' /\ HeapPart' /\ StackPart' /\ FixedPart' /\ SharedPart'
      /\ Mapped(DemandPage)' <=> Mapped(DemandPage)
  BY <1>1, <1>3, StillStep
<1>5. DemandPart'
  BY <1>1, <1>2, <1>4 DEF DemandPart, BeforeTouch
<1>6. PrivatePart'
  BY <1>1, StillPrivate
<1>7. SpacesPart'
  BY <1>1, <1>2, <1>3, SpacesKept DEF DemoSteps
<1>8. TlbPart'
  BY <1>1, <1>2 DEF TlbPart, BeforeTouch
<1>9. CorePart'
  BY <1>1, <1>2 DEF CorePart, Tasks, DesiredL4Frame
<1>10. ResultsPart'
  BY <1>1, <1>2 DEF ResultsPart
<1> QED
  BY <1>3, <1>4, <1>5, <1>6, <1>7, <1>8, <1>9, <1>10 DEF Running, Pages, Onward

(* switch_address_space_to loads the tables of the task that gets the core. *)
LEMMA DispatchStep ==
  ASSUME Running, NEW t \in Tasks, Dispatch(t)
  PROVE  Running'
<1>1. /\ step = "run" /\ step' = step /\ running' = t /\ checks' = checks /\ LoadCr3(DesiredL4Frame(t))
      /\ region' = region /\ bump' = bump /\ heap' = heap /\ data' = data /\ spaces' = spaces
      /\ PAGE_FAULTS_DEMAND_PAGED' = PAGE_FAULTS_DEMAND_PAGED /\ stacks' = stacks
      /\ phys' = phys /\ mem' = mem /\ short' = short
  BY DEF Dispatch, SwitchAddressSpaceTo
<1>2. /\ Memory /\ HeapPart /\ StackPart /\ DemandPart /\ SpacesPart /\ CorePart /\ ResultsPart /\ TlbPart
  BY DEF Running, Pages
<1>3. Onward
  BY <1>1 DEF Onward, Steps, BeforeInit, BeforeSpaces, BeforeTouch, SmpSteps, DemoSteps
<1>4. /\ Memory' /\ HeapPart' /\ StackPart' /\ FixedPart' /\ SharedPart'
      /\ Mapped(DemandPage)' <=> Mapped(DemandPage)
  BY <1>1, <1>3, StillStep
<1>5. DemandPart'
  BY <1>1, <1>2, <1>4 DEF DemandPart, BeforeTouch
<1>6. PrivatePart'
  BY <1>1, StillPrivate
<1>7. SpacesPart'
  BY <1>1, <1>2, <1>3, SpacesKept DEF DemoSteps
<1>8. TlbPart' /\ cr3' = DesiredL4Frame(t)
  BY <1>1, <1>2, LoadCr3Keeps DEF BeforeTouch
<1>9. CorePart'
  <2>1. t \in Tasks'
    BY <1>1 DEF Tasks
  <2> QED
    BY <2>1, <1>1, <1>8 DEF CorePart, DesiredL4Frame
<1>10. ResultsPart'
  BY <1>1, <1>2 DEF ResultsPart
<1> QED
  BY <1>3, <1>4, <1>5, <1>6, <1>7, <1>8, <1>9, <1>10 DEF Running, Pages, Onward

(* The two pages of run_demo_syscall, in their order. *)
LEMMA UserPagesAre ==
  /\ DOMAIN AfterUserPage = {"map_user_code", "map_user_stack"}
  /\ AfterUserPage["map_user_code"] = "map_user_stack" /\ AfterUserPage["map_user_stack"] = "init"
  /\ UserPage["map_user_code"] = <<6, 0, 0, 0>> /\ UserPage["map_user_stack"] = <<7, 0, 0, 0>>
  BY DEF AfterUserPage, UserPage

(* The two pages of bring_up_ap, in their order. *)
LEMMA SmpPagesAre ==
  /\ DOMAIN AfterSmpPage = {"map_lapic", "map_trampoline"} /\ DOMAIN SmpPage = {"map_lapic", "map_trampoline"}
  /\ AfterSmpPage["map_lapic"] = "map_trampoline" /\ AfterSmpPage["map_trampoline"] = "send_ipi"
  /\ SmpPage["map_lapic"] = <<2, 0, 0, 0>> /\ SmpPage["map_trampoline"] = <<0, 0, 0, 0>>
  /\ SmpFrame["map_lapic"] = LapicFrame /\ SmpFrame["map_trampoline"] = TrampolineFrame
  BY DEF AfterSmpPage, SmpPage, SmpFrame

(* run_demo_syscall maps its next page, or gives up. *)
LEMMA MapUserPageStep ==
  ASSUME Running, MapUserPage
  PROVE  Running'
<1> DEFINE page == UserPage[step]
           r == MapPage(page)
<1>1. /\ step \in {"map_user_code", "map_user_stack"} /\ Uses(r)
      /\ \/ r.ok /\ tlb' = Flushed(page) /\ step' = AfterUserPage[step] /\ checks' = checks
         \/ ~ r.ok /\ Record("Syscall", FALSE) /\ step' = "init" /\ tlb' = tlb
      /\ region' = region /\ bump' = bump /\ cr3' = cr3 /\ data' = data /\ spaces' = spaces /\ stacks' = stacks
      /\ heap' = heap /\ PAGE_FAULTS_DEMAND_PAGED' = PAGE_FAULTS_DEMAND_PAGED /\ running' = running
  BY UserPagesAre DEF MapUserPage, Flush, bootVars
<1>2. /\ Memory /\ HeapPart /\ StackPart /\ DemandPart /\ FixedPart /\ SpacesPart /\ CorePart /\ ResultsPart /\ TlbPart
  BY DEF Running, Pages
<1>3. page \in Page /\ page[1] \in {6, 7} /\ (step = "map_user_code" => page[1] = 6)
  BY <1>1, UserPagesAre, PagesAre
<1>4. ~ Mapped(page)
  BY <1>1, <1>2, UserPagesAre DEF FixedPart, BeforeInit
<1> HIDE DEF r, page
<1>5. Memory' /\ \E f : f \notin {LapicFrame, TrampolineFrame} /\ MapsPage(page, f, r.ok)
  <2>1. page[1] # 1
    BY <1>3
  <2> QED
    BY <2>1, <1>1, <1>2, <1>3, <1>4, MapPageStep DEF ResultsPart, r
<1>6. PICK f : f \notin {LapicFrame, TrampolineFrame} /\ MapsPage(page, f, r.ok)
  BY <1>5
<1>7. step' \in {"map_user_stack", "init"} /\ (step' = "map_user_stack" => step = "map_user_code")
  BY <1>1, UserPagesAre
<1>8. Onward
  BY <1>1, <1>7 DEF Onward, Steps, BeforeInit, BeforeSpaces, BeforeTouch, SmpSteps, DemoSteps
<1>9. /\ PrivatePart' /\ SharedPart' /\ TlbPart'
      /\ \A i : i # page[1] \/ ~ r.ok => Keeps(i)
      /\ \A x \in {LapicFrame, TrampolineFrame} : IsTarget(mem', x) => IsTarget(mem, x)
  <2>1. tlb' \in {tlb, Flushed(page)}
    BY <1>1
  <2> QED
    BY <2>1, <1>1, <1>3, <1>6, <1>8, MappingStep
<1>10. Keeps(0) /\ Keeps(2) /\ Keeps(3) /\ Keeps(4) /\ Keeps(5) /\ (page[1] = 6 => Keeps(7))
  <2>1. 0 # page[1] /\ 2 # page[1] /\ 3 # page[1] /\ 4 # page[1] /\ 5 # page[1] /\ (page[1] = 6 => 7 # page[1])
    BY <1>3
  <2> QED
    BY <2>1, <1>9
<1>11. HeapPart'
  BY <1>1, <1>2, <1>10, HeapKept
<1>12. StackPart'
  BY <1>1, <1>2, <1>8, <1>10, StackKept DEF Onward
<1>13. DemandPart'
  <2>1. Mapped(DemandPage)' <=> Mapped(DemandPage)
    BY <1>10, DemandKept
  <2> QED
    BY <2>1, <1>1, <1>2, <1>7 DEF DemandPart, BeforeTouch
<1>14. FixedPart'
  <2>1. /\ Walk(mem', BootL4, <<2, 0, 0, 0>>) = Walk(mem, BootL4, <<2, 0, 0, 0>>)
        /\ Walk(mem', BootL4, <<0, 0, 0, 0>>) = Walk(mem, BootL4, <<0, 0, 0, 0>>)
    BY <1>10, PagesAre DEF Keeps
  <2>2. /\ ~ Mapped(<<2, 0, 0, 0>>) /\ ~ IsTarget(mem, LapicFrame)
        /\ ~ Mapped(<<0, 0, 0, 0>>) /\ ~ IsTarget(mem, TrampolineFrame)
    BY <1>1, <1>2 DEF FixedPart, SmpSteps
  <2>3. step' = "map_user_stack" => ~ Mapped(<<7, 0, 0, 0>>)'
    <3>1. step = "map_user_code" => ~ Mapped(<<7, 0, 0, 0>>)
      BY <1>2 DEF FixedPart, BeforeInit
    <3> QED
      BY <3>1, <1>3, <1>7, <1>10, PagesAre DEF Keeps, Mapped
  <2> QED
    BY <2>1, <2>2, <2>3, <1>7, <1>9 DEF FixedPart, Mapped, SmpSteps, BeforeInit, BeforeSpaces, BeforeTouch, DemoSteps
<1>15. SpacesPart'
  BY <1>1, <1>2, <1>6, <1>7, <1>8, SpacesKept DEF MapsPage, DemoSteps
<1>16. CorePart'
  BY <1>1, <1>2, <1>7, StillCore
<1>17. ResultsPart'
  <2>1. short' \in BOOLEAN /\ step' # "panic"
    BY <1>1, <1>7 DEF Uses
  <2>2. (short => short') /\ (~ r.ok => short')
    BY <1>6 DEF MapsPage
  <2>3. CASE checks' = checks
    BY <2>1, <2>2, <2>3, <1>2 DEF ResultsPart
  <2>4. CASE ~ r.ok /\ Record("Syscall", FALSE)
    <3>1. \A n \in DOMAIN checks' : checks'[n] \in BOOLEAN
      BY <1>2, <2>4, RecordKeeps DEF ResultsPart
    <3> QED
      BY <2>1, <2>2, <2>4, <3>1 DEF ResultsPart
  <2> QED
    BY <2>3, <2>4, <1>1
<1> QED
  BY <1>5, <1>8, <1>9, <1>11, <1>12, <1>13, <1>14, <1>15, <1>16, <1>17 DEF Running, Pages, Onward

(* map_page_to_frame maps a fixed frame that nothing else leads to, or     *)
(* bring_up_ap gives up.                                                   *)
LEMMA MapPageToFrameStep ==
  ASSUME Running, MapPageToFrame
  PROVE  Running'
<1> DEFINE page == SmpPage[step]
           f == SmpFrame[step]
           r == MapTo(mem, phys, "phys", BootL4, page, f)
<1>1. /\ step \in {"map_lapic", "map_trampoline"} /\ Uses(r)
      /\ \/ r.ok /\ tlb' = Flushed(page) /\ step' = AfterSmpPage[step] /\ checks' = checks
         \/ ~ r.ok /\ Record("Smp", FALSE) /\ step' = "done" /\ tlb' = tlb
      /\ region' = region /\ bump' = bump /\ cr3' = cr3 /\ data' = data /\ spaces' = spaces /\ stacks' = stacks
      /\ heap' = heap /\ PAGE_FAULTS_DEMAND_PAGED' = PAGE_FAULTS_DEMAND_PAGED /\ running' = running
  BY SmpPagesAre DEF MapPageToFrame, Flush, bootVars
<1>2. /\ Memory /\ HeapPart /\ StackPart /\ DemandPart /\ FixedPart /\ SpacesPart /\ CorePart /\ ResultsPart /\ TlbPart
  BY DEF Running, Pages
<1>3. page \in Page /\ page[1] \in {0, 2} /\ f \in {LapicFrame, TrampolineFrame}
  BY <1>1, SmpPagesAre, PagesAre
<1>4. ~ Mapped(page) /\ ~ IsTarget(mem, f)
  BY <1>1, <1>2, SmpPagesAre DEF FixedPart, SmpSteps
<1>0. /\ step = "map_lapic" => page = <<2, 0, 0, 0>> /\ f = LapicFrame /\ AfterSmpPage[step] = "map_trampoline"
      /\ step = "map_trampoline" => page = <<0, 0, 0, 0>> /\ f = TrampolineFrame /\ AfterSmpPage[step] = "send_ipi"
  BY SmpPagesAre
<1> HIDE DEF r, page, f
<1>5. Memory' /\ MapsPage(page, f, r.ok)
  <2>1. page[1] # 1 /\ r = MapTo(mem, phys, "phys", BootL4, page, f) /\ short \in BOOLEAN
    BY <1>2, <1>3 DEF r, ResultsPart
  <2> QED
    BY <2>1, <1>1, <1>2, <1>3, <1>4, MapToFrameStep
<1>7. /\ step' \in {"map_trampoline", "send_ipi", "done"} /\ (r.ok => step' # "done") /\ (~ r.ok => step' = "done")
      /\ (step' = "map_trampoline" => step = "map_lapic") /\ (step' = "send_ipi" => step = "map_trampoline")
  BY <1>0, <1>1
<1>8. Onward
  BY <1>1, <1>7 DEF Onward, Steps, BeforeInit, BeforeSpaces, BeforeTouch, SmpSteps, DemoSteps
<1>9. /\ PrivatePart' /\ SharedPart' /\ TlbPart'
      /\ \A i : i # page[1] \/ ~ r.ok => Keeps(i)
  <2>1. tlb' \in {tlb, Flushed(page)}
    BY <1>1
  <2> QED
    BY <2>1, <1>1, <1>3, <1>5, <1>8, MappingStep
<1>10. Keeps(3) /\ Keeps(4) /\ Keeps(5) /\ (page[1] = 0 => Keeps(2)) /\ (page[1] = 2 => Keeps(0))
  <2>1. 3 # page[1] /\ 4 # page[1] /\ 5 # page[1] /\ (page[1] = 0 => 2 # page[1]) /\ (page[1] = 2 => 0 # page[1])
    BY <1>3
  <2> QED
    BY <2>1, <1>9
<1>11. HeapPart'
  BY <1>1, <1>2, <1>10, HeapKept
<1>12. StackPart'
  BY <1>1, <1>2, <1>8, <1>10, StackKept DEF Onward
<1>13. DemandPart'
  <2>1. Mapped(DemandPage)' <=> Mapped(DemandPage)
    BY <1>10, DemandKept
  <2> QED
    BY <2>1, <1>1, <1>2, <1>7 DEF DemandPart, BeforeTouch
<1>14. FixedPart'
  <2>1. step' \notin BeforeInit
    BY <1>7 DEF BeforeInit, BeforeSpaces, BeforeTouch, DemoSteps
  <2>2. CASE step' = "map_trampoline"
    <3>1. step = "map_lapic" /\ r.ok /\ page = <<2, 0, 0, 0>> /\ f = LapicFrame
      BY <2>2, <1>0, <1>7
    <3>2. Walk(mem', BootL4, <<2, 0, 0, 0>>) = LapicFrame
      BY <3>1, <1>5 DEF MapsPage
    <3>3. ~ Mapped(<<0, 0, 0, 0>>) /\ ~ IsTarget(mem, TrampolineFrame)
      BY <3>1, <1>2 DEF FixedPart
    <3>4. Keeps(0)
      BY <3>1, <1>10, PagesAre
    <3>5. Walk(mem', BootL4, <<0, 0, 0, 0>>) = Walk(mem, BootL4, <<0, 0, 0, 0>>)
      BY <3>4, PagesAre DEF Keeps
    <3>6. ~ IsTarget(mem', TrampolineFrame)
      <4>1. LapicFrame # TrampolineFrame
        BY Frames
      <4> QED
        BY <4>1, <3>1, <3>3, <1>5 DEF MapsPage
    <3> QED
      BY <2>1, <2>2, <3>2, <3>3, <3>5, <3>6 DEF FixedPart, Mapped, SmpSteps
  <2>3. CASE step' = "send_ipi"
    <3>1. step = "map_trampoline" /\ r.ok /\ page = <<0, 0, 0, 0>> /\ f = TrampolineFrame
      BY <2>3, <1>0, <1>7
    <3>2. Walk(mem', BootL4, <<0, 0, 0, 0>>) = TrampolineFrame
      BY <3>1, <1>5 DEF MapsPage
    <3>3. Walk(mem, BootL4, <<2, 0, 0, 0>>) = LapicFrame
      BY <3>1, <1>2 DEF FixedPart
    <3>4. Keeps(2)
      BY <3>1, <1>10, PagesAre
    <3>5. Walk(mem', BootL4, <<2, 0, 0, 0>>) = LapicFrame
      BY <3>3, <3>4, PagesAre DEF Keeps
    <3> QED
      BY <2>1, <2>3, <3>2, <3>5 DEF FixedPart, SmpSteps
  <2>4. CASE step' = "done"
    BY <2>1, <2>4 DEF FixedPart, SmpSteps
  <2> QED
    BY <2>2, <2>3, <2>4, <1>7
<1>15. SpacesPart'
  BY <1>1, <1>2, <1>5, <1>7, <1>8, SpacesKept DEF MapsPage, DemoSteps
<1>16. CorePart'
  BY <1>1, <1>2, <1>7, StillCore
<1>17. ResultsPart'
  <2>1. short' \in BOOLEAN /\ step' # "panic"
    BY <1>1, <1>7 DEF Uses
  <2>2. (short => short') /\ (~ r.ok => short')
    BY <1>5 DEF MapsPage
  <2>3. CASE checks' = checks
    BY <2>1, <2>2, <2>3, <1>2 DEF ResultsPart
  <2>4. CASE ~ r.ok /\ Record("Smp", FALSE)
    <3>1. \A n \in DOMAIN checks' : checks'[n] \in BOOLEAN
      BY <1>2, <2>4, RecordKeeps DEF ResultsPart
    <3> QED
      BY <2>1, <2>2, <2>4, <3>1 DEF ResultsPart
  <2> QED
    BY <2>3, <2>4, <1>1
<1> QED
  BY <1>5, <1>8, <1>9, <1>11, <1>12, <1>13, <1>14, <1>15, <1>16, <1>17 DEF Running, Pages, Onward

(* The LAPIC and the trampoline are where bring_up_ap has mapped them. *)
LEMMA SendIpiStep ==
  ASSUME Running, SendIpi
  PROVE  Running'
<1>2. /\ Memory /\ HeapPart /\ StackPart /\ DemandPart /\ FixedPart /\ SpacesPart /\ CorePart /\ ResultsPart /\ TlbPart
  BY DEF Running, Pages
<1>1. /\ step = "send_ipi" /\ Remember(<<2, 0, 0, 0>>) /\ checks' = checks /\ cr3' = cr3
      /\ region' = region /\ bump' = bump /\ heap' = heap /\ data' = data /\ spaces' = spaces
      /\ PAGE_FAULTS_DEMAND_PAGED' = PAGE_FAULTS_DEMAND_PAGED /\ stacks' = stacks /\ running' = running
      /\ phys' = phys /\ mem' = mem /\ short' = short
  BY SmpPagesAre DEF SendIpi, bootVars
<1>3. cr3 = BootL4 /\ running = "boot"
  BY <1>1, <1>2, BootRuns
<1>4. Walk(mem, cr3, <<2, 0, 0, 0>>) = LapicFrame /\ Walk(mem, cr3, <<0, 0, 0, 0>>) = TrampolineFrame
  BY <1>1, <1>2, <1>3 DEF FixedPart
<1>5. step' = "done"
  BY <1>4, SmpPagesAre DEF SendIpi
<1>6. Onward
  BY <1>1, <1>5 DEF Onward, Steps, BeforeInit, BeforeSpaces, BeforeTouch, SmpSteps, DemoSteps
<1>7. /\ Memory' /\ HeapPart' /\ StackPart' /\ FixedPart' /\ SharedPart'
      /\ Mapped(DemandPage)' <=> Mapped(DemandPage)
  BY <1>1, <1>5, <1>6, StillStep
<1>8. DemandPart'
  BY <1>1, <1>2, <1>5, <1>7 DEF DemandPart, BeforeTouch
<1>9. PrivatePart'
  BY <1>1, StillPrivate
<1>10. SpacesPart'
  BY <1>1, <1>2, <1>5, <1>6, SpacesKept DEF DemoSteps
<1>11. TlbPart'
  <2>1. Translate(<<2, 0, 0, 0>>) # None
    <3>1. LapicFrame # None
      BY Frames DEF None
    <3> QED
      BY <3>1, <1>2, <1>4, TranslateIs
  <2>2. step' \notin BeforeTouch \cup {"first_touch", "unmap"}
    BY <1>5 DEF BeforeTouch
  <2> QED
    BY <2>1, <2>2, <1>1, <1>2, RememberKeeps
<1>12. CorePart'
  BY <1>1, <1>2, <1>5, StillCore
<1>13. ResultsPart'
  BY <1>1, <1>2, <1>5 DEF ResultsPart
<1> QED
  BY <1>6, <1>7, <1>8, <1>9, <1>10, <1>11, <1>12, <1>13 DEF Running, Pages, Onward

----------------------------------------------------------------------------
(* The scheduler's steps. *)

(* Under the entries that task_e's tables share, its walks are the kernel's. *)
LEMMA SharedWalk ==
  ASSUME Memory, SharedPart, spaces["task_e"] # None, NEW q, q[1] \in {3, 4, 5}
  PROVE  Walk(mem, spaces["task_e"], q) = Walk(mem, BootL4, q)
<1>1. spaces["task_e"] \in DOMAIN mem /\ BootL4 \in DOMAIN mem
  BY DEF Memory, Framed, Rooted, Spaces
<1>2. Entry(mem, spaces["task_e"], q[1]) = Entry(mem, BootL4, q[1])
  BY <1>1 DEF SharedPart, Entry
<1> QED
  BY <1>2 DEF Walk, WalkToL1

(* The slots of the tasks. *)
LEMMA SlotsAre ==
  /\ DOMAIN SlotOf = {"a", "b", "c", "d", "e"} /\ SlotOf["e"] = 3
  /\ \A t \in DOMAIN SlotOf : SlotOf[t] \in Nat
  BY DEF SlotOf, TaskE

(* Whoever runs finds all its pages. *)
LEMMA NeedsAreMapped ==
  ASSUME Running, step = "run"
  PROVE  /\ \A q \in Needs(running) : Translate(q) # None
         /\ running = "e" => /\ Translate(PrivatePage) \in DOMAIN data
                             /\ data[Translate(PrivatePage)] = "private"
<1>1. /\ Memory /\ HeapPart /\ StackPart /\ SpacesPart /\ CorePart /\ TlbPart /\ SharedPart /\ PrivatePart
  BY DEF Running, Pages
<1>2. running \in Tasks /\ cr3 = DesiredL4Frame(running)
  BY <1>1 DEF CorePart
<1>3. \A q : Translate(q) = Walk(mem, cr3, q)
  BY <1>1, TranslateIs
<1>4. stacks.slots \in Nat
  BY <1>1 DEF StackPart
<1>5. CASE running = "boot"
  <2>1. cr3 = BootL4
    BY <1>2, <1>5 DEF DesiredL4Frame
  <2>2. heap \in Nat
    BY <1>1, Frames DEF HeapPart
  <2>3. \A i \in 0 .. heap - 1 : Walk(mem, BootL4, HeapPage(i)) # None
    BY <2>2, <1>1 DEF HeapPart, Mapped
  <2> QED
    BY <2>1, <2>3, <1>3, <1>5 DEF Needs
<1>6. CASE running # "boot"
  <2>1. running \in DOMAIN SlotOf /\ SlotOf[running] < stacks.slots
    BY <1>2, <1>6 DEF Tasks
  <2>2. SlotOf[running] \in 0 .. stacks.slots - 1
    BY <2>1, <1>4, SlotsAre
  <2>3. ASSUME NEW i \in 0 .. StackPages - 1 PROVE Walk(mem, BootL4, StackPage(SlotOf[running], i)) # None
    BY <2>2, <1>1 DEF StackPart, Mapped
  <2>4. ASSUME running = "e"
        PROVE  spaces["task_e"] # None /\ cr3 = spaces["task_e"]
    BY <2>1, <2>4, <1>1, <1>2, <1>4, SlotsAre DEF SpacesPart, DesiredL4Frame
  <2>5. ASSUME NEW i \in 0 .. StackPages - 1 PROVE Walk(mem, cr3, StackPage(SlotOf[running], i)) # None
    <3>1. CASE running = "e"
      <4>0. i \in Nat /\ SlotOf[running] \in Nat
        BY <2>1, SlotsAre
      <4>1. StackPage(SlotOf[running], i)[1] = 3
        BY <4>0, StackIndex
      <4> QED
        BY <4>1, <2>3, <2>4, <3>1, <1>1, SharedWalk
    <3>2. CASE running # "e"
      BY <3>2, <2>3, <1>2 DEF DesiredL4Frame
    <3> QED
      BY <3>1, <3>2
  <2>6. running = "e" => /\ Walk(mem, cr3, PrivatePage) # None
                         /\ Walk(mem, cr3, PrivatePage) \in DOMAIN data
                         /\ data[Walk(mem, cr3, PrivatePage)] = "private"
    BY <2>4, <1>1 DEF PrivatePart, Spaces
  <2>7. ASSUME NEW q \in Needs(running) PROVE Walk(mem, cr3, q) # None
    <3>1. (\E i \in 0 .. StackPages - 1 : q = StackPage(SlotOf[running], i)) \/ (running = "e" /\ q = PrivatePage)
      BY <2>7, <1>6 DEF Needs
    <3> QED
      BY <3>1, <2>5, <2>6
  <2> QED
    BY <2>6, <2>7, <1>3
<1> QED
  BY <1>5, <1>6

(* Whoever runs never faults, on whichever tables. *)
LEMMA RunsStep ==
  ASSUME Running, Runs
  PROVE  Running'
<1>1. /\ step = "run" /\ cr3' = cr3
      /\ region' = region /\ bump' = bump /\ heap' = heap /\ data' = data /\ spaces' = spaces
      /\ PAGE_FAULTS_DEMAND_PAGED' = PAGE_FAULTS_DEMAND_PAGED /\ stacks' = stacks /\ running' = running
      /\ phys' = phys /\ mem' = mem /\ short' = short
  BY DEF Runs, bootVars
<1>2. /\ Memory /\ HeapPart /\ StackPart /\ DemandPart /\ FixedPart /\ SpacesPart /\ CorePart /\ ResultsPart /\ TlbPart
  BY DEF Running, Pages
<1>3. /\ \A q \in Needs(running) : Translate(q) # None
      /\ running = "e" => /\ Translate(PrivatePage) \in DOMAIN data
                          /\ data[Translate(PrivatePage)] = "private"
  BY <1>1, NeedsAreMapped
<1>4. step' = step /\ tlb' = [q \in DOMAIN tlb \cup Needs(running) |-> Translate(q)]
  BY <1>3 DEF Runs
<1>5. Onward
  BY <1>1, <1>4 DEF Onward, Steps, BeforeInit, BeforeSpaces, BeforeTouch, SmpSteps, DemoSteps
<1>6. /\ Memory' /\ HeapPart' /\ StackPart' /\ FixedPart' /\ SharedPart'
      /\ Mapped(DemandPage)' <=> Mapped(DemandPage)
  BY <1>1, <1>4, <1>5, StillStep
<1>7. DemandPart'
  BY <1>1, <1>2, <1>4, <1>6 DEF DemandPart, BeforeTouch
<1>8. PrivatePart'
  BY <1>1, StillPrivate
<1>9. SpacesPart'
  BY <1>1, <1>2, <1>4, <1>5, SpacesKept DEF DemoSteps
<1>10. TlbPart'
  <2>1. ASSUME NEW q \in DOMAIN tlb' PROVE tlb'[q] # None /\ tlb'[q] = Walk(mem', cr3', q)
    <3>1. tlb'[q] = Translate(q) /\ (q \in DOMAIN tlb \/ q \in Needs(running))
      BY <1>4
    <3>2. Translate(q) = Walk(mem, cr3, q)
      BY <1>2, TranslateIs
    <3>3. q \in DOMAIN tlb => Walk(mem, cr3, q) # None
      BY <1>2 DEF TlbPart
    <3> QED
      BY <3>1, <3>2, <3>3, <1>1, <1>3
  <2> QED
    BY <2>1, <1>1, <1>4 DEF TlbPart, BeforeTouch
<1>11. CorePart'
  <2>1. running \in Tasks'
    BY <1>1, <1>2 DEF CorePart, Tasks
  <2> QED
    BY <2>1, <1>1, <1>2, <1>4, CoreKept
<1>12. ResultsPart'
  <2>1. CASE running # "e"
    <3>1. checks' = checks
      BY <2>1 DEF Runs
    <3> QED
      BY <3>1, <1>1, <1>2, <1>4 DEF ResultsPart
  <2>2. CASE running = "e"
    <3> DEFINE ok == Translate(PrivatePage) \in DOMAIN data /\ data[Translate(PrivatePage)] = "private"
    <3>1. ok /\ ok \in BOOLEAN
      BY <2>2, <1>3
    <3>2. Record("TaskAddressSpace", ok)
      BY <2>2 DEF Runs
    <3> HIDE DEF ok
    <3>3. /\ \A x \in DOMAIN checks' : checks'[x] \in BOOLEAN
          /\ (\A x \in DOMAIN checks : checks[x]) => \A x \in DOMAIN checks' : checks'[x]
      BY <3>1, <3>2, <1>2, RecordKeeps DEF ResultsPart
    <3> QED
      BY <3>3, <1>1, <1>2, <1>4 DEF ResultsPart
  <2> QED
    BY <2>1, <2>2
<1> QED
  BY <1>5, <1>6, <1>7, <1>8, <1>9, <1>10, <1>11, <1>12 DEF Running, Pages, Onward

(* The arithmetic of the slots: where the next page lies. *)
LEMMA NextStackPage ==
  ASSUME NEW slots \in Nat, NEW pages \in Nat, pages < StackPages, NEW k, k = slots * (StackPages + 1) + 1 + pages
  PROVE  /\ k \in Nat
         /\ slots * (StackPages + 1) + 1 + (pages + 1) = k + 1
         /\ pages + 1 = StackPages => (slots + 1) * (StackPages + 1) + 1 + 0 = k + 2
<1>1. StackPages \in Nat
  BY Frames
<1> DEFINE b == slots * (StackPages + 1)
<1>2. b \in Nat
  BY <1>1
<1>3. (slots + 1) * (StackPages + 1) = b + StackPages + 1
  BY <1>1
<1>4. k = b + 1 + pages
  OBVIOUS
<1> HIDE DEF b
<1>5. k \in Nat /\ b + 1 + (pages + 1) = k + 1 /\ (pages + 1 = StackPages => (b + StackPages + 1) + 1 + 0 = k + 2)
  BY <1>1, <1>2, <1>4
<1> QED
  BY <1>3, <1>5 DEF b

(* The stacks after the next page is mapped. *)
LEMMA StackGrows ==
  ASSUME StackPart, stacks.slots < MaxSlots, NEW f, MapsPage(StackPage(stacks.slots, stacks.pages), f, TRUE),
         stacks' = IF stacks.pages + 1 < StackPages THEN [stacks EXCEPT !.pages = @ + 1]
                   ELSE [slots |-> stacks.slots + 1, pages |-> 0],
         step' \notin BeforeInit
  PROVE  StackPart'
<1> DEFINE s == stacks.slots
           p == stacks.pages
           k == s * (StackPages + 1) + 1 + p
<1>1. /\ stacks \in [slots : 0 .. MaxSlots, pages : 0 .. StackPages - 1]
      /\ \A j \in Nat : j >= k => Walk(mem, BootL4, <<3, 0, 0, j>>) = None
      /\ \A slot \in 0 .. s - 1 : \A i \in 0 .. StackPages - 1 : Walk(mem, BootL4, StackPage(slot, i)) # None
      /\ \A i \in 0 .. p - 1 : Walk(mem, BootL4, StackPage(s, i)) # None
  BY DEF StackPart, Mapped
<1>2. s \in Nat /\ p \in Nat /\ p < StackPages /\ StackPages \in Nat /\ MaxSlots \in Nat /\ s < MaxSlots
  BY <1>1, Frames
<1>3. /\ k \in Nat
      /\ s * (StackPages + 1) + 1 + (p + 1) = k + 1
      /\ p + 1 = StackPages => (s + 1) * (StackPages + 1) + 1 + 0 = k + 2
  <2> HIDE DEF s, p
  <2> QED
    BY <1>2, NextStackPage
<1>4. StackPage(s, p) = <<3, 0, 0, k>>
  BY <1>2, StackIndex
<1>5. f # None /\ Walk(mem', BootL4, <<3, 0, 0, k>>) = f
  BY <1>4 DEF MapsPage
<1>6. ASSUME NEW j \in Nat, j # k PROVE Walk(mem', BootL4, <<3, 0, 0, j>>) = Walk(mem, BootL4, <<3, 0, 0, j>>)
  <2> HIDE DEF k
  <2>1. <<3, 0, 0, j>> \in Page /\ <<3, 0, 0, j>> # <<3, 0, 0, k>>
    BY <1>6, PagesAre
  <2> QED
    BY <2>1, <1>4 DEF MapsPage
<1>7. ASSUME NEW slot \in Nat, NEW i \in Nat, Walk(mem, BootL4, StackPage(slot, i)) # None
      PROVE  Walk(mem', BootL4, StackPage(slot, i)) # None
  <2> DEFINE j == slot * (StackPages + 1) + 1 + i
  <2>1. j \in Nat /\ StackPage(slot, i) = <<3, 0, 0, j>>
    BY StackIndex
  <2> HIDE DEF j, k
  <2> QED
    BY <2>1, <1>5, <1>6, <1>7
<1>8. ASSUME NEW slot \in 0 .. s - 1, NEW i \in 0 .. StackPages - 1 PROVE Walk(mem', BootL4, StackPage(slot, i)) # None
  <2>1. slot \in Nat /\ i \in Nat
    BY <1>2
  <2> QED
    BY <2>1, <1>1, <1>7
<1>9. ASSUME NEW i \in 0 .. p PROVE Walk(mem', BootL4, StackPage(s, i)) # None
  <2>1. i \in Nat /\ (i \in 0 .. p - 1 \/ i = p)
    BY <1>2
  <2>2. CASE i \in 0 .. p - 1
    BY <2>1, <2>2, <1>1, <1>2, <1>7
  <2>3. CASE i = p
    BY <2>3, <1>4, <1>5
  <2> QED
    BY <2>1, <2>2, <2>3
<1>10. ASSUME NEW j \in Nat, j >= k + 1 PROVE Walk(mem', BootL4, <<3, 0, 0, j>>) = None
  <2>1. j # k /\ j >= k
    BY <1>3, <1>10
  <2> QED
    BY <2>1, <1>1, <1>6
<1>11. CASE p + 1 < StackPages
  <2>1. stacks'.slots = s /\ stacks'.pages = p + 1 /\ stacks' \in [slots : 0 .. MaxSlots, pages : 0 .. StackPages - 1]
    BY <1>1, <1>2, <1>11
  <2>2. \A j \in Nat : j >= stacks'.slots * (StackPages + 1) + 1 + stacks'.pages => Walk(mem', BootL4, <<3, 0, 0, j>>) = None
    <3> HIDE DEF s, p, k
    <3> QED
      BY <2>1, <1>3, <1>10
  <2>3. \A slot \in 0 .. stacks'.slots - 1 : \A i \in 0 .. StackPages - 1 : Walk(mem', BootL4, StackPage(slot, i)) # None
    BY <2>1, <1>8
  <2>4. \A i \in 0 .. stacks'.pages - 1 : Walk(mem', BootL4, StackPage(stacks'.slots, i)) # None
    <3>1. stacks'.pages - 1 = p
      BY <2>1, <1>2
    <3> QED
      BY <3>1, <2>1, <1>9
  <2> QED
    BY <2>1, <2>2, <2>3, <2>4 DEF StackPart, Mapped
<1>12. CASE ~ (p + 1 < StackPages)
  <2>0. p + 1 = StackPages
    BY <1>2, <1>12
  <2>1. stacks'.slots = s + 1 /\ stacks'.pages = 0 /\ stacks' \in [slots : 0 .. MaxSlots, pages : 0 .. StackPages - 1]
    BY <1>1, <1>2, <1>12
  <2>2. \A j \in Nat : j >= stacks'.slots * (StackPages + 1) + 1 + stacks'.pages => Walk(mem', BootL4, <<3, 0, 0, j>>) = None
    <3>1. stacks'.slots * (StackPages + 1) + 1 + stacks'.pages = k + 2
      <4> HIDE DEF s, p, k
      <4> QED
        BY <2>0, <2>1, <1>3
    <3> HIDE DEF k
    <3>2. \A j \in Nat : j >= k + 2 => j >= k + 1
      BY <1>3
    <3> QED
      BY <3>1, <3>2, <1>10
  <2>3. ASSUME NEW slot \in 0 .. stacks'.slots - 1, NEW i \in 0 .. StackPages - 1 PROVE Walk(mem', BootL4, StackPage(slot, i)) # None
    <3>1. (slot \in 0 .. s - 1 \/ slot = s) /\ i \in 0 .. p
      BY <2>0, <2>1, <1>2
    <3> QED
      BY <3>1, <1>8, <1>9
  <2>4. \A i \in 0 .. stacks'.pages - 1 : Walk(mem', BootL4, StackPage(stacks'.slots, i)) # None
    BY <2>1
  <2> QED
    BY <2>1, <2>2, <2>3, <2>4 DEF StackPart, Mapped
<1> QED
  BY <1>11, <1>12

(* ensure_slot_mapped maps the next page of a stack, or panics. *)
LEMMA EnsureSlotStep ==
  ASSUME Running, EnsureSlotMapped
  PROVE  Running'
<1> DEFINE page == StackPage(stacks.slots, stacks.pages)
           r == MapPage(page)
<1>1. /\ \/ step = "init" /\ stacks.slots <= 3 /\ ~ SpaceIsDue
         \/ step = "run" /\ stacks.slots < MaxSlots
      /\ Uses(r)
      /\ \/ /\ r.ok /\ tlb' = Flushed(page) /\ step' = step
            /\ stacks' = IF stacks.pages + 1 < StackPages THEN [stacks EXCEPT !.pages = @ + 1]
                         ELSE [slots |-> stacks.slots + 1, pages |-> 0]
         \/ ~ r.ok /\ step' = "panic" /\ stacks' = stacks /\ tlb' = tlb
      /\ region' = region /\ bump' = bump /\ cr3' = cr3 /\ data' = data /\ spaces' = spaces /\ checks' = checks
      /\ heap' = heap /\ PAGE_FAULTS_DEMAND_PAGED' = PAGE_FAULTS_DEMAND_PAGED /\ running' = running
  BY DEF EnsureSlotMapped, Flush, TaskE
<1>2. /\ Memory /\ HeapPart /\ StackPart /\ DemandPart /\ FixedPart /\ SpacesPart /\ CorePart /\ ResultsPart /\ TlbPart
  BY DEF Running, Pages
<1>3. /\ stacks.slots \in Nat /\ stacks.pages \in Nat /\ stacks.slots < MaxSlots /\ StackPages \in Nat
      /\ stacks \in [slots : 0 .. MaxSlots, pages : 0 .. StackPages - 1]
  BY <1>1, <1>2, Frames DEF StackPart
<1>4. page \in Page /\ page[1] = 3 /\ ~ Mapped(page)
  <2> DEFINE k == stacks.slots * (StackPages + 1) + 1 + stacks.pages
  <2>1. k \in Nat /\ page = <<3, 0, 0, k>> /\ page \in Page /\ page[1] = 3
    BY <1>3, StackIndex
  <2>2. \A j \in Nat : j >= k => ~ Mapped(<<3, 0, 0, j>>)
    BY <1>2 DEF StackPart
  <2> HIDE DEF k
  <2> QED
    BY <2>1, <2>2
<1> HIDE DEF r, page
<1>5. Memory' /\ \E f : f \notin {LapicFrame, TrampolineFrame} /\ MapsPage(page, f, r.ok)
  <2>1. page[1] # 1 /\ r = MapPage(page)
    BY <1>4 DEF r
  <2> QED
    BY <2>1, <1>1, <1>2, <1>4, MapPageStep DEF ResultsPart
<1>6. PICK f : f \notin {LapicFrame, TrampolineFrame} /\ MapsPage(page, f, r.ok)
  BY <1>5
<1>7. step' \in {"init", "run", "panic"} /\ (step' # "panic" => step' = step) /\ step \in {"init", "run"}
  BY <1>1
<1>8. Onward
  BY <1>7 DEF Onward, Steps, BeforeInit, BeforeSpaces, BeforeTouch, SmpSteps, DemoSteps
<1>9. /\ PrivatePart' /\ SharedPart' /\ TlbPart'
      /\ \A i : i # 3 \/ ~ r.ok => Keeps(i)
      /\ \A x \in {LapicFrame, TrampolineFrame} : IsTarget(mem', x) => IsTarget(mem, x)
  <2>1. tlb' \in {tlb, Flushed(page)}
    BY <1>1
  <2> QED
    BY <2>1, <1>1, <1>4, <1>6, <1>8, MappingStep
<1>10. HeapPart'
  BY <1>1, <1>2, <1>7, <1>9, HeapKept
<1>11. StackPart'
  <2>0. r.ok \in BOOLEAN /\ step' \notin BeforeInit
    BY <1>6, <1>7 DEF MapsPage, BeforeInit, BeforeSpaces, BeforeTouch, DemoSteps
  <2>1. CASE r.ok
    <3>1. MapsPage(page, f, TRUE)
      <4>1. r.ok = TRUE
        BY <2>0, <2>1
      <4> QED
        BY <4>1, <1>6
    <3>2. stacks' = IF stacks.pages + 1 < StackPages THEN [stacks EXCEPT !.pages = @ + 1]
                    ELSE [slots |-> stacks.slots + 1, pages |-> 0]
      BY <2>1, <1>1
    <3> QED
      BY <2>0, <3>1, <3>2, <1>2, <1>3, StackGrows DEF page
  <2>2. CASE ~ r.ok
    BY <2>2, <1>1, <1>2, <1>8, <1>9, StackKept DEF Onward
  <2> QED
    BY <2>1, <2>2
<1>12. DemandPart'
  <2>1. Mapped(DemandPage)' <=> Mapped(DemandPage)
    BY <1>9, DemandKept
  <2> QED
    BY <2>1, <1>1, <1>2, <1>7 DEF DemandPart, BeforeTouch
<1>13. FixedPart'
  BY <1>1, <1>2, <1>7, <1>8, <1>9, FixedKept DEF Onward
<1>14. stacks'.slots \in Nat /\ stacks.slots <= stacks'.slots /\
       (stacks'.slots = stacks.slots \/ (stacks'.slots = stacks.slots + 1 /\ stacks'.pages = 0))
  BY <1>1, <1>3
<1>15. SpacesPart'
  <2>1. spaces["task_e"] = None /\ step = "run" => ~ r.ok
    <3>1. spaces["task_e"] = None /\ step = "run" => phys = {}
      BY <1>2 DEF SpacesPart
    <3> QED
      BY <3>1 DEF r, MapPage, MapPageWith
  <2>2. spaces["task_e"] = None => stacks'.slots < 3 \/ (stacks'.slots = 3 /\ stacks'.pages = 0)
    <3> SUFFICES ASSUME spaces["task_e"] = None PROVE stacks'.slots < 3 \/ (stacks'.slots = 3 /\ stacks'.pages = 0)
      OBVIOUS
    <3>1. stacks.slots < 3 \/ (stacks.slots = 3 /\ stacks.pages = 0)
      BY <1>2 DEF SpacesPart
    <3>2. CASE ~ r.ok
      BY <3>1, <3>2, <1>1
    <3>3. CASE r.ok
      <4>1. step = "init" /\ stacks.slots # 3
        BY <3>3, <2>1, <1>1 DEF SpaceIsDue, FirstTasks
      <4>2. stacks.slots < 3
        BY <4>1, <3>1
      <4> QED
        BY <4>2, <1>3, <1>14
    <3> QED
      BY <3>2, <3>3
  <2>3. phys = {} => phys' = {}
    BY <1>6 DEF MapsPage
  <2>4. step' = "run" => step = "run"
    BY <1>7
  <2>5. step' \notin BeforeSpaces /\ step' \notin DemoSteps /\ step' \notin BeforeInit
    BY <1>7 DEF BeforeInit, BeforeSpaces, BeforeTouch, DemoSteps
  <2> QED
    BY <2>2, <2>3, <2>4, <2>5, <1>1, <1>2 DEF SpacesPart
<1>16. CorePart'
  <2>1. running \in Tasks
    BY <1>2 DEF CorePart
  <2>2. \A t \in DOMAIN SlotOf : SlotOf[t] < stacks.slots => SlotOf[t] < stacks'.slots
    BY <1>3, <1>14, SlotsAre
  <2>3. running \in Tasks'
    BY <2>1, <2>2 DEF Tasks
  <2>4. /\ step' \notin {"run", "panic"} => step \notin {"run", "panic"}
        /\ step' \in {"read_private", "restore"} <=> step \in {"read_private", "restore"}
    BY <1>7
  <2> QED
    BY <2>3, <2>4, <1>1, <1>2, CoreKept
<1>17. ResultsPart'
  <2>1. short' \in BOOLEAN
    BY <1>1 DEF Uses
  <2>2. (short => short') /\ (~ r.ok => short')
    BY <1>6 DEF MapsPage
  <2> QED
    BY <2>1, <2>2, <1>1, <1>2 DEF ResultsPart
<1> QED
  BY <1>5, <1>8, <1>9, <1>10, <1>11, <1>12, <1>13, <1>15, <1>16, <1>17 DEF Running, Pages, Onward

----------------------------------------------------------------------------
(* The theorems. *)

(* During the bootstrap only init_bootstrap and store_globals can happen. *)
LEMMA BootstrappingStep ==
  ASSUME Bootstrapping, Next
  PROVE  PagingInv'
<1>1. step = "init_bootstrap"
  BY DEF Bootstrapping
<1>2. InitBootstrap \/ StoreGlobals
  BY <1>1, TouchesAre, UserPagesAre, SmpPagesAre
  DEF Next, ExtendWithRealPages, PhysRoundTrip, HeapHoldsData, page_fault_handler, TouchDemandPage, UnmapPage, Unmaps,
      DemoBuildsSpace, DemoSwitchesTo, DemoReads, DemoRestores, MapUserPage, EnsureSlotMapped, InitBuildsSpace, SpaceIsDue,
      InitEnds, Dispatch, Runs, BringUpStarts, MapPageToFrame, SendIpi
<1> QED
  BY <1>2, InitBootstrapStep, StoreGlobalsStep DEF PagingInv

(* After it every step of kernel_main and of the scheduler keeps the       *)
(* invariant.                                                              *)
LEMMA RunningStep ==
  ASSUME Running, Next
  PROVE  Running'
<1>1. step # "init_bootstrap"
  BY DEF Running, Pages, Steps, BeforeInit, BeforeSpaces, BeforeTouch, SmpSteps, DemoSteps
<1>2. ~ InitBootstrap /\ ~ StoreGlobals
  BY <1>1 DEF InitBootstrap, StoreGlobals
<1>3. CASE ExtendWithRealPages
  BY <1>3, ExtendStep
<1>4. CASE PhysRoundTrip
  BY <1>4, PhysRoundTripStep
<1>5. CASE HeapHoldsData
  BY <1>5, HeapHoldsDataStep
<1>6. CASE page_fault_handler
  BY <1>6, PageFaultStep
<1>7. CASE TouchDemandPage
  BY <1>7, TouchStep
<1>8. CASE UnmapPage
  BY <1>8, UnmapPageStep
<1>9. CASE DemoBuildsSpace
  BY <1>9, DemoBuildsStep
<1>10. CASE DemoSwitchesTo
  BY <1>10, DemoSwitchesStep
<1>11. CASE DemoReads
  BY <1>11, DemoReadsStep
<1>12. CASE DemoRestores
  BY <1>12, DemoRestoresStep
<1>13. CASE MapUserPage
  BY <1>13, MapUserPageStep
<1>14. CASE EnsureSlotMapped
  BY <1>14, EnsureSlotStep
<1>15. CASE InitBuildsSpace
  BY <1>15, InitBuildsStep
<1>16. CASE InitEnds
  BY <1>16, InitEndsStep
<1>17. CASE \E t \in Tasks : Dispatch(t)
  BY <1>17, DispatchStep
<1>18. CASE Runs
  BY <1>18, RunsStep
<1>19. CASE BringUpStarts
  BY <1>19, BringUpStartsStep
<1>20. CASE MapPageToFrame
  BY <1>20, MapPageToFrameStep
<1>21. CASE SendIpi
  BY <1>21, SendIpiStep
<1> QED
  BY <1>2, <1>3, <1>4, <1>5, <1>6, <1>7, <1>8, <1>9, <1>10, <1>11, <1>12, <1>13, <1>14, <1>15, <1>16, <1>17, <1>18,
     <1>19, <1>20, <1>21 DEF Next

(* A stutter keeps the invariant. *)
LEMMA PagingStutters ==
  ASSUME PagingInv, UNCHANGED vars
  PROVE  PagingInv'
<1>1. /\ region' = region /\ step' = step /\ bump' = bump /\ heap' = heap /\ phys' = phys /\ mem' = mem /\ cr3' = cr3
      /\ tlb' = tlb /\ data' = data /\ PAGE_FAULTS_DEMAND_PAGED' = PAGE_FAULTS_DEMAND_PAGED /\ checks' = checks
      /\ spaces' = spaces /\ stacks' = stacks /\ running' = running /\ short' = short
  BY DEF vars
<1>2. CASE Bootstrapping
  BY <1>1, <1>2 DEF PagingInv, Bootstrapping
<1>3. CASE Running
  <2>1. PICK lvl : Rooted(lvl)
    BY <1>3 DEF Running, Memory
  <2>2. Rooted(lvl)'
    BY <1>1, <2>1 DEF Rooted
  <2>3. Framed' /\ HeapInPlace' /\ Kept'
    BY <1>1, <1>3, KeptStays DEF Running, Memory, Framed, HeapInPlace
  <2>4. Memory'
    BY <2>2, <2>3 DEF Memory
  <2>5. step' \in Steps /\ HeapPart' /\ DemandPart' /\ FixedPart'
    BY <1>1, <1>3, KeptStays DEF Running, Pages, HeapPart, DemandPart, FixedPart, Mapped
  <2>6. StackPart'
    BY <1>1, <1>3 DEF Running, Pages, StackPart, Mapped
  <2>7. SpacesPart' /\ PrivatePart' /\ SharedPart'
    BY <1>1, <1>3 DEF Running, SpacesPart, PrivatePart, SharedPart
  <2>8. CorePart' /\ TlbPart' /\ ResultsPart'
    BY <1>1, <1>3 DEF Running, CorePart, TlbPart, ResultsPart, Tasks, DesiredL4Frame
  <2> QED
    BY <2>4, <2>5, <2>6, <2>7, <2>8 DEF PagingInv, Running, Pages
<1> QED
  BY <1>2, <1>3 DEF PagingInv

(* The inductive invariant of the kernel's memory: from boot to the last   *)
(* step of bring_up_ap the tables form a forest of four levels over frames *)
(* that PHYS does not hold, with the pages mapped that the step calls for. *)
THEOREM PagingInvariant == Spec => []PagingInv
<1>1. Init => PagingInv
  BY InitBootstraps DEF PagingInv
<1>2. PagingInv /\ [Next]_vars => PagingInv'
  BY BootstrappingStep, RunningStep, PagingStutters DEF PagingInv
<1> QED
  BY <1>1, <1>2, PTL DEF Spec

----------------------------------------------------------------------------
(* What the invariant says of a state. *)
LEMMA BootstrapTables ==
  ASSUME Bootstrapping
  PROVE  /\ region \in RegionSizes /\ region \in Nat /\ region > BootstrapPages + 4 /\ region <= BootL4 /\ BootL4 \in Nat
         /\ BootstrapPages \in Nat /\ heap \in Nat /\ heap <= BootstrapPages /\ bump \in 0 .. region
         /\ DOMAIN mem \subseteq {BootL4, 1, 2, 3} /\ BootL4 \in DOMAIN mem /\ 1 \notin DOMAIN mem[BootL4]
         /\ \A t \in DOMAIN mem : \A i \in DOMAIN mem[t] : mem[t][i] \in 0 .. bump - 1
<1>1. region \in RegionSizes /\ region \in Nat /\ region > BootstrapPages + 4 /\ region <= BootL4 /\ BootL4 \in Nat
      /\ BootstrapPages \in Nat /\ BootstrapPages >= 4
  BY Frames DEF Bootstrapping
<1>2. heap \in Nat /\ heap <= BootstrapPages /\ bump = IF heap = 0 THEN 0 ELSE heap + 3
  BY <1>1 DEF Bootstrapping
<1>3. bump \in 0 .. region
  BY <1>1, <1>2
<1>4. CASE heap = 0
  <2>1. DOMAIN mem = {BootL4} /\ DOMAIN mem[BootL4] = {}
    BY <1>4 DEF Bootstrapping
  <2> QED
    BY <2>1, <1>1, <1>2, <1>3
<1>5. CASE heap > 0
  <2>1. HeapTables(mem, heap)
    BY <1>5 DEF Bootstrapping
  <2>2. bump = heap + 3
    BY <1>2, <1>5
  <2>3. /\ DOMAIN mem = {BootL4, 1, 2, 3} /\ DOMAIN mem[BootL4] = {4} /\ mem[BootL4][4] = 1
        /\ DOMAIN mem[1] = {0} /\ mem[1][0] = 2 /\ DOMAIN mem[2] = {0} /\ mem[2][0] = 3
    BY <2>1 DEF HeapTables, HeapL1
  <2>4. ASSUME NEW i \in DOMAIN mem[3] PROVE mem[3][i] \in 0 .. bump - 1
    <3>1. i \in 0 .. heap - 1 /\ mem[3][i] = IF i = 0 THEN 0 ELSE i + 3
      BY <2>1 DEF HeapTables, HeapL1
    <3> QED
      BY <3>1, <2>2, <1>2
  <2>5. 1 \in 0 .. bump - 1 /\ 2 \in 0 .. bump - 1 /\ 3 \in 0 .. bump - 1
    BY <2>2, <1>2, <1>5
  <2>6. ASSUME NEW t \in DOMAIN mem, NEW i \in DOMAIN mem[t] PROVE mem[t][i] \in 0 .. bump - 1
    <3>1. CASE t = BootL4
      BY <3>1, <2>3, <2>5
    <3>2. CASE t = 1
      BY <3>2, <2>3, <2>5
    <3>3. CASE t = 2
      BY <3>3, <2>3, <2>5
    <3>4. CASE t = 3
      BY <3>4, <2>4
    <3> QED
      BY <2>3, <3>1, <3>2, <3>3, <3>4
  <2> QED
    BY <2>3, <2>6, <1>1, <1>2, <1>3
<1> QED
  BY <1>2, <1>4, <1>5

(* The invariant gives the types. *)
LEMMA TypeFollows == PagingInv => TypeOK
<1>1. ASSUME Bootstrapping PROVE TypeOK
  <2>1. /\ region \in RegionSizes /\ region \in Nat /\ region > BootstrapPages + 4 /\ BootL4 \in Nat
        /\ BootstrapPages \in Nat /\ heap \in Nat /\ heap <= BootstrapPages /\ bump \in 0 .. region
        /\ DOMAIN mem \subseteq {BootL4, 1, 2, 3} /\ BootL4 \in DOMAIN mem
        /\ \A t \in DOMAIN mem : \A i \in DOMAIN mem[t] : mem[t][i] \in 0 .. bump - 1
    BY <1>1, BootstrapTables
  <2>2. RealPages \in Nat /\ StackPages \in Nat /\ StackPages > 0 /\ MaxSlots \in Nat /\ BootstrapPages >= 4
    BY Frames
  <2>3. /\ phys = {} /\ cr3 = BootL4 /\ PAGE_FAULTS_DEMAND_PAGED = 0 /\ DOMAIN checks = {}
        /\ stacks = [slots |-> 0, pages |-> 0] /\ running = "boot" /\ short = FALSE
    BY <1>1 DEF Bootstrapping
  <2>4. phys \subseteq 0 .. region - 1 /\ heap \in 0 .. BootstrapPages + RealPages /\ PAGE_FAULTS_DEMAND_PAGED \in 0 .. 2
    BY <2>1, <2>2, <2>3
  <2>5. DOMAIN mem \subseteq 0 .. region - 1 \cup {BootL4}
    BY <2>1, <2>2
  <2>6. 0 .. bump - 1 \subseteq 0 .. region - 1
    BY <2>1
  <2>7. Targets \subseteq 0 .. region - 1 \cup {LapicFrame, TrampolineFrame}
    BY <2>1, <2>6 DEF Targets
  <2>8. cr3 \in L4Tables /\ running \in Tasks
    BY <2>3 DEF L4Tables, Tasks
  <2>9. stacks.slots \in 0 .. MaxSlots /\ stacks.pages \in 0 .. StackPages - 1
    BY <2>2, <2>3
  <2> QED
    BY <2>1, <2>3, <2>4, <2>5, <2>7, <2>8, <2>9 DEF TypeOK
<1>2. ASSUME Running PROVE TypeOK
  <2>1. /\ Memory /\ Framed /\ HeapPart /\ StackPart /\ DemandPart /\ SpacesPart /\ CorePart /\ ResultsPart /\ step \in Steps
    BY <1>2 DEF Running, Pages, Memory
  <2>2. /\ region \in RegionSizes /\ region \in Nat /\ region > BootstrapPages + 4 /\ bump = BootstrapPages + 3
        /\ BootstrapPages \in Nat /\ phys \subseteq BootstrapPages .. region - 1 /\ RealPages \in Nat
    BY <2>1, Sizes, Frames
  <2>3. bump \in 0 .. region /\ phys \subseteq 0 .. region - 1
    BY <2>2
  <2>4. heap \in 0 .. BootstrapPages + RealPages
    BY <2>1, <2>2 DEF HeapPart
  <2>5. Targets \subseteq 0 .. region - 1 \cup {LapicFrame, TrampolineFrame}
    BY <2>1 DEF Targets, Framed
  <2>6. cr3 \in L4Tables
    <3>1. CASE step \in {"read_private", "restore"}
      <4>1. cr3 = spaces["demo"] /\ spaces["demo"] # None
        BY <3>1, <2>1 DEF CorePart, SpacesPart, DemoSteps
      <4> QED
        BY <4>1 DEF L4Tables, Spaces
    <3>2. CASE step \notin {"read_private", "restore"} /\ running = "e"
      <4>1. stacks.slots \in Nat /\ 3 < stacks.slots
        BY <3>2, <2>1, SlotsAre DEF CorePart, Tasks, StackPart
      <4>2. cr3 = spaces["task_e"] /\ spaces["task_e"] # None
        BY <4>1, <3>2, <2>1 DEF CorePart, SpacesPart, DesiredL4Frame
      <4> QED
        BY <4>2 DEF L4Tables, Spaces
    <3>3. CASE step \notin {"read_private", "restore"} /\ running # "e"
      BY <3>3, <2>1 DEF CorePart, DesiredL4Frame, L4Tables
    <3> QED
      BY <3>1, <3>2, <3>3
  <2> QED
    BY <2>1, <2>2, <2>3, <2>4, <2>5, <2>6 DEF TypeOK, Framed, DemandPart, StackPart, CorePart, ResultsPart
<1> QED
  BY <1>1, <1>2 DEF PagingInv

(* Tables reached from the L4 tables, and the level each stands at. *)
LEMMA LiveTablesAre ==
  ASSUME Memory, NEW lvl, Rooted(lvl)
  PROVE  /\ L4Tables \subseteq DOMAIN mem /\ \A t \in L4Tables : lvl[t] = 4
         /\ LiveTables \subseteq DOMAIN mem
         /\ \A t \in LiveTables : lvl[t] = 4 => t \in L4Tables
<1>1. Forest(mem, phys, lvl) /\ lvl[BootL4] = 4 /\ BootL4 \in DOMAIN mem
  BY DEF Rooted, Memory, Framed
<1>2. L4Tables \subseteq DOMAIN mem /\ \A t \in L4Tables : lvl[t] = 4
  BY <1>1 DEF L4Tables, Rooted
<1>3. ASSUME NEW S, S \subseteq DOMAIN mem, NEW n \in {2, 3, 4}, \A t \in S : lvl[t] = n
      PROVE  Below(S) \subseteq DOMAIN mem /\ \A t \in Below(S) : lvl[t] = n - 1
  <2> SUFFICES ASSUME NEW t \in Below(S) PROVE t \in DOMAIN mem /\ lvl[t] = n - 1
    OBVIOUS
  <2>1. PICK y \in S : \E i \in DOMAIN mem[y] : t = mem[y][i]
    BY DEF Below
  <2>2. PICK i \in DOMAIN mem[y] : t = mem[y][i]
    BY <2>1
  <2>3. y \in DOMAIN mem /\ lvl[y] = n /\ n > 1
    BY <1>3
  <2> QED
    BY <2>2, <2>3, <1>1 DEF Forest
<1> DEFINE p3 == Below(L4Tables)
           p2 == Below(p3)
<1>4. p3 \subseteq DOMAIN mem /\ \A t \in p3 : lvl[t] = 3
  BY <1>2, <1>3
<1>5. p2 \subseteq DOMAIN mem /\ \A t \in p2 : lvl[t] = 2
  <2> HIDE DEF p3
  <2> QED
    BY <1>3, <1>4
<1>6. Below(p2) \subseteq DOMAIN mem /\ \A t \in Below(p2) : lvl[t] = 1
  <2> HIDE DEF p2
  <2> QED
    BY <1>3, <1>5
<1>7. LiveTables = L4Tables \cup p3 \cup p2 \cup Below(p2)
  BY DEF LiveTables
<1> HIDE DEF p3, p2
<1> QED
  BY <1>2, <1>4, <1>5, <1>6, <1>7

(* The forest gives every frame above the bump allocator's its single use. *)
LEMMA FramesUsedOnceFollows == PagingInv => FramesUsedOnce
<1>1. ASSUME Bootstrapping PROVE FramesUsedOnce
  <2>1. /\ bump \in Nat /\ \A t \in DOMAIN mem : \A i \in DOMAIN mem[t] : mem[t][i] \in 0 .. bump - 1
        /\ BootL4 \in DOMAIN mem
    BY <1>1, BootstrapTables
  <2>2. LiveTables \subseteq DOMAIN mem
    <3>1. L4Tables = {BootL4}
      BY <1>1 DEF L4Tables, Bootstrapping
    <3>2. \A S : Below(S) \subseteq DOMAIN mem
      BY DEF Below
    <3>3. LiveTables = L4Tables \cup Below(L4Tables) \cup Below(Below(L4Tables)) \cup Below(Below(Below(L4Tables)))
      BY DEF LiveTables
    <3> QED
      BY <3>1, <3>2, <3>3, <2>1
  <2>3. ASSUME NEW t \in LiveTables, NEW i \in DOMAIN mem[t] PROVE ~ (mem[t][i] >= bump)
    <3>1. mem[t][i] \in 0 .. bump - 1
      BY <2>1, <2>2
    <3> QED
      BY <3>1, <2>1
  <2> QED
    BY <2>3 DEF FramesUsedOnce
<1>2. ASSUME Running PROVE FramesUsedOnce
  <2>1. Memory /\ HeapInPlace
    BY <1>2 DEF Running, Memory
  <2>2. PICK lvl : Rooted(lvl)
    BY <2>1 DEF Memory
  <2>3. Forest(mem, phys, lvl)
    BY <2>2 DEF Rooted
  <2>4. /\ L4Tables \subseteq DOMAIN mem /\ \A t \in L4Tables : lvl[t] = 4
        /\ LiveTables \subseteq DOMAIN mem
        /\ \A t \in LiveTables : lvl[t] = 4 => t \in L4Tables
    BY <2>1, <2>2, LiveTablesAre
  <2>5. ASSUME NEW t \in DOMAIN mem, NEW i \in DOMAIN mem[t], Exempt(t, i) PROVE ~ (mem[t][i] >= bump)
    <3>1. BootstrapPages \in Nat /\ bump = BootstrapPages + 3
      BY <2>1, Sizes
    <3>2. t = 3 /\ i \in 0 .. BootstrapPages - 1
      BY <2>5, <3>1 DEF Exempt, HeapL1
    <3>3. mem[t][i] = IF i = 0 THEN 0 ELSE i + 3
      BY <3>2, <2>1 DEF HeapInPlace
    <3> QED
      BY <3>1, <3>2, <3>3
  <2>6. ASSUME NEW t \in LiveTables, NEW i \in DOMAIN mem[t], mem[t][i] >= bump
        PROVE  /\ mem[t][i] \notin phys /\ mem[t][i] \notin L4Tables
               /\ \A u \in LiveTables : \A j \in DOMAIN mem[u] : mem[u][j] = mem[t][i] =>
                    <<t, i>> = <<u, j>> \/ (i = j /\ {t, u} \subseteq L4Tables)
    <3>1. t \in DOMAIN mem /\ ~ Exempt(t, i) /\ lvl[t] \in 1 .. 4
      BY <2>3, <2>4, <2>5, <2>6 DEF Forest
    <3>2. mem[t][i] \notin phys /\ mem[t][i] \notin L4Tables
      <4>1. CASE lvl[t] = 1
        BY <4>1, <3>1, <2>3, <2>4 DEF Forest
      <4>2. CASE lvl[t] > 1
        <5>1. mem[t][i] \in DOMAIN mem /\ lvl[mem[t][i]] = lvl[t] - 1
          BY <4>2, <3>1, <2>3 DEF Forest
        <5>2. lvl[mem[t][i]] # 4
          BY <5>1, <3>1
        <5> QED
          BY <5>1, <5>2, <2>3, <2>4 DEF Forest
      <4> QED
        BY <4>1, <4>2, <3>1
    <3>3. ASSUME NEW u \in LiveTables, NEW j \in DOMAIN mem[u], mem[u][j] = mem[t][i]
          PROVE  <<t, i>> = <<u, j>> \/ (i = j /\ {t, u} \subseteq L4Tables)
      <4>1. u \in DOMAIN mem /\ ~ Exempt(u, j)
        BY <3>3, <2>4, <2>5, <2>6
      <4>2. (t = u /\ i = j) \/ (lvl[t] = 4 /\ lvl[u] = 4 /\ i = j)
        BY <4>1, <3>1, <3>3, <2>3 DEF Forest
      <4> QED
        BY <4>2, <2>4
    <3> QED
      BY <3>2, <3>3
  <2> QED
    BY <2>6 DEF FramesUsedOnce
<1> QED
  BY <1>1, <1>2 DEF PagingInv

(* Kept is about every frame that is in use. *)
LEMMA NoFrameIsLostFollows == PagingInv => NoFrameIsLost
<1> DEFINE Safe == Targets \cup L4Tables
<1> SUFFICES ASSUME Running
             PROVE  (phys # {} => InUse \subseteq Safe) /\ \E page, l4 \in InUse : InUse \subseteq Safe \cup {page, l4}
  BY DEF PagingInv, NoFrameIsLost, Bootstrapping
<1>1. Memory /\ Kept
  BY DEF Running, Memory
<1>2. region \in Nat /\ region > BootstrapPages + 4 /\ bump = BootstrapPages + 3 /\ BootstrapPages \in Nat
  BY <1>1, Sizes
<1>3. \A f \in InUse : f \in 0 .. region - 1 /\ (f < bump \/ f \notin phys)
  BY <1>2 DEF InUse
<1>4. \A f : Held(f) => f \in Safe
  BY DEF Held, IsTarget, Targets
<1>5. 0 \in InUse
  BY <1>2 DEF InUse
<1>6. phys # {} => InUse \subseteq Safe
  <2> HIDE DEF Safe
  <2> QED
    BY <1>1, <1>3, <1>4 DEF Kept, AllHeld
<1>7. PICK p, g : \A f \in 0 .. region - 1 : f < bump \/ f \notin phys => Held(f) \/ f \in {p, g}
  BY <1>1 DEF Kept
<1>8. InUse \subseteq Safe \cup {p, g}
  <2> HIDE DEF Safe
  <2> QED
    BY <1>3, <1>4, <1>7
<1> DEFINE page == IF p \in InUse THEN p ELSE 0
           l4 == IF g \in InUse THEN g ELSE 0
<1>9. page \in InUse /\ l4 \in InUse /\ InUse \subseteq Safe \cup {page, l4}
  <2> HIDE DEF Safe
  <2> QED
    BY <1>5, <1>8
<1> HIDE DEF Safe, page, l4
<1> QED
  BY <1>6, <1>9

(* The TLB's part of the invariant. *)
LEMMA TlbCoherentFollows == PagingInv => TlbCoherent
  BY DEF PagingInv, TlbCoherent, Bootstrapping, Running, TlbPart

(* Two ways to one last table would share their L4 entry, and the private  *)
(* entry is never copied.                                                  *)
LEMMA PrivateFollows == PagingInv => PrivatePageIsPrivate
<1>1. ASSUME None \notin DOMAIN mem, 1 \notin DOMAIN mem[BootL4] PROVE Walk(mem, BootL4, PrivatePage) = None
  <2>1. Entry(mem, BootL4, PrivatePage[1]) = None
    BY <1>1, PagesAre DEF Entry
  <2> QED
    BY <2>1, <1>1, NoEntryNoWalk
<1>2. ASSUME Bootstrapping PROVE PrivatePageIsPrivate
  <2>1. DOMAIN mem \subseteq {BootL4, 1, 2, 3} /\ 1 \notin DOMAIN mem[BootL4] /\ BootL4 \in Nat
    BY <1>2, BootstrapTables
  <2>2. None \notin DOMAIN mem
    BY <2>1 DEF None
  <2>3. None \in {spaces[s] : s \in Spaces}
    BY <1>2 DEF Bootstrapping, Spaces
  <2> QED
    BY <2>1, <2>2, <2>3, <1>1 DEF PrivatePageIsPrivate
<1>3. ASSUME Running PROVE PrivatePageIsPrivate
  <2>1. Memory /\ HeapInPlace /\ SpacesPart /\ PrivatePart
    BY <1>3 DEF Running, Memory
  <2>2. Walk(mem, BootL4, PrivatePage) = None
    BY <2>1, <1>1, NoneIsNoTable DEF HeapInPlace
  <2>3. ASSUME None \notin {spaces[s] : s \in Spaces}
        PROVE  Walk(mem, spaces["demo"], PrivatePage) # Walk(mem, spaces["task_e"], PrivatePage)
    <3> DEFINE r == spaces["demo"]
               s == spaces["task_e"]
               t == WalkToL1(mem, r, PrivatePage)
               u == WalkToL1(mem, s, PrivatePage)
    <3>1. PICK lvl : Rooted(lvl)
      BY <2>1 DEF Memory
    <3>2. r # None /\ s # None /\ r # s
      BY <2>1, <2>3 DEF SpacesPart, Spaces
    <3>3. r \in DOMAIN mem /\ lvl[r] = 4 /\ s \in DOMAIN mem /\ lvl[s] = 4 /\ Forest(mem, phys, lvl)
      BY <3>1, <3>2 DEF Rooted, Spaces
    <3>4. Walk(mem, r, PrivatePage) # None /\ Walk(mem, s, PrivatePage) # None
      BY <3>2, <2>1 DEF PrivatePart, Spaces
    <3>5. /\ t \in DOMAIN mem /\ lvl[t] = 1 /\ 0 \in DOMAIN mem[t] /\ Walk(mem, r, PrivatePage) = mem[t][0]
          /\ u \in DOMAIN mem /\ lvl[u] = 1 /\ 0 \in DOMAIN mem[u] /\ Walk(mem, s, PrivatePage) = mem[u][0]
      <4>1. PrivatePage[4] = 0
        BY DEF PrivatePage
      <4> HIDE DEF r, s
      <4> QED
        BY <4>1, <3>3, <3>4, LeafIs
    <3>6. None \notin DOMAIN mem /\ BootL4 \in DOMAIN mem /\ lvl[BootL4] = 4
      BY <3>1, <2>1, NoneIsNoTable, Sizes DEF Rooted
    <3>7. WalkToL1(mem, BootL4, HeapPage(0)) = HeapL1
      BY <3>6, <2>1, HeapWay
    <3>8. PrivatePage[1] = 1 /\ HeapPage(0)[1] = 4
      BY PagesAre
    <3>9. ASSUME NEW root \in {r, s} PROVE WalkToL1(mem, root, PrivatePage) # HeapL1
      <4>1. root \in DOMAIN mem /\ lvl[root] = 4
        BY <3>3
      <4>2. HeapL1 # None
        BY DEF HeapL1, None
      <4> HIDE DEF r, s
      <4> QED
        BY <4>1, <4>2, <3>3, <3>6, <3>7, <3>8, OneWay
    <3>10. t # u
      <4>1. t # None
        BY <3>5, <3>6
      <4> HIDE DEF r, s
      <4> QED
        BY <4>1, <3>2, <3>3, <3>8, OneWay
    <3>11. ~ Exempt(t, 0) /\ ~ Exempt(u, 0)
      BY <3>9 DEF Exempt
    <3> HIDE DEF r, s, t, u
    <3>12. mem[t][0] # mem[u][0]
      BY <3>3, <3>5, <3>10, <3>11 DEF Forest
    <3> QED
      BY <3>5, <3>12 DEF r, s
  <2> QED
    BY <2>2, <2>3 DEF PrivatePageIsPrivate
<1> QED
  BY <1>2, <1>3 DEF PagingInv

(* The three L4 entries the two tables share lead to all the kernel's      *)
(* pages.                                                                  *)
LEMMA TasksSeeTheKernelFollows == PagingInv => TasksSeeTheKernel
<1> SUFFICES ASSUME PagingInv, spaces["task_e"] # None, NEW q \in KernelPages
             PROVE  Walk(mem, spaces["task_e"], q) = Walk(mem, BootL4, q)
  BY DEF TasksSeeTheKernel
<1>1. Running
  BY DEF PagingInv, Bootstrapping, Spaces
<1>2. Memory /\ SharedPart /\ HeapPart /\ StackPart
  BY <1>1 DEF Running, Pages
<1>3. q[1] \in {3, 4, 5}
  <2>1. heap \in Nat /\ stacks.slots \in Nat /\ StackPages \in Nat
    BY <1>2, Frames DEF HeapPart, StackPart
  <2>2. CASE \E i \in 0 .. heap - 1 : q = HeapPage(i)
    <3>1. PICK i \in 0 .. heap - 1 : q = HeapPage(i)
      BY <2>2
    <3>2. i \in Nat
      BY <2>1
    <3>3. HeapPage(i)[1] = 4
      BY <3>2, PagesAre
    <3> QED
      BY <3>1, <3>3
  <2>3. CASE q = DemandPage
    BY <2>3, PagesAre
  <2>4. CASE \E slot \in 0 .. stacks.slots - 1 : \E i \in 0 .. StackPages - 1 : q = StackPage(slot, i)
    BY <2>1, <2>4, StackIndex
  <2> QED
    BY <2>2, <2>3, <2>4 DEF KernelPages
<1> QED
  BY <1>2, <1>3, SharedWalk

(* The results' part of the invariant. *)
LEMMA ChecksPassFollows == PagingInv => ChecksPass
  BY DEF PagingInv, ChecksPass, Bootstrapping, Running, ResultsPart

(* No table, page or translation ever lies outside the frames there are,   *)
(* however large the heap, the stacks and the region.                      *)
THEOREM PagingTypeCorrect == Spec => []TypeOK
  BY PagingInvariant, TypeFollows, PTL

(* No frame PHYS has handed out has two uses or is free while in use:      *)
(* map_page, map_page_to_frame, unmap_page and AddressSpace::new share no  *)
(* frame but the copied L4 entries.                                        *)
THEOREM PagingUsesFramesOnce == Spec => []FramesUsedOnce
  BY PagingInvariant, FramesUsedOnceFollows, PTL

(* While PHYS has a frame left, every frame it has handed out is in a      *)
(* table, under a page or an L4 table: no call of map_page, unmap_page or  *)
(* AddressSpace::new leaks one.  The call that empties it half way loses   *)
(* the frame of its page and its L4 table at most.                         *)
THEOREM PagingLosesNoFrame == Spec => []NoFrameIsLost
  BY PagingInvariant, NoFrameIsLostFollows, PTL

(* After every map_page, unmap_page and write of CR3 the TLB holds only    *)
(* what a walk finds.                                                      *)
THEOREM PagingTlbCoherent == Spec => []TlbCoherent
  BY PagingInvariant, TlbCoherentFollows, PTL

(* The private page of an address space is on no other space's frame and   *)
(* never in the boot table.                                                *)
THEOREM PagingPrivacy == Spec => []PrivatePageIsPrivate
  BY PagingInvariant, PrivateFollows, PTL

(* Every heap, demand and stack page, mapped before or after task_e's      *)
(* tables were copied, is the same in them.                                *)
THEOREM PagingSharesTheKernel == Spec => []TasksSeeTheKernel
  BY PagingInvariant, TasksSeeTheKernelFollows, PTL

(* With enough memory no step panics and every check of the self-test that *)
(* concerns memory passes, for every size of heap, stacks and region.      *)
THEOREM PagingChecksPass == Spec => []ChecksPass
  BY PagingInvariant, ChecksPassFollows, PTL
=============================================================================
