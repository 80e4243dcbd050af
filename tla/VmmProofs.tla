----------------------------- MODULE VmmProofs ------------------------------
(***************************************************************************)
(* Proofs about Vmm, for every size of the memory and of its parts, every  *)
(* number of programs and all programs that fit their page table.          *)
(***************************************************************************)
EXTENDS Vmm, TLAPS, FiniteSetTheorems, WellFoundedInduction

\* The table of a process for r, in what its directory says.
TableOf(p, r) == dir[proc[p].dir][r]

SlotPages == {slot[s] : s \in Slots} \ {NONE}

\* Whoever holds pages of the machine has them from GetFreePage: they are
\* marked, and none of them is the kernel's.
Given == (used \ Kernel) \cup {NOPAGE}

HeldAreGiven ==
    /\ Kernel \subseteq used
    /\ heap \subseteq Given
    /\ SlotPages \subseteq Given
    /\ \A p \in Created : /\ proc[p].stack \in Given
                          /\ proc[p].code \subseteq Given

\* No two of them hold the same page, unless it is page -1.
SlotsAreDistinct ==
    \A s, t \in Slots : slot[s] = slot[t] /\ slot[s] \notin {NONE, NOPAGE} => s = t

ProgramsAreApart ==
    \A p \in Created :
        /\ proc[p].stack # NOPAGE =>
              /\ proc[p].stack \notin SlotPages
              /\ \A q \in Created : /\ proc[p].stack \notin proc[q].code
                                    /\ proc[p].stack = proc[q].stack => p = q
        /\ proc[p].code \cap SlotPages \subseteq {NOPAGE}
        /\ \A q \in Created \ {p} : proc[p].code \cap proc[q].code \subseteq {NOPAGE}

HeapIsApart ==
    torn \/ /\ heap \cap SlotPages \subseteq {NOPAGE}
            /\ \A p \in Created : /\ proc[p].stack \in heap => proc[p].stack = NOPAGE
                                  /\ heap \cap proc[p].code \subseteq {NOPAGE}

\* Directories and tables are blocks of the heap of pages, each of one process.
DirectoriesAreOwn ==
    \A p \in Created :
        /\ proc[p].dir \in SlotPages
        /\ \A q \in Created : proc[p].dir = proc[q].dir => p = q
        /\ \A r \in Tables : TableOf(p, r) # NONE =>
              /\ TableOf(p, r) \in SlotPages
              /\ \A q \in Created : \A k \in Tables :
                    TableOf(p, r) = TableOf(q, k) => p = q /\ r = k

\* What is in a table: pages that LoadElf took for this process, each once, or
\* its stack.
EntriesAreOwn ==
    \A p \in Created :
        /\ TableOf(p, "code") # NONE => \A i \in Places :
              /\ table[TableOf(p, "code")][i] \in proc[p].code \cup {NONE}
              /\ table[TableOf(p, "code")][i] \notin {NONE, NOPAGE} =>
                    \A j \in Places :
                        table[TableOf(p, "code")][i] = table[TableOf(p, "code")][j] => i = j
        /\ TableOf(p, "stack") # NONE =>
              table[TableOf(p, "stack")][0] \in {NONE, proc[p].stack}

\* LoadElf works in the directory of the process that it loads.
LoadsInOwnDirectory ==
    /\ loading # NOBODY => loading \in Created /\ cr3 = proc[loading].dir /\ ~irq
    /\ running # NOBODY => running \in Created

\* Every page that is marked is held, and page -1 comes when all are marked.
MarkedAreHeld ==
    LET held == heap \cup SlotPages \cup {proc[p].stack : p \in Created}
                \cup UNION {proc[p].code : p \in Created}
    IN  /\ NOPAGE \in held => Frames \subseteq used
        /\ used \subseteq Kernel \cup held
GrowerIsFree == grower.page \notin Kernel /\ (grower.page = NOPAGE => Frames \subseteq used)

IInv ==
    /\ TypeOK
    /\ HeldAreGiven
    /\ SlotsAreDistinct
    /\ ProgramsAreApart
    /\ HeapIsApart
    /\ DirectoriesAreOwn
    /\ EntriesAreOwn
    /\ LoadsInOwnDirectory
    /\ MarkedAreHeld
    /\ GrowerIsFree

-----------------------------------------------------------------------------
(* Pages and blocks.                                                       *)

\* A page that GetFreePage can return when u are marked.
Fresh(u, f) == f \in Pages \ u /\ (f = NOPAGE => Frames \subseteq u)

\* u with it.
Marking(u, f) == u \cup ({f} \cap Frames)

LEMMA LeastExists ==
    ASSUME NEW S \in SUBSET Nat, S # {}
    PROVE  \E f \in S : \A g \in S : f <= g
  <1> DEFINE R == OpToRel(<, Nat)
  <1>1. IsWellFoundedOn(R, Nat)
    BY NatLessThanWellFounded
  <1>2. \A x, y \in Nat : x < y => <<x, y>> \in R
    BY DEF OpToRel
  <1> HIDE DEF R
  <1>3. PICK f \in S : \A g \in S : ~(<<g, f>> \in R)
    BY <1>1, WFMin
  <1>4. \A g \in S : g \in Nat /\ f \in Nat
    OBVIOUS
  <1>5. \A g \in S : ~(g < f)
    BY <1>2, <1>3, <1>4
  <1> QED
    BY <1>4, <1>5

LEMMA PagesHold ==
    /\ Frames \subseteq Nat /\ Kernel \subseteq Frames /\ KDIR \in Kernel
    /\ NOPAGE \notin Frames /\ NOPAGE \in Nat /\ NONE \notin Pages
    /\ Pages \subseteq PageOrNone /\ NONE \in PageOrNone /\ NOPAGE # NONE
    /\ NFrames \in Nat /\ NProcs \in Nat /\ NSlots \in Nat
  BY FramesAssumption DEF Frames, Kernel, KDIR, NOPAGE, NONE, Pages, PageOrNone

LEMMA FreePageIsFresh ==
    ASSUME NEW u, u \subseteq Frames
    PROVE  Fresh(u, FreePage(u))
  <1>1. CASE Frames \subseteq u
    BY <1>1, PagesHold DEF FreePage, Fresh, Pages
  <1>2. CASE ~(Frames \subseteq u)
    <2>1. \E f \in Frames \ u : \A g \in Frames \ u : f <= g
      BY <1>2, PagesHold, LeastExists
    <2>2. FreePage(u) \in Frames \ u
      BY <1>2, <2>1 DEF FreePage
    <2> QED
      BY <2>2, PagesHold DEF Fresh, Pages
  <1> QED
    BY <1>1, <1>2

LEMMA MarkingHolds ==
    ASSUME NEW u, u \subseteq Frames, NEW f, Fresh(u, f)
    PROVE  /\ Marking(u, f) \subseteq Frames
           /\ u \subseteq Marking(u, f)
           /\ Marking(u, f) \subseteq u \cup {f}
           /\ f # NOPAGE => f \in Marking(u, f)
           /\ f = NOPAGE => Frames \subseteq u
  BY DEF Marking, Fresh, Pages

\* The first free block, when there is one.
LEMMA FirstSlotIsFree ==
    ASSUME NEW m, CanAlloc(m, 1)
    PROVE  FirstSlot(m) \in Slots /\ m.slot[FirstSlot(m)] = NONE
  <1>1. Slots \subseteq Nat /\ IsFiniteSet(Slots)
    BY PagesHold, FS_Interval DEF Slots
  <1>2. FreeSlots(m) \subseteq Slots /\ IsFiniteSet(FreeSlots(m))
    BY <1>1, FS_Subset DEF FreeSlots
  <1>3. FreeSlots(m) # {}
    BY <1>2, FS_EmptySet DEF CanAlloc
  <1>4. \E s \in FreeSlots(m) : \A t \in FreeSlots(m) : s <= t
    BY <1>1, <1>2, <1>3, LeastExists
  <1>5. FirstSlot(m) \in FreeSlots(m)
    BY <1>4 DEF FirstSlot
  <1> QED
    BY <1>5 DEF FreeSlots

\* With two free blocks there is one after the first is taken.
LEMMA SecondSlotIsFree ==
    ASSUME NEW a \in [Slots -> PageOrNone], NEW m, m.slot = a, CanAlloc(m, 2),
           NEW f \in Pages, NEW n, n.slot = [a EXCEPT ![FirstSlot(m)] = f]
    PROVE  CanAlloc(m, 1) /\ CanAlloc(n, 1)
  <1>1. IsFiniteSet(Slots)
    BY PagesHold, FS_Interval DEF Slots
  <1>2. FreeSlots(m) \subseteq Slots /\ IsFiniteSet(FreeSlots(m)) /\ IsFiniteSet(FreeSlots(n))
    BY <1>1, FS_Subset DEF FreeSlots
  <1>3. Cardinality(FreeSlots(m)) \in Nat /\ Cardinality(FreeSlots(m)) >= 2
    BY <1>2, FS_CardinalityType DEF CanAlloc
  <1>4. CanAlloc(m, 1)
    BY <1>3 DEF CanAlloc
  <1>5. FirstSlot(m) \in Slots
    BY <1>4, FirstSlotIsFree
  <1>6. FreeSlots(n) = FreeSlots(m) \ {FirstSlot(m)}
    BY <1>5, PagesHold DEF FreeSlots
  <1>7. Cardinality(FreeSlots(n)) >= 1
    BY <1>2, <1>3, <1>6, FS_RemoveElement
  <1> QED
    BY <1>4, <1>7 DEF CanAlloc

PagesIn(a) == {a[s] : s \in Slots} \ {NONE}
Distinct(a) == \A s, t \in Slots : a[s] = a[t] /\ a[s] \notin {NONE, NOPAGE} => s = t

\* A block gets a page that no block has.
LEMMA SlotTaken ==
    ASSUME NEW a \in [Slots -> PageOrNone], NEW s \in Slots, a[s] = NONE, NEW f \in Pages,
           f # NOPAGE => f \notin PagesIn(a), Distinct(a)
    PROVE  /\ [a EXCEPT ![s] = f] \in [Slots -> PageOrNone]
           /\ PagesIn([a EXCEPT ![s] = f]) = PagesIn(a) \cup {f}
           /\ Distinct([a EXCEPT ![s] = f])
  <1> DEFINE b == [a EXCEPT ![s] = f]
  <1>1. b \in [Slots -> PageOrNone] /\ b[s] = f /\ \A t \in Slots \ {s} : b[t] = a[t]
    BY PagesHold
  <1> HIDE DEF b
  <1>2. PagesIn(b) = PagesIn(a) \cup {f}
    BY <1>1, PagesHold DEF PagesIn
  <1>3. Distinct(b)
    BY <1>1 DEF Distinct, PagesIn
  <1> QED
    BY <1>1, <1>2, <1>3 DEF b

-----------------------------------------------------------------------------
(* A page is mapped: r is the table, i the place in it, t the page that the *)
(* table is in, and NS the page allocated for it, if it was.               *)

Mapped(u, cr, r, i, f, t, NS) ==
    /\ t \in Pages
    /\ \/ NS = {} /\ dir[cr][r] = t /\ used' = u
       \/ NS = {t} /\ dir[cr][r] = NONE /\ Fresh(u, t) /\ used' = Marking(u, t)
    /\ slot' \in [Slots -> PageOrNone] /\ PagesIn(slot') = PagesIn(slot) \cup NS /\ Distinct(slot')
    /\ dir' \in [Pages -> [Tables -> PageOrNone]]
    /\ dir'[cr][r] = t
    /\ \A d \in Pages : \A k \in Tables : d # cr \/ k # r => dir'[d][k] = dir[d][k]
    /\ table' \in [Pages -> [Places -> PageOrNone]]
    /\ \A g \in Pages \ {t} : table'[g] = table[g]
    /\ table'[t][i] = f
    /\ NS = {} => \A j \in Places \ {i} : table'[t][j] = table[t][j]
    /\ NS # {} => \A j \in Places \ {i} : table'[t][j] = NONE

LEMMA AddPageMaps ==
    ASSUME NEW u, u \subseteq Frames,
           slot \in [Slots -> PageOrNone], Distinct(slot), NOPAGE \notin PagesIn(slot),
           PagesIn(slot) \subseteq u,
           dir \in [Pages -> [Tables -> PageOrNone]],
           table \in [Pages -> [Places -> PageOrNone]],
           NEW cr \in Pages, NEW r \in Tables, NEW i \in Places, NEW f \in Pages,
           CanAlloc(Having(u, slot, dir, table), 1),
           BecomesMemory(AddPage(Having(u, slot, dir, table), cr, <<r, i>>, f))
    PROVE  \E t, NS : Mapped(u, cr, r, i, f, t, NS)
  <1> DEFINE m == Having(u, slot, dir, table)
             n == WithTable(m, cr, r)
             page == <<r, i>>
             t == n.dir[cr][r]
  <1>0. m.used = u /\ m.slot = slot /\ m.dir = dir /\ m.table = table
    BY DEF Having
  <1>1. /\ used' = n.used /\ slot' = n.slot /\ dir' = n.dir
        /\ table' = [n.table EXCEPT ![t] = [@ EXCEPT ![i] = f]]
    BY DEF AddPage, BecomesMemory, Having
  <1>2. CASE dir[cr][r] # NONE
    <2>1. n = m
      BY <1>2, <1>0 DEF WithTable
    <2>2. t = dir[cr][r] /\ t \in Pages
      BY <2>1, <1>0, <1>2, PagesHold DEF PageOrNone
    <2>3. used' = u /\ slot' = slot /\ dir' = dir
      BY <2>1, <1>0, <1>1
    <2> HIDE DEF t, n, m
    <2>4. table' = [table EXCEPT ![t] = [@ EXCEPT ![i] = f]]
      BY <2>1, <1>0, <1>1
    <2>5. /\ table' \in [Pages -> [Places -> PageOrNone]]
          /\ \A g \in Pages \ {t} : table'[g] = table[g]
          /\ table'[t][i] = f
          /\ \A j \in Places \ {i} : table'[t][j] = table[t][j]
      BY <2>4, <2>2, PagesHold
    <2>6. Mapped(u, cr, r, i, f, t, {})
      BY <2>2, <2>3, <2>5 DEF Mapped
    <2> QED
      BY <2>6
  <1>3. CASE dir[cr][r] = NONE
    <2> DEFINE g == FreePage(u)
               s == FirstSlot(m)
    <2>1. /\ n.used = Marking(u, g) /\ n.slot = [slot EXCEPT ![s] = g]
          /\ n.dir = [dir EXCEPT ![cr] = [@ EXCEPT ![r] = g]]
          /\ n.table = [table EXCEPT ![g] = CleanPageTable(@)]
      BY <1>0, <1>3 DEF WithTable, PageAlloc, TakePage, Having, Marking
    <2>2. Fresh(u, g) /\ g \in Pages
      BY FreePageIsFresh DEF Fresh
    <2>3. s \in Slots /\ slot[s] = NONE
      BY <1>0, FirstSlotIsFree
    <2> HIDE DEF s, n, m, g
    <2>4. /\ n.dir \in [Pages -> [Tables -> PageOrNone]] /\ n.dir[cr][r] = g
          /\ \A d \in Pages : \A k \in Tables : d # cr \/ k # r => n.dir[d][k] = dir[d][k]
      BY <2>1, <2>2, PagesHold
    <2>5. t = g
      BY <2>4
    <2>6. /\ n.table \in [Pages -> [Places -> PageOrNone]]
          /\ \A h \in Pages \ {g} : n.table[h] = table[h]
          /\ \A j \in Places : n.table[g][j] = NONE
      BY <2>1, <2>2, PagesHold DEF CleanPageTable
    <2> HIDE DEF t
    <2>7. /\ table' \in [Pages -> [Places -> PageOrNone]]
          /\ \A h \in Pages \ {g} : table'[h] = table[h]
          /\ table'[g][i] = f
          /\ \A j \in Places \ {i} : table'[g][j] = NONE
      BY <1>1, <2>5, <2>6, <2>2, PagesHold
    <2>8. g \notin PagesIn(slot)
      BY <2>2 DEF Fresh
    <2>9. /\ slot' \in [Slots -> PageOrNone] /\ PagesIn(slot') = PagesIn(slot) \cup {g}
          /\ Distinct(slot')
      <3> DEFINE b == [slot EXCEPT ![s] = g]
      <3>1. /\ b \in [Slots -> PageOrNone] /\ PagesIn(b) = PagesIn(slot) \cup {g}
            /\ Distinct(b)
        BY <2>2, <2>3, <2>8, SlotTaken
      <3>2. slot' = b
        BY <1>1, <2>1
      <3> QED
        BY <3>1, <3>2
    <2>10. Mapped(u, cr, r, i, f, g, {g})
      <3>1. used' = Marking(u, g) /\ {g} # {}
        BY <1>1, <2>1
      <3>2. /\ dir' \in [Pages -> [Tables -> PageOrNone]] /\ dir'[cr][r] = g
            /\ \A d \in Pages : \A k \in Tables : d # cr \/ k # r => dir'[d][k] = dir[d][k]
        BY <1>1, <2>4
      <3> QED
        BY <1>3, <2>2, <2>7, <2>9, <3>1, <3>2 DEF Mapped
    <2> QED
      BY <2>10
  <1> QED
    BY <1>2, <1>3

-----------------------------------------------------------------------------
(* Process p gets pages that nobody had: NS for blocks, NC for its code, ST *)
(* for its stack.                                                          *)

Gets(p, NS, NC, ST) ==
    LET new == NS \cup NC \cup ST
    IN  /\ new \subseteq Pages \ used
        /\ NS \cap NC \subseteq {NOPAGE} /\ NS \cap ST \subseteq {NOPAGE}
        /\ NC \cap ST \subseteq {NOPAGE}
        /\ used' = used \cup (new \cap Frames)
        /\ NOPAGE \in new => Frames \subseteq used'
        /\ SlotPages' = SlotPages \cup NS
        /\ heap' = heap /\ torn' = torn
        /\ Created' = Created \cup {p}
        /\ \A q \in Created \ {p} : proc'[q].stack = proc[q].stack /\ proc'[q].code = proc[q].code
        /\ p \in Created => /\ ST = {}
                            /\ proc'[p].stack = proc[p].stack
                            /\ proc'[p].code = proc[p].code \cup NC
        /\ p \notin Created => ST = {proc'[p].stack} /\ proc'[p].code = NC

LEMMA OwnersKeep ==
    ASSUME TypeOK, HeldAreGiven, ProgramsAreApart, HeapIsApart, MarkedAreHeld,
           NEW p \in Procs, NEW NS, NEW NC, NEW ST, Gets(p, NS, NC, ST)
    PROVE  HeldAreGiven' /\ ProgramsAreApart' /\ HeapIsApart' /\ MarkedAreHeld'
  <1> DEFINE new == NS \cup NC \cup ST
  <1>1. /\ new \subseteq Pages \ used
        /\ NS \cap NC \subseteq {NOPAGE} /\ NS \cap ST \subseteq {NOPAGE}
        /\ NC \cap ST \subseteq {NOPAGE}
        /\ used' = used \cup (new \cap Frames)
        /\ NOPAGE \in new => Frames \subseteq used'
        /\ SlotPages' = SlotPages \cup NS
        /\ heap' = heap /\ torn' = torn
        /\ Created' = Created \cup {p}
    BY DEF Gets
  <1>2. \A q \in Created \ {p} : proc'[q].stack = proc[q].stack /\ proc'[q].code = proc[q].code
    BY DEF Gets
  <1>3. p \in Created => /\ ST = {}
                         /\ proc'[p].stack = proc[p].stack
                         /\ proc'[p].code = proc[p].code \cup NC
    BY DEF Gets
  <1>4. p \notin Created => ST = {proc'[p].stack} /\ proc'[p].code = NC
    BY DEF Gets
  <1>5. used \subseteq Frames
    BY DEF TypeOK
  <1>6. /\ \A f \in new : f \notin Kernel /\ f \in Given'
        /\ Given \subseteq Given'
    BY <1>1, <1>5 DEF Given, HeldAreGiven, Pages
  <1>7. /\ heap \subseteq Given /\ SlotPages \subseteq Given
        /\ \A q \in Created : proc[q].stack \in Given /\ proc[q].code \subseteq Given
    BY DEF HeldAreGiven
  <1>8. \A f \in Given : f \in new => f = NOPAGE
    BY <1>1 DEF Given
  <1> HIDE DEF new
  <1>10. HeldAreGiven'
    <2>1. Kernel \subseteq used'
      BY <1>1 DEF HeldAreGiven
    <2>2. heap' \subseteq Given' /\ SlotPages' \subseteq Given'
      BY <1>1, <1>6, <1>7 DEF new
    <2>3. \A q \in Created' : proc'[q].stack \in Given' /\ proc'[q].code \subseteq Given'
      BY <1>1, <1>2, <1>3, <1>4, <1>6, <1>7 DEF new
    <2> QED
      BY <2>1, <2>2, <2>3 DEF HeldAreGiven
  <1>11. ProgramsAreApart'
    <2> SUFFICES ASSUME NEW q \in Created'
                 PROVE  /\ proc'[q].stack # NOPAGE =>
                              /\ proc'[q].stack \notin SlotPages'
                              /\ \A o \in Created' : /\ proc'[q].stack \notin proc'[o].code
                                                     /\ proc'[q].stack = proc'[o].stack => q = o
                        /\ proc'[q].code \cap SlotPages' \subseteq {NOPAGE}
                        /\ \A o \in Created' \ {q} :
                              proc'[q].code \cap proc'[o].code \subseteq {NOPAGE}
      BY DEF ProgramsAreApart
    <2>1. ASSUME NEW o \in Created
          PROVE  /\ proc[o].stack # NOPAGE =>
                       /\ proc[o].stack \notin SlotPages
                       /\ \A k \in Created : /\ proc[o].stack \notin proc[k].code
                                             /\ proc[o].stack = proc[k].stack => o = k
                 /\ proc[o].code \cap SlotPages \subseteq {NOPAGE}
                 /\ \A k \in Created \ {o} : proc[o].code \cap proc[k].code \subseteq {NOPAGE}
      BY DEF ProgramsAreApart
    <2>2. \A o \in Created' :
             \/ o \in Created /\ proc'[o].stack = proc[o].stack
             \/ o = p /\ p \notin Created /\ proc'[o].stack \in ST /\ proc'[o].stack \in new
      BY <1>1, <1>2, <1>3, <1>4 DEF new
    <2>3. \A o \in Created' : \A f \in proc'[o].code :
             \/ o \in Created /\ f \in proc[o].code
             \/ o = p /\ f \in NC /\ f \in new
      BY <1>1, <1>2, <1>3, <1>4 DEF new
    <2>4. \A f \in SlotPages' : f \in SlotPages \/ (f \in NS /\ f \in new)
      BY <1>1 DEF new
    <2>5. proc'[q].stack # NOPAGE => proc'[q].stack \notin SlotPages'
      BY <2>1, <2>2, <2>4, <1>1, <1>7, <1>8
    <2>6. ASSUME NEW o \in Created', proc'[q].stack # NOPAGE
          PROVE  proc'[q].stack \notin proc'[o].code
      BY <2>1, <2>2, <2>3, <2>6, <1>1, <1>7, <1>8
    <2>7. ASSUME NEW o \in Created', proc'[q].stack # NOPAGE, proc'[q].stack = proc'[o].stack
          PROVE  q = o
      BY <2>1, <2>2, <2>7, <1>1, <1>7, <1>8
    <2>8. proc'[q].code \cap SlotPages' \subseteq {NOPAGE}
      BY <2>1, <2>3, <2>4, <1>1, <1>7, <1>8
    <2>9. ASSUME NEW o \in Created' \ {q}
          PROVE  proc'[q].code \cap proc'[o].code \subseteq {NOPAGE}
      BY <2>1, <2>3, <1>1, <1>7, <1>8
    <2> QED
      BY <2>5, <2>6, <2>7, <2>8, <2>9
  <1>12. HeapIsApart'
    <2>1. CASE torn
      BY <1>1, <2>1 DEF HeapIsApart
    <2>2. CASE ~torn
      <3>1. heap' \cap SlotPages' \subseteq {NOPAGE}
        BY <2>2, <1>1, <1>7, <1>8 DEF HeapIsApart, new
      <3>2. ASSUME NEW q \in Created'
            PROVE  /\ proc'[q].stack \in heap' => proc'[q].stack = NOPAGE
                   /\ heap' \cap proc'[q].code \subseteq {NOPAGE}
        BY <2>2, <1>1, <1>2, <1>3, <1>4, <1>7, <1>8 DEF HeapIsApart, new
      <3> QED
        BY <3>1, <3>2 DEF HeapIsApart
    <2> QED
      BY <2>1, <2>2
  <1>13. MarkedAreHeld'
    <2> DEFINE held == heap \cup SlotPages \cup {proc[q].stack : q \in Created}
                       \cup UNION {proc[q].code : q \in Created}
    <2>1. (NOPAGE \in held => Frames \subseteq used) /\ used \subseteq Kernel \cup held
      BY DEF MarkedAreHeld
    <2>2. held' = held \cup new
      BY <1>1, <1>2, <1>3, <1>4 DEF new
    <2> HIDE DEF held
    <2>3. NOPAGE \in held' => Frames \subseteq used'
      BY <2>1, <2>2, <1>1 DEF new
    <2>4. used' \subseteq Kernel \cup held'
      BY <2>1, <2>2, <1>1 DEF new
    <2> QED
      BY <2>3, <2>4 DEF MarkedAreHeld, held
  <1> QED
    BY <1>10, <1>11, <1>12, <1>13

\* A page is mapped for process p: one that it has not mapped yet, or its stack.
LEMMA MappingKeeps ==
    ASSUME TypeOK, HeldAreGiven, SlotsAreDistinct, DirectoriesAreOwn, EntriesAreOwn,
           NOPAGE \notin SlotPages, NEW p \in Created,
           NEW u, used \subseteq u, u \subseteq Frames,
           NEW r \in Tables, NEW i \in Places, NEW f \in Pages, NEW t, NEW NS,
           Mapped(u, proc[p].dir, r, i, f, t, NS),
           Created' = Created,
           \A q \in Created : /\ proc'[q].dir = proc[q].dir /\ proc'[q].stack = proc[q].stack
                              /\ proc[q].code \subseteq proc'[q].code,
           r = "code" => f \in proc'[p].code /\ (f = NOPAGE \/ f \notin proc[p].code),
           r = "stack" => i = 0 /\ f = proc[p].stack
    PROVE  SlotsAreDistinct' /\ DirectoriesAreOwn' /\ EntriesAreOwn'
  <1>1. /\ t \in Pages /\ t # NONE
        /\ SlotPages' = SlotPages \cup NS /\ Distinct(slot')
        /\ dir'[proc[p].dir][r] = t
        /\ \A d \in Pages : \A k \in Tables :
              d # proc[p].dir \/ k # r => dir'[d][k] = dir[d][k]
        /\ \A g \in Pages \ {t} : table'[g] = table[g]
        /\ table'[t][i] = f
        /\ NS = {} => \A j \in Places \ {i} : table'[t][j] = table[t][j]
        /\ NS # {} => \A j \in Places \ {i} : table'[t][j] = NONE
    BY PagesHold DEF Mapped, SlotPages, PagesIn
  <1>2. \/ NS = {} /\ TableOf(p, r) = t
        \/ NS = {t} /\ TableOf(p, r) = NONE /\ t \notin used
    BY DEF Mapped, TableOf, Fresh
  <1>3. SlotPages \subseteq used
    BY DEF HeldAreGiven, Given
  <1>4. SlotsAreDistinct'
    BY <1>1 DEF SlotsAreDistinct, Distinct
  <1>5. \A q \in Created : proc[q].dir \in SlotPages /\ proc[q].dir \in Pages
    <2>1. used \subseteq Frames
      BY DEF TypeOK
    <2> QED
      BY <1>3, <2>1 DEF DirectoriesAreOwn, Pages
  <1>6. \A q \in Created : proc[q].dir = proc[p].dir => q = p
    BY DEF DirectoriesAreOwn
  <1>7. /\ TableOf(p, r)' = t
        /\ \A q \in Created : \A k \in Tables :
              q # p \/ k # r => TableOf(q, k)' = TableOf(q, k)
    BY <1>1, <1>5, <1>6 DEF TableOf
  <1>8. \A q \in Created : \A k \in Tables : TableOf(q, k) # NONE =>
           /\ TableOf(q, k) \in SlotPages
           /\ \A o \in Created : \A l \in Tables : TableOf(q, k) = TableOf(o, l) => q = o /\ k = l
    BY DEF DirectoriesAreOwn
  <1>9. \A q \in Created : \A k \in Tables : (q # p \/ k # r) => TableOf(q, k) # t
    BY <1>1, <1>2, <1>3, <1>8
  <1>10. t \in SlotPages'
    BY <1>1, <1>2, <1>8
  <1>11. \A q \in Created : \A k \in Tables : TableOf(q, k)' # NONE => TableOf(q, k)' \in SlotPages'
    BY <1>1, <1>7, <1>8, <1>10
  <1>12. \A q, o \in Created : \A k, l \in Tables :
            TableOf(q, k)' = TableOf(o, l)' /\ TableOf(q, k)' # NONE => q = o /\ k = l
    BY <1>1, <1>7, <1>8, <1>9
  <1>13. DirectoriesAreOwn'
    <2>1. \A q \in Created' : /\ proc'[q].dir \in SlotPages'
                              /\ \A o \in Created' : proc'[q].dir = proc'[o].dir => q = o
      BY <1>1, <1>5 DEF DirectoriesAreOwn
    <2> QED
      BY <2>1, <1>11, <1>12 DEF DirectoriesAreOwn
  <1>14. \A q \in Created : \A k \in Tables :
            (q # p \/ k # r) /\ TableOf(q, k) # NONE =>
                table'[TableOf(q, k)'] = table[TableOf(q, k)]
    <2>1. \A q \in Created : \A k \in Tables : TableOf(q, k) # NONE => TableOf(q, k) \in Pages
      BY <1>3, <1>8 DEF TypeOK, Pages
    <2> QED
      BY <2>1, <1>1, <1>7, <1>9
  <1>15. ASSUME NEW q \in Created, TableOf(q, "code")' # NONE
         PROVE  \A j \in Places :
                   /\ table'[TableOf(q, "code")'][j] \in proc'[q].code \cup {NONE}
                   /\ table'[TableOf(q, "code")'][j] \notin {NONE, NOPAGE} =>
                         \A l \in Places :
                             table'[TableOf(q, "code")'][j] = table'[TableOf(q, "code")'][l]
                                => j = l
    <2>1. TableOf(q, "code") # NONE => \A j \in Places :
             /\ table[TableOf(q, "code")][j] \in proc[q].code \cup {NONE}
             /\ table[TableOf(q, "code")][j] \notin {NONE, NOPAGE} =>
                   \A l \in Places :
                       table[TableOf(q, "code")][j] = table[TableOf(q, "code")][l] => j = l
      BY DEF EntriesAreOwn
    <2>2. CASE q # p \/ r # "code"
      <3>1. TableOf(q, "code")' = TableOf(q, "code")
        BY <2>2, <1>7 DEF Tables
      <3>2. table'[TableOf(q, "code")'] = table[TableOf(q, "code")]
        BY <2>2, <3>1, <1>14, <1>15 DEF Tables
      <3>3. proc[q].code \subseteq proc'[q].code
        OBVIOUS
      <3> QED
        BY <1>15, <2>1, <3>1, <3>2, <3>3
    <2>3. CASE q = p /\ r = "code"
      <3>1. TableOf(q, "code")' = t
        BY <2>3, <1>7
      <3>2. f \in proc'[p].code /\ (f = NOPAGE \/ f \notin proc[p].code)
        BY <2>3
      <3>3. \A j \in Places : \/ j = i /\ table'[t][j] = f
                              \/ j # i /\ table'[t][j] = NONE
                              \/ /\ j # i /\ table'[t][j] = table[t][j]
                                 /\ TableOf(p, "code") = t
        BY <2>3, <1>1, <1>2
      <3>4. proc[p].code \subseteq proc'[p].code /\ f # NONE
        BY PagesHold
      <3>5. \A j \in Places : table'[t][j] \in proc'[p].code \cup {NONE}
        BY <2>1, <2>3, <3>2, <3>3, <3>4, <1>1
      <3>6. ASSUME NEW j \in Places, NEW l \in Places, table'[t][j] \notin {NONE, NOPAGE},
                   table'[t][j] = table'[t][l]
            PROVE  j = l
        BY <2>1, <2>3, <3>2, <3>3, <3>4, <3>6, <1>1
      <3> QED
        BY <2>3, <3>1, <3>5, <3>6
    <2> QED
      BY <2>2, <2>3
  <1>16. ASSUME NEW q \in Created, TableOf(q, "stack")' # NONE
         PROVE  table'[TableOf(q, "stack")'][0] \in {NONE, proc'[q].stack}
    <2>1. CASE q # p \/ r # "stack"
      <3>1. TableOf(q, "stack")' = TableOf(q, "stack")
        BY <2>1, <1>7 DEF Tables
      <3>2. table'[TableOf(q, "stack")'] = table[TableOf(q, "stack")]
        BY <2>1, <3>1, <1>14, <1>16 DEF Tables
      <3> QED
        BY <1>16, <3>1, <3>2 DEF EntriesAreOwn
    <2>2. CASE q = p /\ r = "stack"
      BY <2>2, <1>1, <1>7
    <2> QED
      BY <2>1, <2>2
  <1>17. EntriesAreOwn'
    BY <1>15, <1>16 DEF EntriesAreOwn
  <1> QED
    BY <1>4, <1>13, <1>17

-----------------------------------------------------------------------------
(* Each step keeps the invariant.                                          *)

ProcessRecord == [dir : PageOrNone, kstack : PageOrNone, stack : PageOrNone,
                  code : SUBSET Pages, started : BOOLEAN]

LEMMA PlacesHold == 0 \in Places /\ "stack" \in Tables /\ "code" \in Tables
  BY ProgramsAssumption DEF Places, Tables

LEMMA StartThreadKeeps ==
    ASSUME IInv, ~Lost, NEW p \in Procs, PmStartThread(p)
    PROVE  IInv'
  <1> DEFINE f == proc[p].stack
             d == proc[p].dir
  <1> USE DEF IInv
  <1>1. /\ irq /\ p \in Created /\ CanAlloc(Memory, 1)
        /\ BecomesMemory(AddPage(Memory, d, StackPage, f))
        /\ saved' = NONE /\ cr3' = d /\ running' = p
        /\ data' = data /\ heap' = heap /\ program' = program
        /\ loading' = loading /\ at' = at /\ halted' = halted
        /\ irq' = irq /\ grower' = grower /\ torn' = torn
    BY DEF PmStartThread, elf, Created
  <1>2. proc' = [proc EXCEPT ![p] = Process(@.dir, @.kstack, @.stack, @.code, TRUE)]
    BY DEF PmStartThread
  <1>3. NOPAGE \notin SlotPages
    BY DEF Lost, SlotPages
  <1>4. /\ used \subseteq Frames /\ proc \in [Procs -> ProcessRecord]
        /\ SlotPages \subseteq used
    BY <1>3 DEF TypeOK, HeldAreGiven, Given, ProcessRecord
  <1>5. f \in Pages /\ d \in Pages
    BY <1>1, <1>4 DEF HeldAreGiven, Given, DirectoriesAreOwn, Pages
  <1>6. \E t, NS : Mapped(used, d, "stack", 0, f, t, NS)
    <2>1. NOPAGE \notin PagesIn(slot) /\ PagesIn(slot) \subseteq used
      BY <1>3, <1>4 DEF SlotPages, PagesIn
    <2>2. Distinct(slot)
      BY DEF SlotsAreDistinct, Distinct
    <2>3. /\ slot \in [Slots -> PageOrNone] /\ dir \in [Pages -> [Tables -> PageOrNone]]
          /\ table \in [Pages -> [Places -> PageOrNone]]
      BY DEF TypeOK
    <2> HIDE DEF f, d
    <2>4. /\ CanAlloc(Having(used, slot, dir, table), 1)
          /\ BecomesMemory(AddPage(Having(used, slot, dir, table), d, <<"stack", 0>>, f))
      BY <1>1 DEF Memory, StackPage
    <2> QED
      BY <1>4, <1>5, <2>1, <2>2, <2>3, <2>4, PlacesHold, AddPageMaps
  <1>7. PICK t, NS : Mapped(used, d, "stack", 0, f, t, NS)
    BY <1>6
  <1>8. /\ proc' \in [Procs -> ProcessRecord]
        /\ \A q \in Procs : /\ proc'[q].dir = proc[q].dir /\ proc'[q].stack = proc[q].stack
                            /\ proc'[q].code = proc[q].code
    <2>1. \A q \in Procs \ {p} : proc'[q] = proc[q]
      BY <1>2, <1>4
    <2>2. proc'[p] = Process(d, proc[p].kstack, f, proc[p].code, TRUE)
      BY <1>2, <1>4
    <2>3. proc[p].kstack \in PageOrNone /\ proc[p].code \subseteq Pages
      BY <1>4 DEF ProcessRecord
    <2>4. /\ proc'[p] \in ProcessRecord /\ proc'[p].dir = d /\ proc'[p].stack = f
          /\ proc'[p].code = proc[p].code
      BY <2>2, <2>3, <1>5, PagesHold DEF Process, ProcessRecord
    <2>5. \A q \in Procs : proc'[q] \in ProcessRecord
      BY <2>1, <2>4, <1>4
    <2>6. proc' = [q \in Procs |-> proc'[q]]
      BY <1>2, <1>4
    <2> QED
      BY <2>1, <2>4, <2>5, <2>6
  <1>9. Created' = Created
    BY <1>8 DEF Created
  <1>10. /\ t \in Pages
         /\ \/ NS = {} /\ dir[d]["stack"] = t /\ used' = used
            \/ NS = {t} /\ dir[d]["stack"] = NONE /\ Fresh(used, t) /\ used' = Marking(used, t)
         /\ SlotPages' = SlotPages \cup NS
         /\ slot' \in [Slots -> PageOrNone]
         /\ dir' \in [Pages -> [Tables -> PageOrNone]]
         /\ table' \in [Pages -> [Places -> PageOrNone]]
    BY <1>7 DEF Mapped, SlotPages, PagesIn
  <1>11. TypeOK'
    <2>1. used' \subseteq Frames
      BY <1>4, <1>10, MarkingHolds
    <2>2. cr3' \in Pages /\ saved' \in PageOrNone /\ running' \in Procs \cup {NOBODY}
      BY <1>1, <1>5, PagesHold
    <2> QED
      BY <1>1, <1>8, <1>10, <2>1, <2>2 DEF TypeOK, ProcessRecord
  <1>12. SlotsAreDistinct' /\ DirectoriesAreOwn' /\ EntriesAreOwn'
    <2>1. \A q \in Created : /\ proc'[q].dir = proc[q].dir /\ proc'[q].stack = proc[q].stack
                             /\ proc[q].code \subseteq proc'[q].code
      BY <1>8 DEF Created
    <2> QED
      BY <1>1, <1>3, <1>4, <1>5, <1>7, <1>9, <2>1, PlacesHold, MappingKeeps
  <1>13. Gets(p, NS, {}, {})
    <2>1. NS \subseteq Pages \ used /\ used' = used \cup (NS \cap Frames)
      BY <1>10 DEF Fresh, Marking
    <2>2. NOPAGE \in NS => Frames \subseteq used'
      BY <1>10 DEF Fresh, Marking
    <2>3. \A q \in Created \ {p} : proc'[q].stack = proc[q].stack /\ proc'[q].code = proc[q].code
      BY <1>8 DEF Created
    <2> QED
      BY <1>1, <1>8, <1>9, <1>10, <2>1, <2>2, <2>3 DEF Gets
  <1>14. HeldAreGiven' /\ ProgramsAreApart' /\ HeapIsApart' /\ MarkedAreHeld'
    BY <1>13, OwnersKeep
  <1>15. LoadsInOwnDirectory' /\ GrowerIsFree'
    <2>1. used \subseteq used'
      BY <1>13 DEF Gets
    <2> QED
      BY <1>1, <1>9, <2>1 DEF LoadsInOwnDirectory, GrowerIsFree
  <1> QED
    BY <1>11, <1>12, <1>14, <1>15

\* An address of a program's page table is in one of the table's pages.
LEMMA PageAtHolds ==
    ASSUME NEW a \in Nat, UserBase <= a, a < UserBase + NCode * PageSize
    PROVE  \E i \in Places : PageAt(a) = <<"code", i>>
  <1> DEFINE x == a - UserBase
             i == x \div PageSize
  <1>1. /\ UserBase \in Nat /\ PageSize \in Nat \ {0} /\ NCode \in Nat \ {0}
    BY ProgramsAssumption
  <1>2. x \in Nat /\ x < NCode * PageSize
    BY <1>1
  <1> HIDE DEF x
  <1>3. i \in Nat /\ x = PageSize * i + (x % PageSize) /\ x % PageSize >= 0
    BY <1>1, <1>2
  <1> HIDE DEF i
  <1>4. CASE i >= NCode
    <2>1. i * PageSize >= NCode * PageSize
      BY <1>1, <1>3, <1>4
    <2>2. x % PageSize \in Int /\ i * PageSize = PageSize * i
      BY <1>1, <1>2, <1>3
    <2> QED
      BY <1>1, <1>2, <1>3, <2>1, <2>2
  <1>5. CASE i < NCode
    <2>1. i \in Places
      BY <1>1, <1>3, <1>5 DEF Places
    <2>2. PageAt(a) = <<"code", i>>
      BY DEF PageAt, i, x
    <2> QED
      BY <2>1, <2>2
  <1> QED
    BY <1>1, <1>3, <1>4, <1>5

LEMMA PointerHolds ==
    ASSUME TypeOK, InSegment, CheckUserVirtualAddressValidity(Pointer)
    PROVE  /\ Pointer \in Nat /\ Source \in Nat /\ at.count \in Nat
           /\ \E i \in Places : PageAt(Pointer) = <<"code", i>>
  <1>1. loading \in Procs /\ program[loading] \in Programs
    BY DEF TypeOK, InSegment, AtHeader
  <1>2. at.header \in Nat \ {0} /\ at.count \in Nat
    BY DEF TypeOK
  <1>3. /\ program[loading] \in Seq([vaddr : Nat, memSize : Nat, offset : Nat])
        /\ \A i \in DOMAIN program[loading] :
              program[loading][i].vaddr + program[loading][i].memSize + 2 * PageSize
                  <= UserBase + NCode * PageSize
    BY <1>1, ProgramsAssumption
  <1>4. at.header \in DOMAIN program[loading]
    BY <1>2, <1>3 DEF InSegment, AtHeader
  <1>5. /\ Header \in [vaddr : Nat, memSize : Nat, offset : Nat]
        /\ Header.vaddr + Header.memSize + 2 * PageSize <= UserBase + NCode * PageSize
    <2> DEFINE prog == program[loading]
               headers == [vaddr : Nat, memSize : Nat, offset : Nat]
    <2>1. Header = prog[at.header]
      BY DEF Header
    <2>2. prog \in Seq(headers) /\ at.header \in DOMAIN prog
      BY <1>3, <1>4
    <2>3. \A i \in DOMAIN prog :
             prog[i].vaddr + prog[i].memSize + 2 * PageSize <= UserBase + NCode * PageSize
      BY <1>3
    <2> HIDE DEF prog, headers
    <2>4. prog[at.header] \in headers
      BY <2>2
    <2> QED
      BY <2>1, <2>2, <2>3, <2>4 DEF headers
  <1>6. /\ Header.vaddr \in Nat /\ Header.memSize \in Nat /\ Header.offset \in Nat
        /\ at.count < Header.memSize
    BY <1>5 DEF InSegment
  <1>7. /\ UserBase \in Nat /\ PageSize \in Nat /\ NCode \in Nat /\ NCode * PageSize \in Nat
    BY ProgramsAssumption
  <1>8. /\ Pointer \in Nat /\ Source \in Nat /\ UserBase <= Pointer
        /\ Pointer < UserBase + NCode * PageSize
    BY <1>2, <1>5, <1>6, <1>7 DEF Pointer, Source, CheckUserVirtualAddressValidity
  <1> QED
    BY <1>2, <1>8, PageAtHolds

LEMMA StoredHolds ==
    ASSUME TypeOK, Source \in Nat, NEW m
    PROVE  Stored(m) \in [Pages -> [Bytes -> Nat \cup {ZERO, ANY}]]
  <1> DEFINE hit(f, b) == {k \in Bytes : /\ WalkIn(m, cr3, PageAt(Pointer + k)) = f
                                         /\ (Pointer + k) % PageSize = b}
             byte(f, b) == IF f = NOPAGE \/ hit(f, b) = {} THEN data[f][b]
                           ELSE LET k == CHOOSE k \in hit(f, b) : TRUE
                                IN  IF k < CopySize THEN Source + k ELSE ZERO
  <1>1. Stored(m) = [f \in Pages |-> [b \in Bytes |-> byte(f, b)]]
    BY DEF Stored
  <1>2. ASSUME NEW f \in Pages, NEW b \in Bytes
        PROVE  byte(f, b) \in Nat \cup {ZERO, ANY}
    <2>1. data[f][b] \in Nat \cup {ZERO, ANY}
      BY DEF TypeOK
    <2>2. ASSUME hit(f, b) # {}
          PROVE  (CHOOSE k \in hit(f, b) : TRUE) \in Nat
      <3>1. (CHOOSE k \in hit(f, b) : TRUE) \in hit(f, b)
        BY <2>2
      <3>2. hit(f, b) \subseteq Bytes
        OBVIOUS
      <3>3. Bytes \subseteq Nat
        BY ProgramsAssumption DEF Bytes
      <3> QED
        BY <3>1, <3>2, <3>3
    <2> DEFINE k == CHOOSE k \in hit(f, b) : TRUE
    <2>3. byte(f, b) = IF f = NOPAGE \/ hit(f, b) = {} THEN data[f][b]
                       ELSE IF k < CopySize THEN Source + k ELSE ZERO
      OBVIOUS
    <2>4. hit(f, b) # {} => k \in Nat
      BY <2>2
    <2> HIDE DEF byte, k, hit
    <2> QED
      BY <2>1, <2>3, <2>4
  <1> HIDE DEF byte
  <1> QED
    BY <1>1, <1>2

LEMMA LoadPageKeeps ==
    ASSUME IInv, ~Lost, LoadPage
    PROVE  IInv'
  <1> DEFINE f == FreePage(used)
             u == Marking(used, f)
             p == loading
             d == proc[p].dir
  <1> USE DEF IInv
  <1>1. /\ InSegment /\ CheckUserVirtualAddressValidity(Pointer) /\ CanAlloc(Memory, 1)
        /\ BecomesMemory(AddPage(TakePage(Memory), cr3, PageAt(Pointer), f))
        /\ data' = Stored(AddPage(TakePage(Memory), cr3, PageAt(Pointer), f))
        /\ halted' \in BOOLEAN
        /\ at' = [header |-> at.header, count |-> at.count + PageSize]
        /\ heap' = heap /\ program' = program /\ cr3' = cr3 /\ saved' = saved
        /\ loading' = loading /\ irq' = irq /\ running' = running /\ grower' = grower
        /\ torn' = torn
    BY DEF LoadPage
  <1>2. proc' = [proc EXCEPT ![p] =
                    Process(@.dir, @.kstack, @.stack, @.code \cup {f}, @.started)]
    BY DEF LoadPage
  <1>3. NOPAGE \notin SlotPages
    BY DEF Lost, SlotPages
  <1>4. /\ used \subseteq Frames /\ proc \in [Procs -> ProcessRecord]
        /\ SlotPages \subseteq used
    BY <1>3 DEF TypeOK, HeldAreGiven, Given, ProcessRecord
  <1>5. p \in Created /\ p \in Procs /\ cr3 = d /\ d \in Pages
    BY <1>1, <1>4 DEF InSegment, AtHeader, LoadsInOwnDirectory, Created, DirectoriesAreOwn, Pages
  <1>6. /\ Fresh(used, f) /\ f \in Pages /\ f \notin used /\ u \subseteq Frames /\ used \subseteq u
        /\ u = used \cup ({f} \cap Frames)
        /\ (f = NOPAGE => Frames \subseteq used) /\ (f # NOPAGE => f \in u)
    BY <1>4, FreePageIsFresh, MarkingHolds DEF Fresh, Marking
  <1>7. /\ Pointer \in Nat /\ Source \in Nat /\ at.count \in Nat
        /\ \E i \in Places : PageAt(Pointer) = <<"code", i>>
    BY <1>1, PointerHolds
  <1>8. PICK i \in Places : PageAt(Pointer) = <<"code", i>>
    BY <1>7
  <1> HIDE DEF f
  <1>9. TakePage(Memory) = Having(u, slot, dir, table)
    BY DEF TakePage, Memory, Having, Marking, f
  <1> HIDE DEF u, d, p
  <1>10. \E t, NS : Mapped(u, d, "code", i, f, t, NS)
    <2>1. NOPAGE \notin PagesIn(slot) /\ PagesIn(slot) \subseteq u
      BY <1>3, <1>4, <1>6 DEF SlotPages, PagesIn
    <2>2. Distinct(slot)
      BY DEF SlotsAreDistinct, Distinct
    <2>3. /\ slot \in [Slots -> PageOrNone] /\ dir \in [Pages -> [Tables -> PageOrNone]]
          /\ table \in [Pages -> [Places -> PageOrNone]]
      BY DEF TypeOK
    <2>4. BecomesMemory(AddPage(Having(u, slot, dir, table), d, <<"code", i>>, f))
      BY <1>1, <1>5, <1>8, <1>9
    <2>5. CanAlloc(Having(u, slot, dir, table), 1)
      BY <1>1 DEF CanAlloc, FreeSlots, Memory, Having
    <2> QED
      BY <1>5, <1>6, <1>8, <2>1, <2>2, <2>3, <2>4, <2>5, PlacesHold, AddPageMaps
  <1>11. PICK t, NS : Mapped(u, d, "code", i, f, t, NS)
    BY <1>10
  <1>12. /\ proc' \in [Procs -> ProcessRecord]
         /\ \A q \in Procs : proc'[q].dir = proc[q].dir /\ proc'[q].stack = proc[q].stack
         /\ \A q \in Procs \ {p} : proc'[q].code = proc[q].code
         /\ proc'[p].code = proc[p].code \cup {f}
    <2>1. \A q \in Procs \ {p} : proc'[q] = proc[q]
      BY <1>2, <1>4
    <2>2. proc'[p] = Process(proc[p].dir, proc[p].kstack, proc[p].stack, proc[p].code \cup {f},
                             proc[p].started)
      BY <1>2, <1>4, <1>5
    <2>3. proc[p] \in ProcessRecord
      BY <1>4, <1>5
    <2>4. /\ proc'[p] \in ProcessRecord /\ proc'[p].dir = proc[p].dir
          /\ proc'[p].stack = proc[p].stack /\ proc'[p].code = proc[p].code \cup {f}
      BY <2>2, <2>3, <1>6 DEF Process, ProcessRecord
    <2>5. \A q \in Procs : proc'[q] \in ProcessRecord
      BY <2>1, <2>4, <1>4
    <2>6. proc' = [q \in Procs |-> proc'[q]]
      BY <1>2, <1>4
    <2> QED
      BY <2>1, <2>4, <2>5, <2>6
  <1>13. Created' = Created
    BY <1>12 DEF Created
  <1>14. /\ t \in Pages
         /\ \/ NS = {} /\ dir[d]["code"] = t /\ used' = u
            \/ NS = {t} /\ dir[d]["code"] = NONE /\ Fresh(u, t) /\ used' = Marking(u, t)
         /\ SlotPages' = SlotPages \cup NS
         /\ slot' \in [Slots -> PageOrNone]
         /\ dir' \in [Pages -> [Tables -> PageOrNone]]
         /\ table' \in [Pages -> [Places -> PageOrNone]]
    BY <1>11 DEF Mapped, SlotPages, PagesIn
  <1>15. TypeOK'
    <2>1. used' \subseteq Frames
      BY <1>6, <1>14 DEF Marking
    <2>2. data' \in [Pages -> [Bytes -> Nat \cup {ZERO, ANY}]]
      BY <1>1, <1>7, StoredHolds
    <2>3. at' \in [header : Nat \ {0}, count : Nat]
      <3>1. at.header \in Nat \ {0} /\ at.count + PageSize \in Nat
        BY <1>7, ProgramsAssumption DEF TypeOK
      <3> QED
        BY <1>1, <3>1
    <2> QED
      BY <1>1, <1>12, <1>14, <2>1, <2>2, <2>3 DEF TypeOK, ProcessRecord
  <1>16. f = NOPAGE \/ f \notin proc[p].code
    BY <1>5, <1>6 DEF HeldAreGiven, Given
  <1>17. SlotsAreDistinct' /\ DirectoriesAreOwn' /\ EntriesAreOwn'
    <2>1. \A q \in Created : /\ proc'[q].dir = proc[q].dir /\ proc'[q].stack = proc[q].stack
                             /\ proc[q].code \subseteq proc'[q].code
      BY <1>12 DEF Created
    <2>2. f \in proc'[p].code
      BY <1>12
    <2>3. Mapped(u, proc[p].dir, "code", i, f, t, NS)
      BY <1>11 DEF d
    <2> QED
      BY <1>3, <1>5, <1>6, <1>8, <1>13, <1>16, <2>1, <2>2, <2>3, PlacesHold, MappingKeeps
  <1>18. Gets(p, NS, {f}, {})
    <2>1. NS \subseteq Pages \ used /\ used' = used \cup ((NS \cup {f}) \cap Frames)
      BY <1>6, <1>14 DEF Fresh, Marking
    <2>2. NOPAGE \in NS \cup {f} => Frames \subseteq used'
      BY <1>6, <1>14 DEF Fresh, Marking
    <2>3. NS \cap {f} \subseteq {NOPAGE}
      BY <1>6, <1>14 DEF Fresh
    <2>4. /\ Created' = Created \cup {p}
          /\ \A q \in Created \ {p} :
                proc'[q].stack = proc[q].stack /\ proc'[q].code = proc[q].code
          /\ p \in Created /\ proc'[p].stack = proc[p].stack
          /\ proc'[p].code = proc[p].code \cup {f}
      BY <1>5, <1>12, <1>13 DEF Created
    <2>5. NS \cup {f} \cup {} = NS \cup {f} /\ NS \cup {f} \subseteq Pages \ used
      BY <1>6, <2>1
    <2> QED
      BY <1>1, <1>14, <2>1, <2>2, <2>3, <2>4, <2>5 DEF Gets
  <1>19. HeldAreGiven' /\ ProgramsAreApart' /\ HeapIsApart' /\ MarkedAreHeld'
    BY <1>5, <1>18, OwnersKeep
  <1>20. LoadsInOwnDirectory' /\ GrowerIsFree'
    <2>1. used \subseteq used'
      BY <1>18 DEF Gets
    <2>2. \A q \in Created : proc'[q].dir = proc[q].dir
      BY <1>12 DEF Created
    <2> QED
      BY <1>1, <1>13, <2>1, <2>2 DEF LoadsInOwnDirectory, GrowerIsFree
  <1> QED
    BY <1>15, <1>17, <1>19, <1>20

\* A process is created in pages that nobody had: its directory, its stacks.
LEMMA LoadElfKeeps ==
    ASSUME IInv, ~Lost, NEW p \in Procs, LoadElf(p)
    PROVE  IInv'
  <1> DEFINE f1 == FreePage(used)
             m0 == PageAlloc(Memory)
             m1 == EmptyDirectory(m0, f1)
             f2 == FreePage(m1.used)
             m2 == PageAlloc(m1)
             f3 == FreePage(m2.used)
             u1 == Marking(used, f1)
             u2 == Marking(u1, f2)
             s1 == FirstSlot(Memory)
             s2 == FirstSlot(m1)
             slot1 == [slot EXCEPT ![s1] = f1]
             slot2 == [slot1 EXCEPT ![s2] = f2]
             empty == [r \in Tables |-> NONE]
             dir1 == [dir EXCEPT ![f1] = empty]
  <1> USE DEF IInv
  <1>1. /\ Boot /\ loading = NOBODY /\ proc[p].dir = NONE /\ CanAlloc(Memory, 2)
        /\ BecomesMemory(TakePage(m2))
        /\ saved' = cr3 /\ cr3' = f1 /\ loading' = p /\ at' = [header |-> 1, count |-> 0]
        /\ data' = data /\ heap' = heap /\ program' = program /\ halted' = halted
        /\ irq' = irq /\ running' = running /\ grower' = grower /\ torn' = torn
    BY DEF LoadElf
  <1>2. proc' = [proc EXCEPT ![p] = Process(f1, f2, f3, {}, FALSE)]
    BY DEF LoadElf
  <1>3. /\ NOPAGE \notin SlotPages /\ p \notin Created
        /\ slot \in [Slots -> PageOrNone] /\ Distinct(slot)
        /\ dir \in [Pages -> [Tables -> PageOrNone]]
        /\ table \in [Pages -> [Places -> PageOrNone]]
    BY <1>1 DEF Lost, SlotPages, Created, TypeOK, SlotsAreDistinct, Distinct
  <1>4. /\ used \subseteq Frames /\ proc \in [Procs -> ProcessRecord]
        /\ SlotPages \subseteq used
    BY <1>3 DEF TypeOK, HeldAreGiven, Given, ProcessRecord
  <1>5. Fresh(used, f1) /\ f1 \in Pages /\ u1 \subseteq Frames /\ u1 = used \cup ({f1} \cap Frames)
    BY <1>4, FreePageIsFresh, MarkingHolds DEF Fresh, Marking
  <1>6. m1.used = u1 /\ m1.slot = slot1 /\ m1.dir = dir1 /\ m1.table = table
    BY DEF EmptyDirectory, PageAlloc, TakePage, Memory, Having, Marking
  <1>7. Fresh(u1, f2) /\ f2 \in Pages /\ u2 \subseteq Frames /\ u2 = u1 \cup ({f2} \cap Frames)
    <2> HIDE DEF m1, u1
    <2>1. Fresh(u1, f2)
      BY <1>5, <1>6, FreePageIsFresh
    <2> QED
      BY <2>1, <1>5 DEF Fresh, Marking
  <1>8. m2.used = u2 /\ m2.slot = slot2 /\ m2.dir = dir1 /\ m2.table = table
    <2> HIDE DEF m1, u1, slot1, dir1
    <2> QED
      BY <1>6 DEF PageAlloc, TakePage, Having, Marking
  <1>9. /\ used' = Marking(u2, f3) /\ slot' = slot2 /\ dir' = dir1 /\ table' = table
    <2> HIDE DEF m2, u2, slot2, dir1
    <2> QED
      BY <1>1, <1>8 DEF BecomesMemory, TakePage, Having, Marking
  <1>10. /\ Fresh(u2, f3) /\ f3 \in Pages
         /\ used' = u2 \cup ({f3} \cap Frames) /\ used' \subseteq Frames
    <2> HIDE DEF m2, u2
    <2>1. Fresh(u2, f3)
      BY <1>7, <1>8, FreePageIsFresh
    <2> QED
      BY <2>1, <1>7, <1>9 DEF Fresh, Marking
  <1>11. s1 \in Slots /\ slot[s1] = NONE /\ CanAlloc(m1, 1)
    <2>1. Memory.slot = slot /\ m1.slot = slot1
      BY <1>6 DEF Memory, Having
    <2> HIDE DEF m1
    <2>2. CanAlloc(Memory, 1) /\ CanAlloc(m1, 1)
      BY <2>1, <1>1, <1>3, <1>5, SecondSlotIsFree
    <2> QED
      BY <2>1, <2>2, FirstSlotIsFree
  <1>12. s2 \in Slots /\ slot1[s2] = NONE
    <2> HIDE DEF m1, slot1
    <2> QED
      BY <1>6, <1>11, FirstSlotIsFree
  <1> HIDE DEF m0, m1, m2, f1, f2, f3, s1, s2, u1, u2
  <1>13. f1 \notin SlotPages /\ f1 \notin used /\ (f1 = NOPAGE => Frames \subseteq used)
    BY <1>4, <1>5 DEF Fresh
  <1>14. /\ slot1 \in [Slots -> PageOrNone] /\ PagesIn(slot1) = SlotPages \cup {f1}
         /\ Distinct(slot1)
    <2>1. SlotPages = PagesIn(slot)
      BY DEF SlotPages, PagesIn
    <2> QED
      BY <2>1, <1>3, <1>5, <1>11, <1>13, SlotTaken
  <1> HIDE DEF slot1
  <1>15. f2 # NOPAGE => f2 \notin SlotPages \cup {f1}
    <2>1. f2 \notin u1
      BY <1>7 DEF Fresh
    <2>2. f2 # NOPAGE => f2 \in Frames
      BY <1>7 DEF Pages
    <2> QED
      BY <1>4, <1>5, <2>1, <2>2
  <1>16. /\ slot2 \in [Slots -> PageOrNone] /\ PagesIn(slot2) = (SlotPages \cup {f1}) \cup {f2}
         /\ Distinct(slot2)
    <2>1. f2 # NOPAGE => f2 \notin PagesIn(slot1)
      BY <1>14, <1>15
    <2>2. /\ slot2 \in [Slots -> PageOrNone] /\ PagesIn(slot2) = PagesIn(slot1) \cup {f2}
          /\ Distinct(slot2)
      BY <1>7, <1>12, <1>14, <2>1, SlotTaken
    <2> QED
      BY <1>14, <2>2
  <1> HIDE DEF slot2
  <1>17. SlotPages' = SlotPages \cup {f1, f2}
    BY <1>9, <1>16 DEF SlotPages, PagesIn
  <1>18. /\ dir' \in [Pages -> [Tables -> PageOrNone]]
         /\ \A r \in Tables : dir'[f1][r] = NONE
         /\ \A g \in Pages \ {f1} : dir'[g] = dir[g]
    BY <1>3, <1>5, <1>9, PagesHold
  <1> HIDE DEF dir1
  <1>19. /\ proc' \in [Procs -> ProcessRecord]
         /\ \A q \in Procs \ {p} : proc'[q] = proc[q]
         /\ proc'[p].dir = f1 /\ proc'[p].stack = f3 /\ proc'[p].code = {}
    <2>1. \A q \in Procs \ {p} : proc'[q] = proc[q]
      BY <1>2, <1>4
    <2>2. proc'[p] = Process(f1, f2, f3, {}, FALSE)
      BY <1>2, <1>4
    <2>3. /\ proc'[p] \in ProcessRecord
          /\ proc'[p].dir = f1 /\ proc'[p].stack = f3 /\ proc'[p].code = {}
      BY <2>2, <1>5, <1>7, <1>10, PagesHold DEF Process, ProcessRecord
    <2>4. \A q \in Procs : proc'[q] \in ProcessRecord
      BY <2>1, <2>3, <1>4
    <2>5. proc' = [q \in Procs |-> proc'[q]]
      BY <1>2, <1>4
    <2> QED
      BY <2>1, <2>3, <2>4, <2>5
  <1>20. Created' = Created \cup {p} /\ (\A q \in Created : proc'[q] = proc[q] /\ q # p)
    <2>1. f1 # NONE
      BY <1>5, PagesHold
    <2> QED
      BY <2>1, <1>3, <1>19 DEF Created
  <1>21. TypeOK'
    <2>1. cr3' \in Pages /\ saved' \in PageOrNone /\ loading' \in Procs
      BY <1>1, <1>5, PagesHold DEF TypeOK
    <2>2. at' \in [header : Nat \ {0}, count : Nat]
      BY <1>1
    <2> QED
      BY <1>1, <1>9, <1>10, <1>16, <1>18, <1>19, <2>1, <2>2 DEF TypeOK, ProcessRecord
  <1>22. SlotsAreDistinct'
    BY <1>9, <1>16 DEF SlotsAreDistinct, Distinct
  <1>23. \A q \in Created : proc[q].dir \in SlotPages /\ proc[q].dir \in Pages \ {f1}
    BY <1>4, <1>13 DEF DirectoriesAreOwn, Pages
  <1>24. /\ \A q \in Created : \A r \in Tables : TableOf(q, r)' = TableOf(q, r)
         /\ \A r \in Tables : TableOf(p, r)' = NONE
    BY <1>18, <1>19, <1>20, <1>23 DEF TableOf
  <1>25. DirectoriesAreOwn'
    <2>1. \A q \in Created' : /\ proc'[q].dir \in SlotPages'
                              /\ \A o \in Created' : proc'[q].dir = proc'[o].dir => q = o
      BY <1>17, <1>19, <1>20, <1>23 DEF DirectoriesAreOwn
    <2>2. \A q \in Created' : \A r \in Tables : TableOf(q, r)' # NONE =>
             /\ TableOf(q, r)' \in SlotPages'
             /\ \A o \in Created' : \A k \in Tables :
                   TableOf(q, r)' = TableOf(o, k)' => q = o /\ r = k
      BY <1>17, <1>20, <1>24 DEF DirectoriesAreOwn
    <2> QED
      BY <2>1, <2>2 DEF DirectoriesAreOwn
  <1>26. EntriesAreOwn'
    <2>1. "code" \in Tables /\ "stack" \in Tables
      BY PlacesHold
    <2> QED
      BY <2>1, <1>9, <1>20, <1>24 DEF EntriesAreOwn
  <1>27. Gets(p, {f1, f2}, {}, {f3})
    <2>1. {f1, f2} \cup {} \cup {f3} = {f1, f2, f3}
      OBVIOUS
    <2>2. {f1, f2, f3} \subseteq Pages \ used
      BY <1>5, <1>7, <1>10, <1>13 DEF Fresh
    <2>3. used' = used \cup ({f1, f2, f3} \cap Frames)
      BY <1>5, <1>7, <1>10
    <2>4. NOPAGE \in {f1, f2, f3} => Frames \subseteq used'
      BY <1>5, <1>7, <1>10 DEF Fresh
    <2>5. {f1, f2} \cap {f3} \subseteq {NOPAGE}
      <3>1. f3 # NOPAGE => f3 \in Frames /\ f3 \notin u2
        BY <1>10 DEF Fresh, Pages
      <3> QED
        BY <3>1, <1>5, <1>7
    <2>6. /\ Created' = Created \cup {p} /\ p \notin Created
          /\ \A q \in Created \ {p} :
                proc'[q].stack = proc[q].stack /\ proc'[q].code = proc[q].code
          /\ {f3} = {proc'[p].stack} /\ proc'[p].code = {}
      BY <1>3, <1>19, <1>20
    <2> QED
      BY <1>1, <1>17, <2>1, <2>2, <2>3, <2>4, <2>5, <2>6 DEF Gets
  <1>28. HeldAreGiven' /\ ProgramsAreApart' /\ HeapIsApart' /\ MarkedAreHeld'
    BY <1>27, OwnersKeep
  <1>29. LoadsInOwnDirectory' /\ GrowerIsFree'
    <2>1. used \subseteq used'
      BY <1>27 DEF Gets
    <2>2. running = NOBODY /\ ~irq
      BY <1>1 DEF Boot
    <2> QED
      BY <1>1, <1>19, <1>20, <2>1, <2>2 DEF LoadsInOwnDirectory, GrowerIsFree
  <1> QED
    BY <1>21, <1>22, <1>25, <1>26, <1>28, <1>29

\* What the parts of the invariant say only depends on the state of the memory
\* and on its owners.
LEMMA OwnersUnchanged ==
    ASSUME IInv, UNCHANGED <<used, slot, dir, table, heap, proc, torn>>
    PROVE  /\ HeldAreGiven' /\ SlotsAreDistinct' /\ ProgramsAreApart' /\ HeapIsApart'
           /\ DirectoriesAreOwn' /\ EntriesAreOwn' /\ MarkedAreHeld'
           /\ Created' = Created
  <1>1. Created' = Created /\ SlotPages' = SlotPages /\ Given' = Given
    BY DEF Created, SlotPages, Given
  <1>2. HeldAreGiven' /\ SlotsAreDistinct' /\ ProgramsAreApart' /\ HeapIsApart'
    BY <1>1 DEF IInv, HeldAreGiven, SlotsAreDistinct, ProgramsAreApart, HeapIsApart
  <1>3. DirectoriesAreOwn' /\ EntriesAreOwn' /\ MarkedAreHeld'
    BY <1>1 DEF IInv, DirectoriesAreOwn, EntriesAreOwn, MarkedAreHeld, TableOf
  <1> QED
    BY <1>1, <1>2, <1>3

LEMMA GrowFindKeeps ==
    ASSUME IInv, GrowFind
    PROVE  IInv'
  <1>1. /\ grower' = [by |-> running, page |-> FreePage(used)]
        /\ UNCHANGED <<used, slot, dir, table, data, heap, program, proc, cr3, saved, loading, at,
                       halted, irq, running, torn>>
    BY DEF GrowFind, memory, elf
  <1>2. used \subseteq Frames /\ Kernel \subseteq used
    BY DEF IInv, TypeOK, HeldAreGiven
  <1>3. Fresh(used, FreePage(used))
    BY <1>2, FreePageIsFresh
  <1>4. GrowerIsFree'
    BY <1>1, <1>2, <1>3 DEF GrowerIsFree, Fresh
  <1>5. TypeOK'
    <2>1. FreePage(used) \in PageOrNone /\ running \in Procs \cup {NOBODY}
      BY <1>3, PagesHold DEF Fresh, IInv, TypeOK
    <2> QED
      BY <1>1, <2>1 DEF IInv, TypeOK
  <1>6. LoadsInOwnDirectory'
    BY <1>1, OwnersUnchanged DEF IInv, LoadsInOwnDirectory
  <1> QED
    BY <1>1, <1>4, <1>5, <1>6, OwnersUnchanged DEF IInv

\* A page that ksbrk takes is free, or it tears what somebody has in it.
LEMMA GrowTakeKeeps ==
    ASSUME IInv, GrowTake
    PROVE  IInv'
  <1> DEFINE g == grower.page
  <1> USE DEF IInv
  <1>1. /\ g # NONE
        /\ torn' = (torn \/ g \in used)
        /\ used' = used \cup ({g} \cap Frames)
        /\ heap' = heap \cup {g}
        /\ dir' = [dir EXCEPT ![g] = [r \in Tables |-> NONE]]
        /\ table' = [table EXCEPT ![g] = CleanPageTable(@)]
        /\ data' = [data EXCEPT ![g] = [b \in Bytes |-> ZERO]]
        /\ grower' = [by |-> NOBODY, page |-> NONE]
        /\ UNCHANGED <<slot, program, proc, cr3, saved, loading, at, halted, irq, running>>
    BY DEF GrowTake, Growing, elf
  <1>2. /\ g \in Pages /\ g \notin Kernel /\ (g = NOPAGE => Frames \subseteq used)
        /\ used \subseteq Frames
    BY <1>1 DEF TypeOK, PageOrNone, GrowerIsFree
  <1>3. Created' = Created /\ SlotPages' = SlotPages
    BY <1>1 DEF Created, SlotPages
  <1>4. /\ dir' \in [Pages -> [Tables -> PageOrNone]]
        /\ \A d \in Pages : \A r \in Tables : dir'[d][r] \in {NONE, dir[d][r]}
    <2>1. dir \in [Pages -> [Tables -> PageOrNone]]
      BY DEF TypeOK
    <2> HIDE DEF g
    <2> QED
      BY <1>1, <1>2, <2>1, PagesHold
  <1>5. /\ table' \in [Pages -> [Places -> PageOrNone]]
        /\ \A d \in Pages : \/ table'[d] = table[d]
                            \/ \A i \in Places : table'[d][i] = NONE
    <2>1. table \in [Pages -> [Places -> PageOrNone]]
      BY DEF TypeOK
    <2> HIDE DEF g
    <2> QED
      BY <1>1, <1>2, <2>1, PagesHold DEF CleanPageTable
  <1>6. data' \in [Pages -> [Bytes -> Nat \cup {ZERO, ANY}]]
    <2>1. data \in [Pages -> [Bytes -> Nat \cup {ZERO, ANY}]]
      BY DEF TypeOK
    <2> HIDE DEF g
    <2> QED
      BY <1>1, <1>2, <2>1
  <1> HIDE DEF g
  <1>7. TypeOK'
    <2>1. used' \subseteq Frames /\ heap' \subseteq Pages /\ torn' \in BOOLEAN
      BY <1>1, <1>2 DEF TypeOK
    <2>2. grower' \in [by : Procs \cup {NOBODY}, page : PageOrNone]
      BY <1>1, PagesHold
    <2> QED
      BY <1>1, <1>4, <1>5, <1>6, <2>1, <2>2 DEF TypeOK
  <1>8. HeldAreGiven'
    <2>1. Given \subseteq Given' /\ g \in Given'
      BY <1>1, <1>2 DEF Given, Pages
    <2> QED
      BY <1>1, <1>3, <2>1 DEF HeldAreGiven
  <1>9. SlotsAreDistinct' /\ ProgramsAreApart'
    BY <1>1, <1>3 DEF SlotsAreDistinct, ProgramsAreApart
  <1>10. HeapIsApart'
    <2>1. CASE torn \/ g \in used
      BY <1>1, <2>1 DEF HeapIsApart
    <2>2. CASE ~torn /\ g \notin used
      <3>1. g # NOPAGE => g \notin Given
        BY <2>2 DEF Given
      <3> QED
        BY <2>2, <3>1, <1>1, <1>3 DEF HeapIsApart, HeldAreGiven
    <2> QED
      BY <2>1, <2>2
  <1>11. \A p \in Created : \A r \in Tables :
            /\ TableOf(p, r)' \in {NONE, TableOf(p, r)}
            /\ TableOf(p, r) # NONE => TableOf(p, r) \in SlotPages
    <2>1. \A p \in Created : proc[p].dir \in Pages
      BY <1>2 DEF DirectoriesAreOwn, HeldAreGiven, Given, Pages
    <2> QED
      BY <2>1, <1>1, <1>4 DEF TableOf, DirectoriesAreOwn
  <1>12. DirectoriesAreOwn'
    <2>1. \A p \in Created' : /\ proc'[p].dir \in SlotPages'
                              /\ \A q \in Created' : proc'[p].dir = proc'[q].dir => p = q
      BY <1>1, <1>3 DEF DirectoriesAreOwn
    <2>2. \A p \in Created' : \A r \in Tables : TableOf(p, r)' # NONE =>
             /\ TableOf(p, r)' \in SlotPages'
             /\ \A q \in Created' : \A k \in Tables :
                   TableOf(p, r)' = TableOf(q, k)' => p = q /\ r = k
      BY <1>3, <1>11 DEF DirectoriesAreOwn
    <2> QED
      BY <2>1, <2>2 DEF DirectoriesAreOwn
  <1>13. EntriesAreOwn'
    <2>1. \A p \in Created : \A r \in Tables : TableOf(p, r)' # NONE =>
             /\ TableOf(p, r)' = TableOf(p, r)
             /\ \/ table'[TableOf(p, r)] = table[TableOf(p, r)]
                \/ \A i \in Places : table'[TableOf(p, r)][i] = NONE
      <3>1. SlotPages \subseteq Pages
        BY <1>2 DEF HeldAreGiven, Given, Pages
      <3> QED
        BY <3>1, <1>5, <1>11
    <2> QED
      BY <2>1, <1>1, <1>3, PlacesHold DEF EntriesAreOwn
  <1>14. LoadsInOwnDirectory'
    BY <1>1, <1>3 DEF LoadsInOwnDirectory
  <1>15. MarkedAreHeld'
    <2> DEFINE held == heap \cup SlotPages \cup {proc[q].stack : q \in Created}
                       \cup UNION {proc[q].code : q \in Created}
    <2>1. (NOPAGE \in held => Frames \subseteq used) /\ used \subseteq Kernel \cup held
      BY DEF MarkedAreHeld
    <2>2. held' = held \cup {g}
      BY <1>1, <1>3
    <2> HIDE DEF held
    <2>3. (NOPAGE \in held' => Frames \subseteq used') /\ used' \subseteq Kernel \cup held'
      BY <2>1, <2>2, <1>1, <1>2
    <2> QED
      BY <2>3 DEF MarkedAreHeld, held
  <1>16. GrowerIsFree'
    BY <1>1, PagesHold DEF GrowerIsFree, Pages, Frames
  <1> QED
    BY <1>7, <1>8, <1>9, <1>10, <1>12, <1>13, <1>14, <1>15, <1>16

\* The other steps only move LoadElf on, or enable interrupts.
LEMMA OthersKeep ==
    ASSUME IInv, NextHeader \/ LoadEnd \/ EnableIrq \/ UNCHANGED vars
    PROVE  IInv'
  <1>1. UNCHANGED <<used, slot, dir, table, data, heap, program, proc, halted, running, grower,
                    torn>>
    BY DEF NextHeader, LoadEnd, EnableIrq, vars, memory, elf
  <1>2. TypeOK' /\ LoadsInOwnDirectory'
    <2>1. CASE NextHeader
      <3>1. at' = [header |-> at.header + 1, count |-> 0] /\ UNCHANGED <<cr3, saved, loading, irq>>
        BY <2>1 DEF NextHeader
      <3>2. at' \in [header : Nat \ {0}, count : Nat]
        BY <3>1 DEF IInv, TypeOK
      <3> QED
        BY <1>1, <3>1, <3>2, OwnersUnchanged DEF IInv, TypeOK, LoadsInOwnDirectory
    <2>2. CASE LoadEnd
      <3>1. cr3' = Restored(saved) /\ saved' = NONE /\ loading' = NOBODY /\ UNCHANGED <<at, irq>>
        BY <2>2 DEF LoadEnd
      <3>2. cr3' \in Pages /\ saved' \in PageOrNone
        BY <3>1, PagesHold DEF IInv, TypeOK, Restored, PageOrNone
      <3> QED
        BY <1>1, <3>1, <3>2, OwnersUnchanged DEF IInv, TypeOK, LoadsInOwnDirectory
    <2>3. CASE EnableIrq
      <3>1. irq' = TRUE /\ loading = NOBODY /\ UNCHANGED <<cr3, saved, loading, at>>
        BY <2>3 DEF EnableIrq, elf
      <3> QED
        BY <1>1, <3>1, OwnersUnchanged DEF IInv, TypeOK, LoadsInOwnDirectory
    <2>4. CASE UNCHANGED vars
      BY <2>4, OwnersUnchanged DEF IInv, TypeOK, LoadsInOwnDirectory, vars
    <2> QED
      BY <2>1, <2>2, <2>3, <2>4
  <1>3. GrowerIsFree'
    BY <1>1 DEF IInv, GrowerIsFree
  <1> QED
    BY <1>1, <1>2, <1>3, OwnersUnchanged DEF IInv

LEMMA InitHolds == Init => IInv
  <1> SUFFICES ASSUME Init
               PROVE  IInv
    OBVIOUS
  <1>1. Created = {} /\ SlotPages = {}
    BY DEF Init, Created, NoProc, Process, SlotPages
  <1>2. TypeOK
    <2>1. used \subseteq Frames /\ heap \subseteq Pages /\ slot \in [Slots -> PageOrNone]
      BY PagesHold DEF Init
    <2>2. 0 \in PageOrNone /\ NONE \in PageOrNone /\ KDIR \in Pages
      BY PagesHold DEF Pages, PageOrNone, KDIR
    <2>3. /\ dir \in [Pages -> [Tables -> PageOrNone]]
          /\ table \in [Pages -> [Places -> PageOrNone]]
      <3>1. \A f \in Pages : (IF f = KDIR THEN NONE ELSE 0) \in PageOrNone
        BY <2>2
      <3>2. dir \in [Pages -> [Tables -> PageOrNone]]
        BY <3>1 DEF Init
      <3>3. table \in [Pages -> [Places -> PageOrNone]]
        BY <2>2 DEF Init
      <3> QED
        BY <3>2, <3>3
    <2>4. NoProc \in ProcessRecord
      BY <2>2 DEF NoProc, Process, ProcessRecord
    <2>5. proc \in [Procs -> ProcessRecord]
      BY <2>4 DEF Init
    <2>6. data \in [Pages -> [Bytes -> Nat \cup {ZERO, ANY}]]
      BY DEF Init
    <2>7. /\ program \in [Procs -> Programs]
          /\ cr3 \in Pages /\ saved \in PageOrNone
          /\ loading \in Procs \cup {NOBODY} /\ running \in Procs \cup {NOBODY}
      BY <2>2 DEF Init
    <2>8. halted \in BOOLEAN /\ irq \in BOOLEAN /\ torn \in BOOLEAN
      BY DEF Init
    <2>9. /\ at \in [header : Nat \ {0}, count : Nat]
          /\ grower \in [by : Procs \cup {NOBODY}, page : PageOrNone]
      <3>1. at = [header |-> 1, count |-> 0] /\ grower = [by |-> NOBODY, page |-> NONE]
        BY DEF Init
      <3> QED
        BY <2>2, <3>1
    <2> QED
      BY <2>1, <2>3, <2>5, <2>6, <2>7, <2>8, <2>9 DEF TypeOK, ProcessRecord
  <1>3. HeldAreGiven /\ MarkedAreHeld
    BY <1>1 DEF Init, HeldAreGiven, MarkedAreHeld
  <1>4. ProgramsAreApart /\ HeapIsApart /\ DirectoriesAreOwn /\ EntriesAreOwn
    BY <1>1 DEF Init, ProgramsAreApart, HeapIsApart, DirectoriesAreOwn, EntriesAreOwn
  <1>5. SlotsAreDistinct /\ LoadsInOwnDirectory
    BY DEF Init, SlotsAreDistinct, LoadsInOwnDirectory
  <1>6. GrowerIsFree
    BY PagesHold DEF Init, GrowerIsFree, Pages
  <1> QED
    BY <1>2, <1>3, <1>4, <1>5, <1>6 DEF IInv

LEMMA NextKeeps == IInv /\ [Next]_vars => IInv'
  <1> SUFFICES ASSUME IInv, [Next]_vars
               PROVE  IInv'
    OBVIOUS
  <1>1. CASE Next
    BY <1>1, StartThreadKeeps, LoadElfKeeps, LoadPageKeeps, GrowFindKeeps, GrowTakeKeeps, OthersKeep
       DEF Next
  <1>2. CASE UNCHANGED vars
    BY <1>2, OthersKeep
  <1> QED
    BY <1>1, <1>2

LEMMA Invariance == Spec => []IInv
  BY InitHolds, NextKeeps, PTL DEF Spec

-----------------------------------------------------------------------------
(* What follows from it.                                                   *)

\* Entries, blocks and registers hold pages (AddPageToPageDirectory, PageAlloc,
\* CreateProcessPageDirectory, RestoreMemoryMapping), whatever was allocated,
\* mapped and cleared, and in whatever order.
THEOREM TypeCorrect == Spec => []TypeOK
  <1>1. IInv => TypeOK
    BY DEF IInv
  <1> QED
    BY <1>1, Invariance, PTL

\* What a process finds behind a user page is its stack, or a page that
\* LoadElf took for it and that is behind none of its other pages.
LEMMA WalksAreOwn ==
    ASSUME IInv, NEW p \in Created
    PROVE  /\ Walk(proc[p].dir, StackPage) \in {NONE, proc[p].stack}
           /\ \A page \in CodePages : Walk(proc[p].dir, page) \in proc[p].code \cup {NONE}
           /\ \A page, other \in CodePages :
                 /\ Walk(proc[p].dir, page) \notin {NONE, NOPAGE}
                 /\ Walk(proc[p].dir, page) = Walk(proc[p].dir, other)
                 => page = other
  <1>1. Walk(proc[p].dir, StackPage) =
           IF TableOf(p, "stack") = NONE THEN NONE ELSE table[TableOf(p, "stack")][0]
    BY DEF Walk, WalkIn, Memory, Having, StackPage, TableOf
  <1>2. \A i \in Places : Walk(proc[p].dir, <<"code", i>>) =
           IF TableOf(p, "code") = NONE THEN NONE ELSE table[TableOf(p, "code")][i]
    BY DEF Walk, WalkIn, Memory, Having, TableOf
  <1>3. Walk(proc[p].dir, StackPage) \in {NONE, proc[p].stack}
    BY <1>1 DEF IInv, EntriesAreOwn
  <1>4. ASSUME NEW i \in Places
        PROVE  Walk(proc[p].dir, <<"code", i>>) \in proc[p].code \cup {NONE}
    <2>1. CASE TableOf(p, "code") = NONE
      BY <2>1, <1>2
    <2>2. CASE TableOf(p, "code") # NONE
      <3>1. table[TableOf(p, "code")][i] \in proc[p].code \cup {NONE}
        BY <2>2 DEF IInv, EntriesAreOwn
      <3> QED
        BY <2>2, <3>1, <1>2
    <2> QED
      BY <2>1, <2>2
  <1>5. ASSUME NEW i \in Places, NEW j \in Places,
               Walk(proc[p].dir, <<"code", i>>) \notin {NONE, NOPAGE},
               Walk(proc[p].dir, <<"code", i>>) = Walk(proc[p].dir, <<"code", j>>)
        PROVE  i = j
    <2>1. TableOf(p, "code") # NONE
      BY <1>2, <1>5
    <2>2. \A k \in Places : Walk(proc[p].dir, <<"code", k>>) = table[TableOf(p, "code")][k]
      BY <2>1, <1>2
    <2>3. \A k, l \in Places :
             /\ table[TableOf(p, "code")][k] \notin {NONE, NOPAGE}
             /\ table[TableOf(p, "code")][k] = table[TableOf(p, "code")][l]
             => k = l
      BY <2>1 DEF IInv, EntriesAreOwn
    <2>4. /\ table[TableOf(p, "code")][i] \notin {NONE, NOPAGE}
          /\ table[TableOf(p, "code")][i] = table[TableOf(p, "code")][j]
      BY <2>2, <1>5
    <2> QED
      BY <2>3, <2>4
  <1> QED
    BY <1>3, <1>4, <1>5 DEF CodePages

\* The uses of pages, kind by kind, and the page that each one has.
IsHeapUse(u) == \E f \in heap : u = <<"heap", f>> /\ PageOf(u) = f
IsSlotUse(u) == \E s \in Slots : u = <<"slot", s>> /\ PageOf(u) = slot[s] /\ slot[s] # NONE
IsStackUse(u) ==
    \E p \in Created : u = <<"user", p, StackPage>> /\ PageOf(u) = Walk(proc[p].dir, StackPage)
IsCodeUse(u) ==
    \E p \in Created : \E page \in CodePages :
        u = <<"user", p, page>> /\ PageOf(u) = Walk(proc[p].dir, page)

LEMMA UsesAre ==
    ASSUME NEW u
    PROVE  u \in Uses <=> IsHeapUse(u) \/ IsSlotUse(u) \/ IsStackUse(u) \/ IsCodeUse(u)
  <1>1. \A f : PageOf(<<"heap", f>>) = f
    BY DEF PageOf
  <1>2. \A s : PageOf(<<"slot", s>>) = slot[s]
    BY DEF PageOf
  <1>3. \A p, page : PageOf(<<"user", p, page>>) = Walk(proc[p].dir, page)
    BY DEF PageOf
  <1>4. u \in Uses <=>
           \/ \E f \in heap : u = <<"heap", f>>
           \/ \E s \in Slots : slot[s] # NONE /\ u = <<"slot", s>>
           \/ \E p \in Created : \E page \in CodePages \cup {StackPage} : u = <<"user", p, page>>
    BY DEF Uses
  <1> QED
    BY <1>1, <1>2, <1>3, <1>4 DEF IsHeapUse, IsSlotUse, IsStackUse, IsCodeUse

\* Who holds the page of a use: what was given is marked, and is nobody else's.
LEMMA UsesAreHeld ==
    ASSUME IInv, NEW u, PageOf(u) \notin {NONE, NOPAGE}
    PROVE  /\ IsHeapUse(u) => PageOf(u) \in heap /\ u = <<"heap", PageOf(u)>>
           /\ IsSlotUse(u) => PageOf(u) \in SlotPages
           /\ IsStackUse(u) => \E p \in Created : /\ u = <<"user", p, StackPage>>
                                                  /\ PageOf(u) = proc[p].stack
           /\ IsCodeUse(u) => \E p \in Created : \E page \in CodePages :
                                 /\ u = <<"user", p, page>> /\ PageOf(u) = Walk(proc[p].dir, page)
                                 /\ PageOf(u) \in proc[p].code
  <1>1. IsHeapUse(u) => PageOf(u) \in heap /\ u = <<"heap", PageOf(u)>>
    BY DEF IsHeapUse
  <1>2. IsSlotUse(u) => PageOf(u) \in SlotPages
    BY DEF IsSlotUse, SlotPages
  <1>3. ASSUME IsStackUse(u)
        PROVE  \E p \in Created : u = <<"user", p, StackPage>> /\ PageOf(u) = proc[p].stack
    BY <1>3, WalksAreOwn DEF IsStackUse
  <1>4. ASSUME IsCodeUse(u)
        PROVE  \E p \in Created : \E page \in CodePages :
                  /\ u = <<"user", p, page>> /\ PageOf(u) = Walk(proc[p].dir, page)
                  /\ PageOf(u) \in proc[p].code
    BY <1>4, WalksAreOwn DEF IsCodeUse
  <1> QED
    BY <1>1, <1>2, <1>3, <1>4

LEMMA OneUse ==
    ASSUME IInv, ~torn, NEW u \in Uses, PageOf(u) \notin {NONE, NOPAGE}
    PROVE  /\ PageOf(u) \in used \ Kernel
           /\ \A v \in Uses : PageOf(v) = PageOf(u) => u = v
  <1> DEFINE f == PageOf(u)
  <1>1. IsHeapUse(u) \/ IsSlotUse(u) \/ IsStackUse(u) \/ IsCodeUse(u)
    BY UsesAre
  <1>2. f \in Given
    BY <1>1, UsesAreHeld DEF IInv, HeldAreGiven
  <1>3. f \in used \ Kernel
    BY <1>2 DEF Given
  <1>4. /\ heap \cap SlotPages \subseteq {NOPAGE}
        /\ \A p \in Created : /\ proc[p].stack \in heap => proc[p].stack = NOPAGE
                              /\ heap \cap proc[p].code \subseteq {NOPAGE}
    BY DEF IInv, HeapIsApart
  <1>5. \A p \in Created :
           /\ proc[p].stack # NOPAGE =>
                 /\ proc[p].stack \notin SlotPages
                 /\ \A q \in Created : /\ proc[p].stack \notin proc[q].code
                                       /\ proc[p].stack = proc[q].stack => p = q
           /\ proc[p].code \cap SlotPages \subseteq {NOPAGE}
           /\ \A q \in Created \ {p} : proc[p].code \cap proc[q].code \subseteq {NOPAGE}
    BY DEF IInv, ProgramsAreApart
  <1>6. ASSUME NEW v \in Uses, PageOf(v) = f
        PROVE  u = v
    <2>1. IsHeapUse(v) \/ IsSlotUse(v) \/ IsStackUse(v) \/ IsCodeUse(v)
      BY UsesAre
    <2>2. PageOf(v) \notin {NONE, NOPAGE}
      BY <1>6
    <2>3. CASE IsHeapUse(u)
      <3>1. f \in heap /\ u = <<"heap", f>>
        BY <2>3, UsesAreHeld
      <3>2. IsHeapUse(v)
        BY <2>1, <2>2, <3>1, <1>4, <1>6, UsesAreHeld
      <3> QED
        BY <2>2, <3>1, <3>2, <1>6, UsesAreHeld
    <2>4. CASE IsSlotUse(u)
      <3>1. f \in SlotPages
        BY <2>4, UsesAreHeld
      <3>2. IsSlotUse(v)
        BY <2>1, <2>2, <3>1, <1>4, <1>5, <1>6, UsesAreHeld
      <3>3. PICK s, t \in Slots : /\ u = <<"slot", s>> /\ f = slot[s]
                                  /\ v = <<"slot", t>> /\ f = slot[t]
        BY <2>4, <3>2, <1>6 DEF IsSlotUse
      <3>4. s = t
        BY <3>3 DEF IInv, SlotsAreDistinct
      <3> QED
        BY <3>3, <3>4
    <2>5. CASE IsStackUse(u)
      <3>1. PICK p \in Created : u = <<"user", p, StackPage>> /\ f = proc[p].stack
        BY <2>5, UsesAreHeld
      <3>2. f # NOPAGE
        OBVIOUS
      <3> HIDE DEF f
      <3>3. IsStackUse(v)
        BY <2>1, <2>2, <3>1, <3>2, <1>4, <1>5, <1>6, UsesAreHeld
      <3>4. PICK q \in Created : v = <<"user", q, StackPage>> /\ PageOf(v) = proc[q].stack
        BY <2>2, <3>3, UsesAreHeld
      <3>5. p = q
        BY <3>1, <3>2, <3>4, <1>5, <1>6
      <3> QED
        BY <3>1, <3>4, <3>5
    <2>6. CASE IsCodeUse(u)
      <3>1. PICK p \in Created, page \in CodePages :
               u = <<"user", p, page>> /\ f = Walk(proc[p].dir, page) /\ f \in proc[p].code
        BY <2>6, UsesAreHeld
      <3>2. f \notin {NONE, NOPAGE}
        OBVIOUS
      <3> HIDE DEF f
      <3>3. IsCodeUse(v)
        BY <2>1, <2>2, <3>1, <3>2, <1>4, <1>5, <1>6, UsesAreHeld
      <3>4. PICK q \in Created, other \in CodePages :
               /\ v = <<"user", q, other>> /\ PageOf(v) = Walk(proc[q].dir, other)
               /\ PageOf(v) \in proc[q].code
        BY <2>2, <3>3, UsesAreHeld
      <3>5. p = q
        BY <3>1, <3>2, <3>4, <1>5, <1>6
      <3>6. page = other
        BY <3>1, <3>2, <3>4, <3>5, <1>6, WalksAreOwn
      <3> QED
        BY <3>1, <3>4, <3>5, <3>6
    <2> QED
      BY <1>1, <2>3, <2>4, <2>5, <2>6
  <1> QED
    BY <1>3, <1>6

\* No page of the machine is given twice and none of the kernel's is given
\* (GetFreePage, PageAlloc, LoadElf, ThreadPrepare, ksbrk), in a memory of any
\* size and for any programs, unless ksbrk was overtaken (torn).
THEOREM FramesOnce == Spec => []FramesHaveOneUse
  <1>1. IInv => FramesHaveOneUse
    <2> SUFFICES ASSUME IInv
                 PROVE  FramesHaveOneUse
      OBVIOUS
    <2>1. TypeOK
      BY DEF IInv
    <2>2. torn \/ \A u \in Uses : PageOf(u) \notin {NONE, NOPAGE} =>
                     /\ PageOf(u) \in used \ Kernel
                     /\ \A v \in Uses : PageOf(v) = PageOf(u) => u = v
      BY OneUse
    <2> QED
      BY <2>1, <2>2 DEF FramesHaveOneUse
  <1> QED
    BY <1>1, Invariance, PTL

\* Page -1 comes when every page is taken, and not before, and no page that is
\* marked has been forgotten (GetFreePage, which nothing undoes).
THEOREM MemoryAccounted == Spec => []MemoryIsAccountedFor
  <1>1. IInv => MemoryIsAccountedFor
    <2> SUFFICES ASSUME IInv
                 PROVE  MemoryIsAccountedFor
      OBVIOUS
    <2> DEFINE own == {proc[p].stack : p \in Created} \cup UNION {proc[p].code : p \in Created}
               held == {PageOf(u) : u \in Uses} \cup {proc[p].stack : p \in Created}
                       \cup UNION {proc[p].code : p \in Created}
               all == heap \cup SlotPages \cup own
    <2>1. /\ NOPAGE \in all => Frames \subseteq used
          /\ used \subseteq Kernel \cup all
      BY DEF IInv, MarkedAreHeld
    <2>2. \A f \in own : f \in held
      OBVIOUS
    <2>3. \A f \in heap : f \in held
      <3>1. \A f \in heap : <<"heap", f>> \in Uses /\ PageOf(<<"heap", f>>) = f
        BY DEF Uses, PageOf
      <3> QED
        BY <3>1
    <2>4. \A f \in SlotPages : f \in held
      <3>1. \A s \in Slots : slot[s] # NONE =>
               <<"slot", s>> \in Uses /\ PageOf(<<"slot", s>>) = slot[s]
        BY DEF Uses, PageOf
      <3> QED
        BY <3>1 DEF SlotPages
    <2>5. \A f \in held : f \in all \cup {NONE}
      <3>1. ASSUME NEW u \in Uses
            PROVE  PageOf(u) \in all \cup {NONE}
        <4>1. CASE IsHeapUse(u)
          BY <4>1 DEF IsHeapUse
        <4>2. CASE IsSlotUse(u)
          BY <4>2 DEF IsSlotUse, SlotPages
        <4>3. CASE IsStackUse(u)
          BY <4>3, WalksAreOwn DEF IsStackUse
        <4>4. CASE IsCodeUse(u)
          BY <4>4, WalksAreOwn DEF IsCodeUse
        <4> QED
          BY <4>1, <4>2, <4>3, <4>4, UsesAre
      <3> QED
        BY <3>1
    <2>6. all \ {NOPAGE} \subseteq used
      BY DEF IInv, HeldAreGiven, Given
    <2>7. Kernel \subseteq used /\ NOPAGE \notin used /\ NONE \notin used /\ NONE # NOPAGE
      BY PagesHold DEF IInv, HeldAreGiven, TypeOK, Pages
    <2> HIDE DEF held, all, own
    <2>8. NOPAGE \in held => Frames \subseteq used
      BY <2>1, <2>5, <2>7
    <2>9. all \subseteq held
      BY <2>2, <2>3, <2>4 DEF all
    <2>10. used = Kernel \cup (held \ {NONE, NOPAGE})
      BY <2>1, <2>5, <2>6, <2>7, <2>9
    <2> QED
      BY <2>8, <2>10 DEF MemoryIsAccountedFor, held
  <1> QED
    BY <1>1, Invariance, PTL

-----------------------------------------------------------------------------
(* What processes see.                                                     *)

\* Who has the processor decides on the directory, and only LoadElf saves one.
RegistersFollow ==
    /\ saved = IF loading = NOBODY THEN NONE ELSE KDIR
    /\ cr3 = IF running # NOBODY THEN proc[running].dir
             ELSE IF loading # NOBODY THEN proc[loading].dir ELSE KDIR
    /\ running # NOBODY => irq
    /\ irq => loading = NOBODY

\* LoadElf has come past headers that do not end it, page by page.
LoadIsOnItsWay ==
    loading # NOBODY =>
        /\ at.header <= Len(program[loading]) + 1
        /\ \A j \in 1..(at.header - 1) : ~Ends(program[loading][j])
        /\ at.count % PageSize = 0
        /\ at.count > 0 => at.header \in DOMAIN program[loading] /\ ~Ends(Header)

\* LoadElf has mapped the page c bytes into header i of process p.
Turned(p, i, c) ==
    /\ i \in Loads(p)
    /\ c \in 0..(program[p][i].memSize - 1) /\ c % PageSize = 0
    /\ p = loading => i < at.header \/ (i = at.header /\ c < at.count)
TurnOf(p, i, c) == PageAt(program[p][i].vaddr + c)

StacksAreMapped ==
    torn \/ \A p \in Created : Walk(proc[p].dir, StackPage) =
                                  IF proc[p].started THEN proc[p].stack ELSE NONE

\* The pages behind the addresses of a process are those of its turns, and
\* each holds what the turn has copied.
PagesSeen(p) ==
    \A page \in CodePages :
        Walk(proc[p].dir, page) # NONE <=>
            \E i \in Loads(p) : \E c \in 0..(program[p][i].memSize - 1) :
                Turned(p, i, c) /\ page = TurnOf(p, i, c)
PagesAreTurned == torn \/ \A p \in Created : PagesSeen(p)

BytesSeen(p) ==
    \A i \in Loads(p) : \A c \in 0..(program[p][i].memSize - 1) :
        Turned(p, i, c) /\ Walk(proc[p].dir, TurnOf(p, i, c)) # NOPAGE =>
            \A b \in Bytes : data[Walk(proc[p].dir, TurnOf(p, i, c))][b]
                                 = ByteOf(program[p][i], c + b)
BytesAreOfFile == torn \/ \A p \in Created : WellMade(p) => BytesSeen(p)

HaltHasCause == halted => ~WellMade(loading)

SInv ==
    /\ RegistersFollow
    /\ LoadIsOnItsWay
    /\ StacksAreMapped
    /\ PagesAreTurned
    /\ BytesAreOfFile
    /\ HaltHasCause

\* The page behind place i of the table r of process p.
Behind(p, r, i) == Walk(proc[p].dir, <<r, i>>)

LEMMA BehindIs ==
    ASSUME NEW p, NEW r, NEW i
    PROVE  /\ Behind(p, r, i) =
                 IF TableOf(p, r) = NONE THEN NONE ELSE table[TableOf(p, r)][i]
           /\ Behind(p, r, i)' =
                 IF TableOf(p, r)' = NONE THEN NONE ELSE table'[TableOf(p, r)'][i]
  BY DEF Behind, Walk, WalkIn, Memory, Having, TableOf

\* Only what process p has at place i of its table r has changed.
Shows(p, r, i, f) ==
    \A q \in Created : \A k \in Tables : \A j \in Places :
        Behind(q, k, j)' = IF q = p /\ k = r /\ j = i THEN f ELSE Behind(q, k, j)

\* A page is mapped: nothing else changes for anybody.
LEMMA MappingShows ==
    ASSUME IInv, NOPAGE \notin SlotPages, NEW p \in Created, NEW r \in Tables, NEW i \in Places,
           NEW f \in Pages, NEW t, NEW NS, NEW u, used \subseteq u,
           Mapped(u, proc[p].dir, r, i, f, t, NS),
           \A q \in Created : proc'[q].dir = proc[q].dir
    PROVE  Shows(p, r, i, f)
  <1> DEFINE d == proc[p].dir
  <1>1. /\ t \in Pages
        /\ \A e \in Pages : \A k \in Tables : e # d \/ k # r => dir'[e][k] = dir[e][k]
        /\ dir'[d][r] = t
        /\ \A g \in Pages \ {t} : table'[g] = table[g]
        /\ table'[t][i] = f
        /\ NS = {} => \A j \in Places \ {i} : table'[t][j] = table[t][j]
        /\ NS # {} => \A j \in Places \ {i} : table'[t][j] = NONE
    BY DEF Mapped
  <1>2. \/ NS = {} /\ TableOf(p, r) = t
        \/ NS = {t} /\ TableOf(p, r) = NONE /\ t \notin used
    BY DEF Mapped, TableOf, Fresh
  <1>3. SlotPages \subseteq used /\ used \subseteq Frames
    BY DEF IInv, HeldAreGiven, Given, TypeOK
  <1>4. \A q \in Created : /\ proc[q].dir \in Pages
                           /\ proc[q].dir = d => q = p
    BY <1>3 DEF IInv, DirectoriesAreOwn, Pages
  <1>5. /\ TableOf(p, r)' = t
        /\ \A q \in Created : \A k \in Tables :
              q # p \/ k # r => TableOf(q, k)' = TableOf(q, k)
    BY <1>1, <1>4 DEF TableOf
  <1>6. \A q \in Created : \A k \in Tables : TableOf(q, k) # NONE =>
           /\ TableOf(q, k) \in SlotPages
           /\ TableOf(q, k) = TableOf(p, r) => q = p /\ k = r
    BY DEF IInv, DirectoriesAreOwn
  <1>7. \A q \in Created : \A k \in Tables :
           (q # p \/ k # r) /\ TableOf(q, k) # NONE =>
               table'[TableOf(q, k)'] = table[TableOf(q, k)]
    BY <1>1, <1>2, <1>3, <1>5, <1>6 DEF Pages
  <1>8. \A j \in Places : Behind(p, r, j)' = IF j = i THEN f ELSE Behind(p, r, j)
    BY <1>1, <1>2, <1>5, PagesHold, BehindIs
  <1>9. \A q \in Created : \A k \in Tables : \A j \in Places :
           q # p \/ k # r => Behind(q, k, j)' = Behind(q, k, j)
    BY <1>5, <1>7, BehindIs
  <1> QED
    BY <1>8, <1>9 DEF Shows

-----------------------------------------------------------------------------
(* Addresses and pages.                                                    *)

LEMMA HeaderHolds ==
    ASSUME TypeOK, NEW p \in Procs, NEW i \in DOMAIN program[p]
    PROVE  /\ program[p][i].vaddr \in Nat /\ program[p][i].memSize \in Nat
           /\ program[p][i].offset \in Nat
           /\ program[p][i].vaddr + program[p][i].memSize + 2 * PageSize
                 <= UserBase + NCode * PageSize
           /\ i \in Nat \ {0}
  <1> DEFINE prog == program[p]
             headers == [vaddr : Nat, memSize : Nat, offset : Nat]
  <1>1. prog \in Seq(headers)
    BY ProgramsAssumption DEF TypeOK
  <1>2. \A k \in DOMAIN prog :
           prog[k].vaddr + prog[k].memSize + 2 * PageSize <= UserBase + NCode * PageSize
    BY ProgramsAssumption DEF TypeOK
  <1> HIDE DEF prog, headers
  <1>3. i \in DOMAIN prog
    BY DEF prog
  <1>4. prog[i] \in headers /\ i \in Nat \ {0}
    BY <1>1, <1>3
  <1>5. prog[i].vaddr \in Nat /\ prog[i].memSize \in Nat /\ prog[i].offset \in Nat
    BY <1>4 DEF headers
  <1> QED
    BY <1>2, <1>3, <1>4, <1>5 DEF prog

\* What a turn maps is a page of the code.
LEMMA TurnHolds ==
    ASSUME TypeOK, NEW p \in Procs, NEW i \in Loads(p),
           NEW c \in 0..(program[p][i].memSize - 1)
    PROVE  /\ TurnOf(p, i, c) \in CodePages
           /\ program[p][i].vaddr + c \in Nat /\ UserBase <= program[p][i].vaddr + c
  <1>1. i \in DOMAIN program[p] /\ i \in 1..i
    BY HeaderHolds DEF Loads
  <1>2. ~Ends(program[p][i])
    BY <1>1 DEF Loads
  <1> DEFINE h == program[p][i]
  <1>3. /\ h.vaddr \in Nat /\ h.memSize \in Nat
        /\ h.vaddr + h.memSize + 2 * PageSize <= UserBase + NCode * PageSize
    BY <1>1, HeaderHolds
  <1>4. h.memSize > 0 => UserBase <= h.vaddr
    BY <1>2, <1>3 DEF Ends, CheckUserVirtualAddressValidity
  <1> HIDE DEF h
  <1>5. PageSize \in Nat /\ UserBase \in Nat /\ NCode * PageSize \in Nat
    BY ProgramsAssumption
  <1>6. c \in Nat /\ c < h.memSize
    BY <1>3 DEF h
  <1>7. h.vaddr + c \in Nat /\ UserBase <= h.vaddr + c /\ h.vaddr + c < UserBase + NCode * PageSize
    BY <1>3, <1>4, <1>5, <1>6
  <1>8. \E j \in Places : PageAt(h.vaddr + c) = <<"code", j>>
    BY <1>7, PageAtHolds
  <1> QED
    BY <1>7, <1>8 DEF CodePages, TurnOf, h

LEMMA Divided ==
    ASSUME NEW P \in Nat \ {0}, NEW k \in Nat, NEW b \in 0..(P - 1)
    PROVE  (P * k + b) % P = b /\ (P * k + b) \div P = k
  <1> DEFINE x == P * k + b
             l == x \div P
             r == x % P
  <1>0. P * k \in Nat
    OBVIOUS
  <1>1. x \in Nat
    BY <1>0
  <1> HIDE DEF x
  <1>2. l \in Nat /\ r \in 0..(P - 1) /\ x = P * l + r
    BY <1>1
  <1> HIDE DEF l, r
  <1>3. ~(l < k)
    <2>1. ASSUME l < k PROVE FALSE
      <3>1. P * k >= P * (l + 1) /\ P * (l + 1) = P * l + P
        BY <1>2, <2>1
      <3>2. P * l \in Nat /\ P * (l + 1) \in Nat
        BY <1>2
      <3> QED
        BY <1>0, <1>2, <3>1, <3>2 DEF x
    <2> QED
      BY <2>1
  <1>4. ~(k < l)
    <2>1. ASSUME k < l PROVE FALSE
      <3>1. P * l >= P * (k + 1) /\ P * (k + 1) = P * k + P
        BY <1>2, <2>1
      <3>2. P * l \in Nat /\ P * (k + 1) \in Nat
        BY <1>2
      <3> QED
        BY <1>0, <1>2, <3>1, <3>2 DEF x
    <2> QED
      BY <2>1
  <1>5. k = l
    BY <1>2, <1>3, <1>4
  <1>6. r = b
    BY <1>0, <1>2, <1>5 DEF x
  <1> QED
    BY <1>5, <1>6 DEF l, r, x

LEMMA Multiple ==
    ASSUME NEW P \in Nat \ {0}, NEW k \in Nat
    PROVE  (P * k) % P = 0
  <1>1. 0 \in 0..(P - 1) /\ P * k + 0 = P * k
    OBVIOUS
  <1> QED
    BY <1>1, Divided

\* Multiples of a page.
LEMMA WholePages ==
    ASSUME NEW P \in Nat \ {0}, NEW x \in Nat, NEW y \in Nat, x % P = 0, y % P = 0
    PROVE  /\ (x + y) % P = 0 /\ (x + P) % P = 0
           /\ x <= y /\ y < x + P => x = y
  <1> DEFINE k == x \div P
             l == y \div P
  <1>1. /\ k \in Nat /\ l \in Nat /\ x = P * k /\ y = P * l
    OBVIOUS
  <1> HIDE DEF k, l
  <1>2. (x + y) % P = 0
    <2>1. x + y = P * (k + l) /\ k + l \in Nat
      BY <1>1
    <2> QED
      BY <2>1, Multiple
  <1>3. (x + P) % P = 0
    <2>1. x + P = P * (k + 1) /\ k + 1 \in Nat
      BY <1>1
    <2> QED
      BY <2>1, Multiple
  <1>4. x <= y /\ y < x + P => x = y
    <2> SUFFICES ASSUME x <= y, y < x + P
                 PROVE  x = y
      OBVIOUS
    <2>1. ~(l < k)
      <3>1. ASSUME l < k PROVE FALSE
        <4>1. P * k >= P * (l + 1) /\ P * (l + 1) = P * l + P
          BY <1>1, <3>1
        <4> QED
          BY <4>1, <1>1
      <3> QED
        BY <3>1
    <2>2. ~(k < l)
      <3>1. ASSUME k < l PROVE FALSE
        <4>1. P * l >= P * (k + 1) /\ P * (k + 1) = P * k + P
          BY <1>1, <3>1
        <4> QED
          BY <4>1, <1>1
      <3> QED
        BY <3>1
    <2>3. k = l
      BY <1>1, <2>1, <2>2
    <2> QED
      BY <1>1, <2>3
  <1> QED
    BY <1>2, <1>3, <1>4

LEMMA InsidePage ==
    ASSUME NEW P \in Nat \ {0}, NEW x \in Nat, x % P = 0, NEW b \in 0..(P - 1)
    PROVE  (x + b) % P = b /\ (x + b) \div P = x \div P
  <1> DEFINE k == x \div P
  <1>1. k \in Nat /\ x = P * k
    OBVIOUS
  <1> HIDE DEF k
  <1>2. (P * k + b) % P = b /\ (P * k + b) \div P = k
    BY <1>1, Divided
  <1> QED
    BY <1>1, <1>2 DEF k

\* The bytes from the beginning of a page on are the page's.
LEMMA PageBegins ==
    ASSUME NEW a \in Nat, UserBase <= a, a % PageSize = 0, NEW b \in Bytes
    PROVE  PageAt(a + b) = PageAt(a) /\ (a + b) % PageSize = b
  <1> DEFINE k == a \div PageSize
             l == UserBase \div PageSize
             x == a - UserBase
  <1>1. PageSize \in Nat \ {0} /\ UserBase \in Nat /\ UserBase % PageSize = 0
    BY ProgramsAssumption
  <1>2. k \in Nat /\ a = PageSize * k /\ l \in Nat /\ UserBase = PageSize * l
    BY <1>1
  <1>3. x \in Nat /\ (a + b) - UserBase = x + b /\ a - UserBase = x
    BY <1>1 DEF Bytes
  <1>4. x = PageSize * (k - l)
    BY <1>1, <1>2
  <1>5. k - l \in Nat
    <2>1. ASSUME k < l PROVE FALSE
      <3>1. PageSize * l >= PageSize * (k + 1) /\ PageSize * (k + 1) = PageSize * k + PageSize
        BY <1>1, <1>2, <2>1
      <3> QED
        BY <1>1, <1>2, <3>1
    <2> QED
      BY <1>2, <2>1
  <1> HIDE DEF k, l, x
  <1>6. x % PageSize = 0
    BY <1>1, <1>4, <1>5, Multiple
  <1>7. (x + b) \div PageSize = x \div PageSize /\ (a + b) % PageSize = b
    BY <1>1, <1>3, <1>6, InsidePage DEF Bytes
  <1> QED
    <2>1. PageAt(a + b) = <<"code", (x + b) \div PageSize>>
      BY <1>3 DEF PageAt
    <2>2. PageAt(a) = <<"code", x \div PageSize>>
      BY <1>3 DEF PageAt
    <2> QED
      BY <1>7, <2>1, <2>2

-----------------------------------------------------------------------------
(* A step that leaves the pages of a process and its turns as they are.    *)

LEMMA ProgramKeeps ==
    ASSUME program' = program, NEW q
    PROVE  /\ Loads(q)' = Loads(q) /\ (WellMade(q)' <=> WellMade(q))
           /\ \A i, c : TurnOf(q, i, c)' = TurnOf(q, i, c)
  <1>1. Loads(q)' = Loads(q)
    BY DEF Loads
  <1>2. Segments(q)' = Segments(q)
    BY <1>1 DEF Segments
  <1>3. WellMade(q)' <=> WellMade(q)
    BY <1>2 DEF WellMade
  <1> QED
    BY <1>1, <1>3 DEF TurnOf

SameTurns(q) ==
    \A i \in Loads(q) : \A c \in 0..(program[q][i].memSize - 1) :
        Turned(q, i, c)' <=> Turned(q, i, c)
SamePages(q) ==
    \A page \in CodePages : Walk(proc[q].dir, page)' = Walk(proc[q].dir, page)
SameBytes(q) ==
    \A page \in CodePages : Walk(proc[q].dir, page) \notin {NONE, NOPAGE} =>
        data'[Walk(proc[q].dir, page)] = data[Walk(proc[q].dir, page)]

LEMMA CodeKeeps ==
    ASSUME TypeOK, program' = program, NEW q \in Procs, SameTurns(q), SamePages(q), PagesSeen(q)
    PROVE  /\ PagesSeen(q)'
           /\ BytesSeen(q) /\ SameBytes(q) => BytesSeen(q)'
  <1>1. /\ Loads(q)' = Loads(q)
        /\ \A i, c : TurnOf(q, i, c)' = TurnOf(q, i, c)
    BY ProgramKeeps
  <1>2. PagesSeen(q)'
    BY <1>1 DEF PagesSeen, SameTurns, SamePages
  <1>3. ASSUME BytesSeen(q), SameBytes(q)
        PROVE  BytesSeen(q)'
    <2> SUFFICES ASSUME NEW i \in Loads(q), NEW c \in 0..(program[q][i].memSize - 1),
                        Turned(q, i, c)', Walk(proc[q].dir, TurnOf(q, i, c))' # NOPAGE,
                        NEW b \in Bytes
                 PROVE  data'[Walk(proc[q].dir, TurnOf(q, i, c))'][b]
                            = ByteOf(program[q][i], c + b)
      BY <1>1 DEF BytesSeen, ByteOf
    <2>1. TurnOf(q, i, c) \in CodePages /\ TurnOf(q, i, c)' = TurnOf(q, i, c)
      BY <1>1, TurnHolds
    <2>2. Walk(proc[q].dir, TurnOf(q, i, c))' = Walk(proc[q].dir, TurnOf(q, i, c))
      BY <1>1, <2>1 DEF SamePages, Walk, WalkIn, Memory, Having
    <2>3. Turned(q, i, c)
      BY DEF SameTurns
    <2>4. Walk(proc[q].dir, TurnOf(q, i, c)) # NONE
      BY <2>1, <2>3 DEF PagesSeen
    <2>5. data'[Walk(proc[q].dir, TurnOf(q, i, c))] = data[Walk(proc[q].dir, TurnOf(q, i, c))]
      BY <1>3, <2>1, <2>2, <2>4 DEF SameBytes
    <2> QED
      BY <1>3, <2>2, <2>3, <2>5 DEF BytesSeen
  <1> QED
    BY <1>2, <1>3

\* A process sees the same pages when its tables show the same.
LEMMA SamePagesBehind ==
    ASSUME NEW q, \A j \in Places : Behind(q, "code", j)' = Behind(q, "code", j)
    PROVE  SamePages(q)
  BY DEF SamePages, CodePages, Behind

\* What a process sees of the machine is its own.
LEMMA SeesOwn ==
    ASSUME IInv, NEW q \in Created, NEW page \in CodePages,
           Walk(proc[q].dir, page) \notin {NONE, NOPAGE}
    PROVE  Walk(proc[q].dir, page) \in proc[q].code /\ Walk(proc[q].dir, page) \in used
  BY WalksAreOwn DEF IInv, HeldAreGiven, Given

-----------------------------------------------------------------------------
(* Each step keeps what processes see.                                     *)

LEMMA CreatedHolds == Created \subseteq Procs /\ NOBODY \notin Procs
  BY DEF Created, Procs, NOBODY

\* The clock maps a stack, which no page of the code has to do with.
LEMMA StartThreadShows ==
    ASSUME IInv, SInv, ~Lost, NEW p \in Procs, PmStartThread(p)
    PROVE  SInv'
  <1> DEFINE f == proc[p].stack
             d == proc[p].dir
  <1> USE DEF SInv
  <1>1. /\ irq /\ p \in Created /\ CanAlloc(Memory, 1)
        /\ BecomesMemory(AddPage(Memory, d, StackPage, f))
        /\ saved' = NONE /\ cr3' = d /\ running' = p
        /\ data' = data /\ program' = program
        /\ loading' = loading /\ at' = at /\ halted' = halted
        /\ irq' = irq /\ torn' = torn
    BY DEF PmStartThread, elf, Created
  <1>2. proc' = [proc EXCEPT ![p] = Process(@.dir, @.kstack, @.stack, @.code, TRUE)]
    BY DEF PmStartThread
  <1>3. NOPAGE \notin SlotPages
    BY DEF Lost, SlotPages
  <1>4. /\ used \subseteq Frames /\ proc \in [Procs -> ProcessRecord]
        /\ SlotPages \subseteq used
    BY <1>3 DEF IInv, TypeOK, HeldAreGiven, Given, ProcessRecord
  <1>5. f \in Pages /\ d \in Pages
    BY <1>1, <1>4 DEF IInv, HeldAreGiven, Given, DirectoriesAreOwn, Pages
  <1>6. \E t, NS : Mapped(used, d, "stack", 0, f, t, NS)
    <2>1. NOPAGE \notin PagesIn(slot) /\ PagesIn(slot) \subseteq used
      BY <1>3, <1>4 DEF SlotPages, PagesIn
    <2>2. Distinct(slot)
      BY DEF IInv, SlotsAreDistinct, Distinct
    <2>3. /\ slot \in [Slots -> PageOrNone] /\ dir \in [Pages -> [Tables -> PageOrNone]]
          /\ table \in [Pages -> [Places -> PageOrNone]]
      BY DEF IInv, TypeOK
    <2> HIDE DEF f, d
    <2>4. /\ CanAlloc(Having(used, slot, dir, table), 1)
          /\ BecomesMemory(AddPage(Having(used, slot, dir, table), d, <<"stack", 0>>, f))
      BY <1>1 DEF Memory, StackPage
    <2> QED
      BY <1>4, <1>5, <2>1, <2>2, <2>3, <2>4, PlacesHold, AddPageMaps
  <1>7. PICK t, NS : Mapped(used, d, "stack", 0, f, t, NS)
    BY <1>6
  <1>8. /\ \A q \in Procs : proc'[q].dir = proc[q].dir /\ proc'[q].stack = proc[q].stack
        /\ \A q \in Procs \ {p} : proc'[q] = proc[q]
        /\ proc'[p].started
    BY <1>2, <1>4 DEF Process
  <1>9. Created' = Created
    BY <1>8 DEF Created
  <1>10. Shows(p, "stack", 0, f)
    <2>1. \A q \in Created : proc'[q].dir = proc[q].dir
      BY <1>8, CreatedHolds
    <2>2. Mapped(used, proc[p].dir, "stack", 0, f, t, NS) /\ used \subseteq used
      BY <1>7
    <2> HIDE DEF f
    <2> QED
      BY <1>1, <1>3, <1>5, <2>1, <2>2, PlacesHold, MappingShows
  <1>11. RegistersFollow' /\ LoadIsOnItsWay' /\ HaltHasCause'
    <2>1. RegistersFollow'
      BY <1>1, <1>8, CreatedHolds DEF RegistersFollow
    <2>2. LoadIsOnItsWay'
      BY <1>1 DEF LoadIsOnItsWay, Header
    <2>3. HaltHasCause'
      BY <1>1, ProgramKeeps DEF HaltHasCause
    <2> QED
      BY <2>1, <2>2, <2>3
  <1>12. StacksAreMapped'
    <2> SUFFICES ASSUME ~torn, NEW q \in Created
                 PROVE  Behind(q, "stack", 0)' =
                           IF proc'[q].started THEN proc'[q].stack ELSE NONE
      BY <1>1, <1>9 DEF StacksAreMapped, Behind, StackPage
    <2>1. Behind(q, "stack", 0) = IF proc[q].started THEN proc[q].stack ELSE NONE
      BY DEF StacksAreMapped, Behind, StackPage
    <2> QED
      BY <2>1, <1>8, <1>10, CreatedHolds, PlacesHold DEF Shows
  <1>13. \A q \in Created : SameTurns(q) /\ SamePages(q) /\ SameBytes(q)
    <2>1. \A q \in Created : SamePages(q)
      BY <1>10, PlacesHold, SamePagesBehind DEF Shows
    <2> QED
      BY <2>1, <1>1, ProgramKeeps DEF SameTurns, SameBytes, Turned
  <1>14. PagesAreTurned' /\ BytesAreOfFile'
    <2>1. TypeOK /\ Created \subseteq Procs
      BY CreatedHolds DEF IInv
    <2> QED
      BY <2>1, <1>1, <1>9, <1>13, CodeKeeps, ProgramKeeps DEF PagesAreTurned, BytesAreOfFile
  <1> QED
    BY <1>11, <1>12, <1>14

\* A new process has no pages yet, and its directory is nobody else's.
LEMMA LoadElfShows ==
    ASSUME IInv, SInv, ~Lost, ~halted, NEW p \in Procs, LoadElf(p)
    PROVE  SInv'
  <1> DEFINE f == FreePage(used)
             m1 == EmptyDirectory(PageAlloc(Memory), f)
             m2 == PageAlloc(m1)
             stack == FreePage(m2.used)
             kstack == FreePage(m1.used)
  <1> USE DEF SInv
  <1>1. /\ Boot /\ loading = NOBODY /\ proc[p].dir = NONE
        /\ BecomesMemory(TakePage(m2))
        /\ saved' = cr3 /\ cr3' = f /\ loading' = p /\ at' = [header |-> 1, count |-> 0]
        /\ data' = data /\ program' = program /\ halted' = halted
        /\ irq' = irq /\ running' = running /\ torn' = torn
    BY DEF LoadElf
  <1>2. proc' = [proc EXCEPT ![p] = Process(f, kstack, stack, {}, FALSE)]
    BY DEF LoadElf
  <1>3. dir' = [dir EXCEPT ![f] = [r \in Tables |-> NONE]] /\ table' = table
    <2>1. m1.dir = [dir EXCEPT ![f] = [r \in Tables |-> NONE]] /\ m1.table = table
      BY DEF EmptyDirectory, PageAlloc, TakePage, Memory, Having
    <2> HIDE DEF m1
    <2>2. m2.dir = m1.dir /\ m2.table = m1.table
      BY DEF PageAlloc, TakePage, Having
    <2> HIDE DEF m2
    <2>3. dir' = m2.dir /\ table' = m2.table
      BY <1>1 DEF BecomesMemory, TakePage, Having
    <2> QED
      BY <2>1, <2>2, <2>3
  <1> HIDE DEF m1, m2, stack, kstack
  <1>4. /\ NOPAGE \notin SlotPages /\ p \notin Created /\ p # NOBODY
        /\ used \subseteq Frames /\ proc \in [Procs -> ProcessRecord]
        /\ dir \in [Pages -> [Tables -> PageOrNone]]
    BY <1>1, CreatedHolds DEF Lost, SlotPages, Created, IInv, TypeOK, ProcessRecord
  <1>5. f \in Pages /\ f \notin used /\ f # NONE
    <2>1. Fresh(used, f)
      BY <1>4, FreePageIsFresh
    <2> HIDE DEF f
    <2> QED
      BY <2>1, PagesHold DEF Fresh
  <1> HIDE DEF f
  <1>6. \A q \in Procs \ {p} : proc'[q] = proc[q]
    BY <1>2, <1>4
  <1>7. proc'[p].dir = f /\ ~proc'[p].started
    BY <1>2, <1>4 DEF Process
  <1>8. Created' = Created \cup {p}
    BY <1>4, <1>5, <1>6, <1>7 DEF Created
  <1>9. \A q \in Created : proc[q].dir \in Pages \ {f}
    <2>1. SlotPages \subseteq used
      BY <1>4 DEF IInv, HeldAreGiven, Given
    <2> QED
      BY <1>4, <1>5, <2>1 DEF IInv, DirectoriesAreOwn, Pages
  <1>10. /\ \A r \in Tables : TableOf(p, r)' = NONE
         /\ \A q \in Created : \A r \in Tables : TableOf(q, r)' = TableOf(q, r)
    BY <1>3, <1>4, <1>5, <1>6, <1>7, <1>9, CreatedHolds DEF TableOf
  <1>11. /\ \A r \in Tables : \A j \in Places : Behind(p, r, j)' = NONE
         /\ \A q \in Created : \A r \in Tables : \A j \in Places :
               Behind(q, r, j)' = Behind(q, r, j)
    BY <1>3, <1>10, BehindIs
  <1>12. RegistersFollow'
    <2>1. running = NOBODY /\ ~irq
      BY <1>1 DEF Boot
    <2> QED
      BY <1>1, <1>4, <1>7, <2>1 DEF RegistersFollow
  <1>13. LoadIsOnItsWay'
    <2>1. 0 % PageSize = 0
      BY ProgramsAssumption
    <2>2. Len(program[p]) \in Nat
      BY ProgramsAssumption DEF IInv, TypeOK
    <2> QED
      BY <1>1, <2>1, <2>2 DEF LoadIsOnItsWay
  <1>14. HaltHasCause'
    BY <1>1 DEF HaltHasCause
  <1>15. StacksAreMapped'
    <2> SUFFICES ASSUME ~torn, NEW q \in Created'
                 PROVE  Behind(q, "stack", 0)' =
                           IF proc'[q].started THEN proc'[q].stack ELSE NONE
      BY <1>1 DEF StacksAreMapped, Behind, StackPage
    <2>1. q \in Created => Behind(q, "stack", 0) = IF proc[q].started THEN proc[q].stack ELSE NONE
      BY DEF StacksAreMapped, Behind, StackPage
    <2> QED
      BY <2>1, <1>4, <1>6, <1>7, <1>8, <1>11, CreatedHolds, PlacesHold
  <1>16. ASSUME NEW q \in Created
         PROVE  SameTurns(q) /\ SamePages(q) /\ SameBytes(q)
    <2>1. SamePages(q)
      BY <1>11, PlacesHold, SamePagesBehind
    <2>2. q # p /\ q # NOBODY
      BY <1>4, CreatedHolds
    <2>3. SameTurns(q)
      BY <2>2, <1>1, ProgramKeeps DEF SameTurns, Turned
    <2> QED
      BY <1>1, <2>1, <2>3 DEF SameBytes
  <1>17. PagesSeen(p)' /\ BytesSeen(p)'
    <2>1. \A i, c : ~Turned(p, i, c)'
      <3> SUFFICES ASSUME NEW i, NEW c, Turned(p, i, c)'
                   PROVE  FALSE
        OBVIOUS
      <3>1. i \in Loads(p) /\ c \in 0..(program[p][i].memSize - 1)
        BY <1>1, ProgramKeeps DEF Turned
      <3>2. i \in Nat \ {0}
        BY <3>1, HeaderHolds DEF Loads, IInv
      <3>3. i < 1 \/ (i = 1 /\ c < 0)
        BY <1>1 DEF Turned
      <3> QED
        BY <3>1, <3>2, <3>3
    <2>2. \A page \in CodePages : Walk(proc[p].dir, page)' = NONE
      BY <1>11, PlacesHold DEF CodePages, Behind
    <2> QED
      BY <2>1, <2>2 DEF PagesSeen, BytesSeen
  <1>18. PagesAreTurned' /\ BytesAreOfFile'
    <2>1. TypeOK /\ Created \subseteq Procs
      BY CreatedHolds DEF IInv
    <2>2. PagesAreTurned'
      BY <2>1, <1>1, <1>8, <1>16, <1>17, CodeKeeps DEF PagesAreTurned
    <2>3. BytesAreOfFile'
      BY <2>1, <1>1, <1>8, <1>16, <1>17, CodeKeeps, ProgramKeeps DEF PagesAreTurned, BytesAreOfFile
    <2> QED
      BY <2>2, <2>3
  <1> QED
    BY <1>12, <1>13, <1>14, <1>15, <1>18

\* ksbrk takes a page that nobody sees, or it tears.
LEMMA GrowTakeShows ==
    ASSUME IInv, SInv, ~Lost, GrowTake
    PROVE  SInv'
  <1> DEFINE g == grower.page
  <1> USE DEF SInv
  <1>1. /\ torn' = (torn \/ g \in used)
        /\ dir' = [dir EXCEPT ![g] = [r \in Tables |-> NONE]]
        /\ table' = [table EXCEPT ![g] = CleanPageTable(@)]
        /\ data' = [data EXCEPT ![g] = [b \in Bytes |-> ZERO]]
        /\ UNCHANGED <<program, proc, cr3, saved, loading, at, halted, irq, running>>
        /\ g \in Pages
    BY DEF GrowTake, Growing, elf, IInv, TypeOK, PageOrNone
  <1> HIDE DEF g
  <1>2. Created' = Created /\ NOPAGE \notin SlotPages
    BY <1>1 DEF Created, Lost, SlotPages
  <1>3. RegistersFollow' /\ LoadIsOnItsWay' /\ HaltHasCause'
    BY <1>1, ProgramKeeps DEF RegistersFollow, LoadIsOnItsWay, Header, HaltHasCause
  <1>4. CASE torn'
    BY <1>3, <1>4 DEF StacksAreMapped, PagesAreTurned, BytesAreOfFile
  <1>5. CASE ~torn'
    <2>1. ~torn /\ g \notin used
      BY <1>1, <1>5
    <2>2. /\ SlotPages \subseteq used /\ used \subseteq Frames
          /\ dir \in [Pages -> [Tables -> PageOrNone]]
          /\ table \in [Pages -> [Places -> PageOrNone]]
          /\ data \in [Pages -> [Bytes -> Nat \cup {ZERO, ANY}]]
      BY <1>2 DEF IInv, HeldAreGiven, Given, TypeOK
    <2>3. \A q \in Created : \A r \in Tables : TableOf(q, r)' = TableOf(q, r)
      BY <1>1, <2>1, <2>2 DEF TableOf, IInv, DirectoriesAreOwn, Pages
    <2>4. \A q \in Created : \A r \in Tables : TableOf(q, r) # NONE =>
             table'[TableOf(q, r)] = table[TableOf(q, r)]
      BY <1>1, <2>1, <2>2 DEF IInv, DirectoriesAreOwn, Pages
    <2>5. \A q \in Created : \A r \in Tables : \A j \in Places :
             Behind(q, r, j)' = Behind(q, r, j)
      BY <2>3, <2>4, BehindIs
    <2>6. ASSUME NEW q \in Created
          PROVE  SameTurns(q) /\ SamePages(q) /\ SameBytes(q)
      <3>1. SamePages(q)
        BY <2>5, PlacesHold, SamePagesBehind
      <3>2. SameTurns(q)
        BY <1>1, ProgramKeeps DEF SameTurns, Turned
      <3>3. \A f \in Frames : f # g => data'[f] = data[f]
        BY <1>1, <2>2 DEF Pages
      <3>4. SameBytes(q)
        BY <2>1, <2>2, <3>3, SeesOwn DEF SameBytes
      <3> QED
        BY <3>1, <3>2, <3>4
    <2>7. PagesAreTurned' /\ BytesAreOfFile'
      <3>1. TypeOK /\ Created \subseteq Procs
        BY CreatedHolds DEF IInv
      <3> QED
        BY <3>1, <1>1, <1>2, <2>1, <2>6, CodeKeeps, ProgramKeeps DEF PagesAreTurned, BytesAreOfFile
    <2>8. StacksAreMapped'
      <3>1. \A q \in Created : Walk(proc[q].dir, StackPage)' = Walk(proc[q].dir, StackPage)
        BY <2>5, PlacesHold DEF Behind, StackPage
      <3> QED
        BY <1>1, <1>2, <2>1, <3>1 DEF StacksAreMapped
    <2> QED
      BY <1>3, <2>7, <2>8
  <1> QED
    BY <1>4, <1>5

\* The turns of a header are done when LoadElf goes to the next one, and those
\* of all headers that it loads when it ends.
LEMMA NextHeaderShows ==
    ASSUME IInv, SInv, NextHeader
    PROVE  SInv'
  <1> DEFINE p == loading
             h == program[loading][at.header]
  <1> USE DEF SInv
  <1>1. /\ AtHeader /\ ~InSegment
        /\ at' = [header |-> at.header + 1, count |-> 0]
        /\ UNCHANGED <<used, slot, dir, table, data, program, proc, cr3, saved, loading, halted,
                       irq, running, torn>>
    BY DEF NextHeader, memory
  <1>2. /\ p \in Procs /\ p # NOBODY /\ at.header \in Nat \ {0} /\ at.count \in Nat
        /\ at.header <= Len(program[p]) /\ at.header \in DOMAIN program[p]
        /\ Len(program[p]) \in Nat
    <2>1. p \in Procs /\ program[p] \in Programs /\ at.header \in Nat \ {0} /\ at.count \in Nat
      BY <1>1 DEF AtHeader, IInv, TypeOK
    <2>2. program[p] \in Seq([vaddr : Nat, memSize : Nat, offset : Nat])
      BY <2>1, ProgramsAssumption
    <2>3. at.header <= Len(program[p])
      BY <1>1 DEF AtHeader
    <2> HIDE DEF p
    <2> QED
      BY <2>1, <2>2, <2>3, CreatedHolds
  <1>3. h.vaddr # NULL /\ h.memSize \in Nat /\ at.count >= h.memSize
    <2>1. h.memSize \in Nat
      BY <1>2, HeaderHolds DEF IInv
    <2> QED
      BY <1>1, <1>2, <2>1 DEF AtHeader, InSegment, Header
  <1>4. ~Ends(h)
    <2>1. h.memSize > 0 => at.count > 0
      BY <1>2, <1>3
    <2>2. at.count > 0 => ~Ends(h)
      BY <1>2 DEF LoadIsOnItsWay, Header
    <2> QED
      BY <1>3, <2>1, <2>2 DEF Ends
  <1>5. LoadIsOnItsWay'
    <2>1. \A j \in 1..at.header : ~Ends(program[p][j])
      BY <1>2, <1>4 DEF LoadIsOnItsWay
    <2>2. 0 % PageSize = 0
      BY ProgramsAssumption
    <2> QED
      BY <1>1, <1>2, <2>1, <2>2 DEF LoadIsOnItsWay
  <1> HIDE DEF h
  <1>6. \A q \in Created : SameTurns(q)
    <2> SUFFICES ASSUME NEW q \in Created, NEW i \in Loads(q),
                        NEW c \in 0..(program[q][i].memSize - 1)
                 PROVE  Turned(q, i, c)' <=> Turned(q, i, c)
      BY DEF SameTurns
    <2>1. i \in Loads(q)' /\ program' = program /\ loading' = loading
      BY <1>1, ProgramKeeps
    <2>2. i \in Nat \ {0} /\ program[q][i].memSize \in Nat
      BY CreatedHolds, HeaderHolds DEF IInv, Loads
    <2>3. ASSUME q = p
          PROVE  (i < at.header + 1 \/ (i = at.header + 1 /\ c < 0))
                     <=> (i < at.header \/ (i = at.header /\ c < at.count))
      <3>1. i = at.header => c < at.count
        BY <1>2, <1>3, <2>2, <2>3 DEF h
      <3> QED
        BY <1>2, <2>2, <3>1
    <2> QED
      BY <1>1, <2>1, <2>3 DEF Turned
  <1>7. RegistersFollow' /\ StacksAreMapped' /\ HaltHasCause' /\ Created' = Created
    BY <1>1, ProgramKeeps
       DEF RegistersFollow, StacksAreMapped, HaltHasCause, Created, Walk, WalkIn, Memory, Having
  <1>8. \A q \in Created : SamePages(q) /\ SameBytes(q)
    BY <1>1 DEF SamePages, SameBytes, Walk, WalkIn, Memory, Having
  <1>9. PagesAreTurned' /\ BytesAreOfFile'
    <2>1. TypeOK /\ Created \subseteq Procs
      BY CreatedHolds DEF IInv
    <2> QED
      BY <2>1, <1>1, <1>6, <1>7, <1>8, CodeKeeps, ProgramKeeps DEF PagesAreTurned, BytesAreOfFile
  <1> QED
    BY <1>5, <1>7, <1>9

LEMMA LoadEndShows ==
    ASSUME IInv, SInv, ~halted, LoadEnd
    PROVE  SInv'
  <1> DEFINE p == loading
  <1> USE DEF SInv
  <1>1. /\ Boot /\ p # NOBODY
        /\ AtHeader => InSegment /\ ~CheckUserVirtualAddressValidity(Pointer)
        /\ cr3' = Restored(saved) /\ saved' = NONE /\ loading' = NOBODY
        /\ UNCHANGED <<used, slot, dir, table, data, program, proc, at, halted,
                       irq, running, torn>>
    BY DEF LoadEnd, memory
  <1>2. /\ p \in Procs /\ at.header \in Nat \ {0} /\ at.count \in Nat
        /\ Len(program[p]) \in Nat /\ DOMAIN program[p] = 1..Len(program[p])
    <2>1. p \in Procs /\ program[p] \in Programs /\ at.header \in Nat \ {0} /\ at.count \in Nat
      BY <1>1 DEF IInv, TypeOK
    <2>2. program[p] \in Seq([vaddr : Nat, memSize : Nat, offset : Nat])
      BY <2>1, ProgramsAssumption
    <2> HIDE DEF p
    <2> QED
      BY <2>1, <2>2
  <1>3. RegistersFollow'
    <2>1. saved = KDIR /\ KDIR # NONE /\ running = NOBODY /\ ~irq
      BY <1>1 DEF RegistersFollow, Boot, KDIR, NONE
    <2> QED
      BY <1>1, <2>1 DEF RegistersFollow, Restored
  <1>4. at.header \in DOMAIN program[p] => Ends(program[p][at.header]) /\ at.count = 0
    <2> SUFFICES ASSUME at.header \in DOMAIN program[p]
                 PROVE  Ends(Header) /\ at.count = 0
      BY DEF Header
    <2>1. Header.vaddr \in Nat /\ Header.memSize \in Nat
      BY <1>2, HeaderHolds DEF IInv, Header
    <2>2. at.count > 0 => ~Ends(Header)
      BY <1>1 DEF LoadIsOnItsWay
    <2>3. CASE Header.vaddr = NULL
      BY <1>2, <2>2, <2>3 DEF Ends
    <2>4. CASE Header.vaddr # NULL
      <3>1. AtHeader
        BY <1>1, <1>2, <2>4 DEF AtHeader
      <3>2. /\ Pointer = Header.vaddr + at.count /\ at.count < Header.memSize
            /\ ~CheckUserVirtualAddressValidity(Pointer)
        BY <1>1, <3>1 DEF InSegment, Pointer
      <3>3. UserBase \in Nat \ {0}
        BY ProgramsAssumption
      <3>4. ~CheckUserVirtualAddressValidity(Header.vaddr)
        BY <1>2, <2>1, <2>4, <3>2, <3>3 DEF CheckUserVirtualAddressValidity, NULL
      <3>5. Header.memSize > 0
        BY <1>2, <2>1, <3>2
      <3> QED
        BY <1>2, <2>2, <3>4, <3>5 DEF Ends
    <2> QED
      BY <2>3, <2>4
  <1>5. \A i \in Loads(p) : i < at.header
    <2> SUFFICES ASSUME NEW i \in Loads(p), i >= at.header
                 PROVE  FALSE
      BY <1>2 DEF Loads
    <2>1. i \in DOMAIN program[p] /\ \A j \in 1..i : ~Ends(program[p][j])
      BY DEF Loads
    <2>2. at.header \in DOMAIN program[p] /\ at.header \in 1..i
      BY <1>2, <2>1
    <2> QED
      BY <1>4, <2>1, <2>2
  <1>6. \A q \in Created : SameTurns(q)
    <2>1. \A q \in Created : q # NOBODY
      BY CreatedHolds
    <2> QED
      BY <1>1, <1>5, <2>1, ProgramKeeps DEF SameTurns, Turned
  <1>7. StacksAreMapped' /\ Created' = Created
    BY <1>1 DEF StacksAreMapped, Created, Walk, WalkIn, Memory, Having
  <1>8. LoadIsOnItsWay' /\ HaltHasCause'
    BY <1>1 DEF LoadIsOnItsWay, HaltHasCause
  <1>9. \A q \in Created : SamePages(q) /\ SameBytes(q)
    BY <1>1 DEF SamePages, SameBytes, Walk, WalkIn, Memory, Having
  <1>10. PagesAreTurned' /\ BytesAreOfFile'
    <2>1. TypeOK /\ Created \subseteq Procs
      BY CreatedHolds DEF IInv
    <2> QED
      BY <2>1, <1>1, <1>6, <1>7, <1>9, CodeKeeps, ProgramKeeps DEF PagesAreTurned, BytesAreOfFile
  <1> QED
    BY <1>3, <1>7, <1>8, <1>10

LEMMA OthersShow ==
    ASSUME IInv, SInv, EnableIrq \/ GrowFind \/ UNCHANGED vars
    PROVE  SInv'
  <1> USE DEF SInv
  <1>1. /\ UNCHANGED <<used, slot, dir, table, data, program, proc, cr3, saved, loading, at,
                       halted, running, torn>>
        /\ irq' = irq \/ (irq' /\ loading = NOBODY)
    BY DEF EnableIrq, GrowFind, vars, memory, elf
  <1>2. RegistersFollow' /\ LoadIsOnItsWay' /\ HaltHasCause' /\ StacksAreMapped'
    <2>1. RegistersFollow'
      BY <1>1 DEF RegistersFollow
    <2>2. LoadIsOnItsWay'
      BY <1>1 DEF LoadIsOnItsWay, Header
    <2>3. HaltHasCause'
      BY <1>1, ProgramKeeps DEF HaltHasCause
    <2>4. StacksAreMapped'
      BY <1>1 DEF StacksAreMapped, Created, Walk, WalkIn, Memory, Having
    <2> QED
      BY <2>1, <2>2, <2>3, <2>4
  <1>3. \A q \in Created : SameTurns(q) /\ SamePages(q) /\ SameBytes(q)
    BY <1>1, ProgramKeeps
       DEF SameTurns, Turned, SamePages, SameBytes, Walk, WalkIn, Memory, Having
  <1>4. TypeOK /\ Created \subseteq Procs /\ Created' = Created
    BY <1>1, CreatedHolds DEF IInv, Created
  <1>5. PagesAreTurned' /\ BytesAreOfFile'
    BY <1>1, <1>3, <1>4, CodeKeeps, ProgramKeeps DEF PagesAreTurned, BytesAreOfFile
  <1> QED
    BY <1>2, <1>5

\* What a turn of LoadElf stores when it is at the beginning of a page: that
\* page, from the file.
LEMMA StoredAtBegin ==
    ASSUME NEW m, NEW f, Pointer \in Nat, UserBase <= Pointer, Pointer % PageSize = 0,
           WalkIn(m, cr3, PageAt(Pointer)) = f, NEW g \in Pages, NEW b \in Bytes
    PROVE  Stored(m)[g][b] =
              IF g = f /\ f # NOPAGE THEN (IF b < CopySize THEN Source + b ELSE ZERO)
              ELSE data[g][b]
  <1> DEFINE hit == {k \in Bytes : /\ WalkIn(m, cr3, PageAt(Pointer + k)) = g
                                   /\ (Pointer + k) % PageSize = b}
  <1>1. Stored(m)[g][b] =
           IF g = NOPAGE \/ hit = {} THEN data[g][b]
           ELSE LET k == CHOOSE k \in hit : TRUE
                IN  IF k < CopySize THEN Source + k ELSE ZERO
    BY DEF Stored
  <1>2. hit = IF g = f THEN {b} ELSE {}
    <2>1. \A k \in Bytes : PageAt(Pointer + k) = PageAt(Pointer) /\ (Pointer + k) % PageSize = k
      BY PageBegins
    <2> QED
      BY <2>1
  <1> HIDE DEF hit
  <1>3. hit = {b} => (CHOOSE k \in hit : TRUE) = b
    OBVIOUS
  <1> QED
    BY <1>1, <1>2, <1>3

\* And what it stores at all is in pages of its own directory.
LEMMA StoredElsewhere ==
    ASSUME NEW m, NEW g \in Pages, data \in [Pages -> [Bytes -> Nat \cup {ZERO, ANY}]],
           \A k \in Bytes : WalkIn(m, cr3, PageAt(Pointer + k)) # g
    PROVE  Stored(m)[g] = data[g]
  <1>1. \A b \in Bytes : {k \in Bytes : /\ WalkIn(m, cr3, PageAt(Pointer + k)) = g
                                        /\ (Pointer + k) % PageSize = b} = {}
    OBVIOUS
  <1>2. Stored(m)[g] = [b \in Bytes |-> data[g][b]]
    BY <1>1 DEF Stored
  <1> QED
    BY <1>2

\* Pages that begin at different addresses are different.
LEMMA PagesDiffer ==
    ASSUME NEW x \in Nat, NEW y \in Nat, UserBase <= x, UserBase <= y,
           x % PageSize = 0, y % PageSize = 0, PageAt(x) = PageAt(y)
    PROVE  x = y
  <1> DEFINE v == x - UserBase
             w == y - UserBase
  <1>1. PageSize \in Nat \ {0} /\ UserBase \in Nat
    BY ProgramsAssumption
  <1>2. v \in Nat /\ w \in Nat
    BY <1>1
  <1>3. v \div PageSize = w \div PageSize
    BY DEF PageAt
  <1>4. v % PageSize = 0 /\ w % PageSize = 0
    <2> DEFINE k == x \div PageSize
               l == y \div PageSize
               u == UserBase \div PageSize
    <2>1. /\ k \in Nat /\ l \in Nat /\ u \in Nat
          /\ x = PageSize * k /\ y = PageSize * l /\ UserBase = PageSize * u
      BY <1>1, ProgramsAssumption
    <2>2. v = PageSize * (k - u) /\ w = PageSize * (l - u)
      BY <1>1, <2>1
    <2> HIDE DEF k, l, u
    <2>3. u <= k /\ u <= l
      <3>1. ASSUME NEW n \in Nat, n < u, UserBase <= PageSize * n
            PROVE  FALSE
        <4>1. PageSize * u >= PageSize * (n + 1) /\ PageSize * (n + 1) = PageSize * n + PageSize
          BY <1>1, <2>1, <3>1
        <4> QED
          BY <1>1, <2>1, <3>1, <4>1
      <3> QED
        BY <2>1, <3>1
    <2> HIDE DEF v, w
    <2> QED
      BY <1>1, <2>1, <2>2, <2>3, Multiple
  <1> HIDE DEF v, w
  <1>5. v = PageSize * (v \div PageSize) /\ w = PageSize * (w \div PageSize)
    BY <1>1, <1>2, <1>4
  <1>6. v = w
    BY <1>3, <1>5
  <1> QED
    BY <1>1, <1>6 DEF v, w

\* Where LoadElf is when it maps a page.
LEMMA AtTurn ==
    ASSUME TypeOK, LoadIsOnItsWay, InSegment, CheckUserVirtualAddressValidity(Pointer)
    PROVE  /\ loading \in Procs /\ at.header \in Loads(loading)
           /\ Header = program[loading][at.header]
           /\ at.count \in 0..(Header.memSize - 1) /\ at.count % PageSize = 0
           /\ Header.vaddr \in Nat /\ Header.memSize \in Nat /\ Header.offset \in Nat
           /\ Header.memSize > 0
           /\ Pointer = Header.vaddr + at.count /\ Pointer \in Nat /\ UserBase <= Pointer
           /\ TurnOf(loading, at.header, at.count) = PageAt(Pointer)
           /\ \A k \in Bytes : \E j \in Places : PageAt(Pointer + k) = <<"code", j>>
  <1>1. /\ loading \in Procs /\ program[loading] \in Programs
        /\ at.header \in Nat \ {0} /\ at.count \in Nat
        /\ at.header <= Len(program[loading]) /\ Header.vaddr # NULL
        /\ at.count < Header.memSize
    BY DEF TypeOK, InSegment, AtHeader
  <1>2. at.header \in DOMAIN program[loading] /\ Header = program[loading][at.header]
    <2> DEFINE prog == program[loading]
    <2>1. prog \in Seq([vaddr : Nat, memSize : Nat, offset : Nat])
      BY <1>1, ProgramsAssumption
    <2> HIDE DEF prog
    <2>2. at.header \in DOMAIN prog
      BY <1>1, <2>1 DEF prog
    <2> QED
      BY <2>2 DEF prog, Header
  <1>3. /\ Header.vaddr \in Nat /\ Header.memSize \in Nat /\ Header.offset \in Nat
        /\ Header.vaddr + Header.memSize + 2 * PageSize <= UserBase + NCode * PageSize
    BY <1>1, <1>2, HeaderHolds
  <1>4. UserBase \in Nat /\ PageSize \in Nat \ {0} /\ NCode * PageSize \in Nat
    BY ProgramsAssumption
  <1>5. /\ Pointer = Header.vaddr + at.count /\ Pointer \in Nat /\ UserBase <= Pointer
        /\ Pointer + 2 * PageSize <= UserBase + NCode * PageSize
    BY <1>1, <1>3, <1>4 DEF Pointer, CheckUserVirtualAddressValidity
  <1>6. ~Ends(Header)
    <2>1. CASE at.count = 0
      <3>1. Pointer = Header.vaddr
        BY <2>1, <1>3, <1>5
      <3> QED
        BY <1>1, <3>1 DEF Ends
    <2>2. CASE at.count > 0
      BY <1>1, <2>2, CreatedHolds DEF LoadIsOnItsWay
    <2> QED
      BY <1>1, <2>1, <2>2
  <1>7. at.header \in Loads(loading)
    <2>1. \A j \in 1..(at.header - 1) : ~Ends(program[loading][j])
      BY <1>1, CreatedHolds DEF LoadIsOnItsWay
    <2> QED
      BY <1>1, <1>2, <1>6, <2>1 DEF Loads
  <1>8. at.count % PageSize = 0
    BY <1>1, CreatedHolds DEF LoadIsOnItsWay
  <1>9. ASSUME NEW k \in Bytes
        PROVE  \E j \in Places : PageAt(Pointer + k) = <<"code", j>>
    <2>1. k \in Nat /\ k < PageSize
      BY <1>4 DEF Bytes
    <2>2. /\ Pointer + k \in Nat /\ UserBase <= Pointer + k
          /\ Pointer + k < UserBase + NCode * PageSize
      BY <1>4, <1>5, <2>1
    <2> QED
      BY <2>2, PageAtHolds
  <1> QED
    BY <1>1, <1>2, <1>3, <1>5, <1>7, <1>8, <1>9 DEF TurnOf

\* In a program that is well made LoadElf is at the beginning of a page, and no
\* other header's turn is there.
LEMMA WellMadeTurn ==
    ASSUME TypeOK, LoadIsOnItsWay, InSegment, CheckUserVirtualAddressValidity(Pointer),
           WellMade(loading)
    PROVE  /\ Pointer % PageSize = 0
           /\ \A i \in Loads(loading) : \A c \in 0..(program[loading][i].memSize - 1) :
                 /\ c % PageSize = 0 /\ TurnOf(loading, i, c) = PageAt(Pointer)
                 => program[loading][i] = Header /\ c = at.count
  <1> DEFINE p == loading
             n == at.count
  <1>0. PageSize \in Nat \ {0}
    BY ProgramsAssumption
  <1>1. /\ p \in Procs /\ at.header \in Loads(p) /\ Header = program[p][at.header]
        /\ n \in 0..(Header.memSize - 1) /\ n % PageSize = 0
        /\ Header.vaddr \in Nat /\ Header.memSize \in Nat /\ Header.memSize > 0
        /\ Pointer = Header.vaddr + n /\ Pointer \in Nat /\ UserBase <= Pointer
    BY AtTurn
  <1> HIDE DEF p, n
  <1>2. /\ Header \in Segments(p)
        /\ \A i \in Loads(p) : program[p][i] \in Segments(p)
    BY <1>1 DEF Segments
  <1>3. /\ \A h \in Segments(p) : h.memSize > 0 => h.vaddr % PageSize = 0
        /\ \A h \in Segments(p) : h # Header /\ h.memSize > 0 => Turns(h) \cap Turns(Header) = {}
    BY <1>2 DEF WellMade, p
  <1>4. Pointer % PageSize = 0
    <2>1. Header.vaddr % PageSize = 0
      BY <1>1, <1>2, <1>3
    <2> QED
      BY <1>0, <1>1, <2>1, WholePages
  <1>5. ASSUME NEW i \in Loads(p), NEW c \in 0..(program[p][i].memSize - 1),
               c % PageSize = 0, TurnOf(p, i, c) = PageAt(Pointer)
        PROVE  program[p][i] = Header /\ c = n
    <2> DEFINE h == program[p][i]
    <2>1. h.vaddr \in Nat /\ h.memSize \in Nat /\ h \in Segments(p)
      BY <1>1, <1>2, HeaderHolds DEF Loads
    <2>2. h.vaddr + c \in Nat /\ UserBase <= h.vaddr + c
      BY <1>1, TurnHolds
    <2>3. TurnOf(p, i, c) = PageAt(h.vaddr + c)
      BY DEF TurnOf
    <2>4. c \in 0..(h.memSize - 1)
      OBVIOUS
    <2> HIDE DEF h
    <2>5. h.memSize > 0 /\ c \in Nat
      BY <2>1, <2>4
    <2>6. (h.vaddr + c) % PageSize = 0
      BY <1>0, <1>3, <1>5, <2>1, <2>5, WholePages
    <2>7. h.vaddr + c = Pointer
      BY <1>1, <1>4, <1>5, <2>2, <2>3, <2>6, PagesDiffer
    <2>8. h.vaddr + c \in Turns(h)
      BY <1>5, <2>4 DEF Turns
    <2>9. Header.vaddr + n \in Turns(Header)
      BY <1>1 DEF Turns
    <2>10. h = Header
      BY <1>1, <1>3, <2>1, <2>5, <2>7, <2>8, <2>9
    <2>11. c = n
      BY <1>1, <2>1, <2>5, <2>7, <2>10
    <2> QED
      BY <2>10, <2>11 DEF h
  <1> QED
    BY <1>4, <1>5 DEF p, n

\* A turn of LoadElf: one more page is the program's, with what the turn copied.
LEMMA LoadPageShows ==
    ASSUME IInv, SInv, ~Lost, LoadPage
    PROVE  SInv'
  <1>0. PICK p \in Procs : p = loading
    BY DEF LoadPage, InSegment, AtHeader, IInv, TypeOK
  <1> DEFINE f == FreePage(used)
             u == Marking(used, f)
             d == proc[p].dir
             n == at.count
             h == at.header
             m == AddPage(TakePage(Memory), cr3, PageAt(Pointer), f)
  <1> USE DEF SInv
  <1>1. /\ InSegment /\ CheckUserVirtualAddressValidity(Pointer) /\ CanAlloc(Memory, 1)
        /\ BecomesMemory(m)
        /\ data' = Stored(m)
        /\ halted' = (WalkIn(m, cr3, PageAt(Pointer + (PageSize - 1))) = NONE)
        /\ at' = [header |-> h, count |-> n + PageSize]
        /\ program' = program /\ cr3' = cr3 /\ saved' = saved
        /\ loading' = p /\ irq' = irq /\ running' = running /\ torn' = torn
    BY <1>0 DEF LoadPage
  <1>2. proc' = [proc EXCEPT ![p] =
                    Process(@.dir, @.kstack, @.stack, @.code \cup {f}, @.started)]
    BY <1>0 DEF LoadPage
  <1>3. /\ NOPAGE \notin SlotPages /\ TypeOK
        /\ used \subseteq Frames /\ proc \in [Procs -> ProcessRecord]
        /\ data \in [Pages -> [Bytes -> Nat \cup {ZERO, ANY}]]
    BY DEF Lost, SlotPages, IInv, TypeOK, ProcessRecord
  <1>4. SlotPages \subseteq used
    BY <1>3 DEF IInv, HeldAreGiven, Given
  <1>5. p \in Created /\ p \in Procs /\ cr3 = d /\ d \in Pages
    BY <1>0, <1>1, <1>3, <1>4
       DEF IInv, InSegment, AtHeader, LoadsInOwnDirectory, Created, DirectoriesAreOwn, Pages
  <1>6. /\ Fresh(used, f) /\ f \in Pages /\ f \notin used /\ u \subseteq Frames /\ used \subseteq u
        /\ f # NONE
    <2>1. Fresh(used, f)
      BY <1>3, FreePageIsFresh
    <2> HIDE DEF f
    <2> QED
      BY <2>1, <1>3, MarkingHolds, PagesHold DEF Fresh
  <1>7. /\ h \in Loads(p) /\ Header = program[p][h]
        /\ n \in 0..(Header.memSize - 1) /\ n % PageSize = 0
        /\ Header.vaddr \in Nat /\ Header.memSize \in Nat /\ Header.offset \in Nat
        /\ Pointer = Header.vaddr + n /\ Pointer \in Nat /\ UserBase <= Pointer
        /\ TurnOf(p, h, n) = PageAt(Pointer)
        /\ \A k \in Bytes : \E j \in Places : PageAt(Pointer + k) = <<"code", j>>
    BY <1>0, <1>1, <1>3, AtTurn
  <1>8. PICK i \in Places : PageAt(Pointer) = <<"code", i>>
    BY <1>1, <1>3, PointerHolds
  <1>9. PageSize \in Nat \ {0}
    BY ProgramsAssumption
  <1> HIDE DEF f
  <1>10. TakePage(Memory) = Having(u, slot, dir, table)
    BY DEF TakePage, Memory, Having, Marking, f
  <1>11. /\ \A page : WalkIn(m, cr3, page) = Walk(proc[p].dir, page)'
         /\ \A q \in Procs : /\ proc'[q].dir = proc[q].dir /\ proc'[q].stack = proc[q].stack
                             /\ proc'[q].started = proc[q].started
    <2>1. \A q \in Procs : /\ proc'[q].dir = proc[q].dir /\ proc'[q].stack = proc[q].stack
                           /\ proc'[q].started = proc[q].started
      BY <1>2, <1>3 DEF Process
    <2>2. dir' = m.dir /\ table' = m.table
      BY <1>1 DEF BecomesMemory
    <2> HIDE DEF m
    <2>3. \A page : WalkIn(m, cr3, page) = Walk(proc[p].dir, page)'
      BY <1>1, <1>5, <2>1, <2>2 DEF Walk, WalkIn, Memory, Having
    <2> QED
      BY <2>1, <2>3
  <1>12. \E t, NS : Mapped(u, d, "code", i, f, t, NS)
    <2>1. NOPAGE \notin PagesIn(slot) /\ PagesIn(slot) \subseteq u
      BY <1>3, <1>4, <1>6 DEF SlotPages, PagesIn
    <2>2. Distinct(slot)
      BY DEF IInv, SlotsAreDistinct, Distinct
    <2>3. /\ slot \in [Slots -> PageOrNone] /\ dir \in [Pages -> [Tables -> PageOrNone]]
          /\ table \in [Pages -> [Places -> PageOrNone]]
      BY <1>3 DEF TypeOK
    <2>4. CanAlloc(Having(u, slot, dir, table), 1)
      BY <1>1 DEF CanAlloc, FreeSlots, Memory, Having
    <2> HIDE DEF u, d
    <2>5. BecomesMemory(AddPage(Having(u, slot, dir, table), d, <<"code", i>>, f))
      BY <1>1, <1>5, <1>8, <1>10
    <2> QED
      BY <1>5, <1>6, <2>1, <2>2, <2>3, <2>4, <2>5, PlacesHold, AddPageMaps
  <1>13. PICK t, NS : Mapped(u, d, "code", i, f, t, NS)
    BY <1>12
  <1> HIDE DEF m, u
  <1>14. Shows(p, "code", i, f)
    <2>1. \A q \in Created : proc'[q].dir = proc[q].dir
      BY <1>11, CreatedHolds
    <2>2. Mapped(u, proc[p].dir, "code", i, f, t, NS)
      BY <1>13
    <2> HIDE DEF d
    <2> QED
      BY <1>3, <1>5, <1>6, <2>1, <2>2, PlacesHold, MappingShows
  <1>15. Created' = Created
    BY <1>11 DEF Created
  <1> HIDE DEF n, h, d
  <1>16. RegistersFollow'
    BY <1>0, <1>1, <1>5, <1>11, CreatedHolds DEF RegistersFollow, IInv, TypeOK
  <1>17. LoadIsOnItsWay'
    <2>1. h \in DOMAIN program[p] /\ h \in 1..h /\ ~Ends(program[p][h])
      BY <1>3, <1>5, <1>7, HeaderHolds DEF Loads
    <2>2. at'.header = h /\ at'.count = n + PageSize /\ n \in Nat /\ n % PageSize = 0
      BY <1>1, <1>7
    <2>3. (n + PageSize) % PageSize = 0
      BY <1>9, <2>2, WholePages
    <2>4. p # NOBODY
      BY <1>5, CreatedHolds
    <2>5. Header' = program[p][h]
      BY <1>0, <1>1, <2>2 DEF Header
    <2>6. h <= Len(program[p]) + 1 /\ \A j \in 1..(h - 1) : ~Ends(program[p][j])
      BY <1>0, <2>4 DEF LoadIsOnItsWay, h
    <2> QED
      BY <1>0, <1>1, <2>1, <2>2, <2>3, <2>5, <2>6 DEF LoadIsOnItsWay
  <1>18. \A j \in Places :
            Walk(proc[p].dir, <<"code", j>>)' =
                IF j = i THEN f ELSE Walk(proc[p].dir, <<"code", j>>)
    BY <1>5, <1>14, PlacesHold DEF Shows, Behind
  <1>19. WalkIn(m, cr3, PageAt(Pointer)) = f
    BY <1>8, <1>11, <1>18
  <1>20. HaltHasCause'
    <2>1. ASSUME WellMade(p) PROVE ~halted'
      <3>1. Pointer % PageSize = 0
        BY <1>0, <1>1, <1>3, <2>1, WellMadeTurn
      <3>2. PageSize - 1 \in Bytes
        BY <1>9 DEF Bytes
      <3>3. PageAt(Pointer + (PageSize - 1)) = PageAt(Pointer)
        BY <1>7, <3>1, <3>2, PageBegins
      <3> QED
        BY <1>1, <1>6, <1>19, <3>3
    <2> QED
      BY <1>0, <1>1, <2>1, ProgramKeeps DEF HaltHasCause
  <1>21. StacksAreMapped'
    <2>1. \A q \in Created : Walk(proc[q].dir, StackPage)' = Walk(proc[q].dir, StackPage)
      BY <1>14, PlacesHold DEF Shows, Behind, StackPage
    <2> QED
      BY <1>1, <1>11, <1>15, <2>1, CreatedHolds DEF StacksAreMapped
  <1>22. ASSUME NEW q \in Created, q # p
         PROVE  SameTurns(q) /\ SamePages(q) /\ SameBytes(q)
    <2>1. SamePages(q)
      BY <1>14, <1>22, PlacesHold, SamePagesBehind DEF Shows
    <2>2. SameTurns(q)
      BY <1>0, <1>1, <1>22, ProgramKeeps DEF SameTurns, Turned
    <2>3. ASSUME NEW page \in CodePages, Walk(proc[q].dir, page) \notin {NONE, NOPAGE}
          PROVE  data'[Walk(proc[q].dir, page)] = data[Walk(proc[q].dir, page)]
      <3> DEFINE g == Walk(proc[q].dir, page)
      <3>1. g \in proc[q].code /\ g \in used /\ g \notin {NONE, NOPAGE}
        BY <2>3, SeesOwn
      <3> HIDE DEF g
      <3>2. g \in Pages
        BY <1>3, <3>1 DEF Pages
      <3>3. g \notin proc[p].code
        BY <1>5, <1>22, <3>1 DEF IInv, ProgramsAreApart
      <3>4. ASSUME NEW k \in Bytes
            PROVE  WalkIn(m, cr3, PageAt(Pointer + k)) # g
        <4>1. PICK j \in Places : PageAt(Pointer + k) = <<"code", j>>
          BY <1>7
        <4>2. WalkIn(m, cr3, PageAt(Pointer + k)) \in {f, Walk(proc[p].dir, <<"code", j>>)}
          BY <1>11, <1>18, <4>1
        <4>3. Walk(proc[p].dir, <<"code", j>>) \in proc[p].code \cup {NONE}
          BY <1>5, WalksAreOwn DEF CodePages
        <4> QED
          BY <1>6, <3>1, <3>3, <4>2, <4>3
      <3>5. Stored(m)[g] = data[g]
        BY <1>3, <3>2, <3>4, StoredElsewhere
      <3> QED
        BY <1>1, <3>5 DEF g
    <2> QED
      BY <2>1, <2>2, <2>3 DEF SameBytes
  <1>23. ASSUME NEW j \in Loads(p), NEW c \in 0..(program[p][j].memSize - 1)
         PROVE  Turned(p, j, c)' <=> Turned(p, j, c) \/ (j = h /\ c = n)
    <2>1. j \in Loads(p)' /\ j \in Nat /\ c \in Nat /\ h \in Nat /\ n \in Nat
      <3>1. j \in DOMAIN program[p] /\ h \in DOMAIN program[p]
        BY <1>7 DEF Loads
      <3>2. j \in Nat /\ h \in Nat /\ program[p][j].memSize \in Nat
        BY <1>3, <1>5, <3>1, HeaderHolds
      <3> QED
        BY <1>1, <1>7, <3>2, ProgramKeeps
    <2>2. c % PageSize = 0 => (c < n + PageSize <=> c < n \/ c = n)
      <3> SUFFICES ASSUME c % PageSize = 0
                   PROVE  c < n + PageSize <=> c < n \/ c = n
        OBVIOUS
      <3>1. n <= c /\ c < n + PageSize => n = c
        BY <1>7, <1>9, <2>1, WholePages
      <3> QED
        BY <1>9, <2>1, <3>1
    <2>3. /\ Turned(p, j, c)' <=> /\ c % PageSize = 0
                                  /\ j < h \/ (j = h /\ c < n + PageSize)
          /\ Turned(p, j, c) <=> /\ c % PageSize = 0
                                 /\ j < h \/ (j = h /\ c < n)
      BY <1>0, <1>1, <2>1 DEF Turned, h, n
    <2> QED
      BY <1>7, <2>2, <2>3
  <1>24. PagesSeen(p) => PagesSeen(p)'
    <2> SUFFICES ASSUME PagesSeen(p), NEW page \in CodePages
                 PROVE  Walk(proc[p].dir, page)' # NONE <=>
                            \E j \in Loads(p) : \E c \in 0..(program[p][j].memSize - 1) :
                                Turned(p, j, c)' /\ page = TurnOf(p, j, c)
      BY <1>1, ProgramKeeps DEF PagesSeen
    <2>1. Walk(proc[p].dir, page)' # NONE <=>
             page = PageAt(Pointer) \/ Walk(proc[p].dir, page) # NONE
      BY <1>6, <1>8, <1>18 DEF CodePages
    <2>2. Walk(proc[p].dir, page) # NONE <=>
             \E j \in Loads(p) : \E c \in 0..(program[p][j].memSize - 1) :
                 Turned(p, j, c) /\ page = TurnOf(p, j, c)
      BY DEF PagesSeen
    <2>3. n \in 0..(program[p][h].memSize - 1)
      BY <1>7
    <2> QED
      BY <1>7, <1>23, <2>1, <2>2, <2>3
  <1>25. ASSUME PagesSeen(p), WellMade(p), BytesSeen(p)
         PROVE  BytesSeen(p)'
    <2> SUFFICES ASSUME NEW j \in Loads(p), NEW c \in 0..(program[p][j].memSize - 1),
                        Turned(p, j, c)', Walk(proc[p].dir, TurnOf(p, j, c))' # NOPAGE,
                        NEW b \in Bytes
                 PROVE  data'[Walk(proc[p].dir, TurnOf(p, j, c))'][b]
                            = ByteOf(program[p][j], c + b)
      BY <1>1, ProgramKeeps DEF BytesSeen, ByteOf
    <2> DEFINE page == TurnOf(p, j, c)
    <2>1. page \in CodePages /\ TurnOf(p, j, c)' = page
      BY <1>1, <1>3, <1>5, TurnHolds, ProgramKeeps
    <2>2. Pointer % PageSize = 0
      BY <1>0, <1>1, <1>3, <1>25, WellMadeTurn
    <2>3. c % PageSize = 0
      BY DEF Turned
    <2>4. CASE page = PageAt(Pointer)
      <3>1. program[p][j] = Header /\ c = n
        BY <1>0, <1>1, <1>3, <1>25, <2>3, <2>4, WellMadeTurn DEF n
      <3>2. Walk(proc[p].dir, TurnOf(p, j, c))' = f
        BY <1>11, <1>19, <2>1, <2>4 DEF Walk, WalkIn, Memory, Having
      <3>3. Stored(m)[f][b] = IF b < CopySize THEN Source + b ELSE ZERO
        BY <1>6, <1>7, <1>19, <2>2, <3>2, StoredAtBegin
      <3>4. b \in Nat /\ b < PageSize /\ n \in Nat
        BY <1>7, <1>9 DEF Bytes
      <3>5. /\ b < CopySize <=> n + b < Header.memSize
            /\ Source + b = Header.offset + (n + b)
        BY <1>7, <1>9, <3>4 DEF CopySize, Source, n
      <3>6. Stored(m)[f][b] = ByteOf(Header, n + b)
        BY <3>3, <3>5 DEF ByteOf
      <3> QED
        BY <1>1, <3>1, <3>2, <3>6
    <2>5. CASE page # PageAt(Pointer)
      <3>1. Turned(p, j, c)
        BY <1>7, <1>23, <2>5
      <3>2. Walk(proc[p].dir, page) # NONE
        BY <1>25, <2>1, <3>1 DEF PagesSeen
      <3>3. Walk(proc[p].dir, TurnOf(p, j, c))' = Walk(proc[p].dir, page)
        <4>1. PICK k \in Places : page = <<"code", k>>
          BY <2>1 DEF CodePages
        <4>2. k # i
          BY <1>8, <2>5, <4>1
        <4>3. Walk(proc[p].dir, <<"code", k>>)' = Walk(proc[p].dir, <<"code", k>>)
          BY <1>18, <4>2
        <4> QED
          BY <2>1, <4>1, <4>3 DEF Walk, WalkIn, Memory, Having
      <3> DEFINE w == Walk(proc[p].dir, page)
      <3>4. w \in used /\ w \notin {NONE, NOPAGE}
        BY <1>5, <2>1, <3>2, <3>3, SeesOwn
      <3>5. w # f /\ w \in Pages
        BY <1>3, <1>6, <3>4 DEF Pages
      <3>6. data[w][b] = ByteOf(program[p][j], c + b)
        BY <1>25, <3>1, <3>3 DEF BytesSeen
      <3> HIDE DEF w
      <3>7. Stored(m)[w][b] = data[w][b]
        BY <1>7, <1>19, <2>2, <3>5, StoredAtBegin
      <3> QED
        BY <1>1, <3>3, <3>6, <3>7 DEF w
    <2> QED
      BY <2>4, <2>5
  <1>26. PagesAreTurned' /\ BytesAreOfFile'
    <2>1. Created \subseteq Procs
      BY CreatedHolds
    <2>2. PagesAreTurned'
      BY <2>1, <1>1, <1>3, <1>15, <1>22, <1>24, CodeKeeps DEF PagesAreTurned
    <2>3. BytesAreOfFile'
      BY <2>1, <1>1, <1>3, <1>15, <1>22, <1>25, CodeKeeps, ProgramKeeps
         DEF PagesAreTurned, BytesAreOfFile
    <2> QED
      BY <2>2, <2>3
  <1> QED
    BY <1>16, <1>17, <1>20, <1>21, <1>26

LEMMA InitShows == Init => SInv
  <1> SUFFICES ASSUME Init
               PROVE  SInv
    OBVIOUS
  <1>1. Created = {}
    BY DEF Init, Created, NoProc, Process
  <1>2. StacksAreMapped /\ PagesAreTurned /\ BytesAreOfFile
    BY <1>1 DEF StacksAreMapped, PagesAreTurned, BytesAreOfFile
  <1>3. RegistersFollow /\ LoadIsOnItsWay /\ HaltHasCause
    BY DEF Init, RegistersFollow, LoadIsOnItsWay, HaltHasCause
  <1> QED
    BY <1>2, <1>3 DEF SInv

LEMMA NextShows == IInv /\ SInv /\ [Next]_vars => SInv'
  <1> SUFFICES ASSUME IInv, SInv, [Next]_vars
               PROVE  SInv'
    OBVIOUS
  <1>1. CASE Next
    <2>1. ~Lost /\ ~halted
      BY <1>1 DEF Next
    <2>2. CASE \E p \in Procs : LoadElf(p)
      BY <2>1, <2>2, LoadElfShows
    <2>3. CASE \E p \in Procs : PmStartThread(p)
      BY <2>1, <2>3, StartThreadShows
    <2>4. CASE LoadPage
      BY <2>1, <2>4, LoadPageShows
    <2>5. CASE GrowTake
      BY <2>1, <2>5, GrowTakeShows
    <2> QED
      BY <1>1, <2>1, <2>2, <2>3, <2>4, <2>5, NextHeaderShows, LoadEndShows, OthersShow DEF Next
  <1>2. CASE UNCHANGED vars
    BY <1>2, OthersShow
  <1> QED
    BY <1>1, <1>2

\* When interrupts are enabled nothing is saved, the processor is in the
\* directory of the process that runs (RestoreMemoryMapping), and each process
\* has behind its addresses its stack once it was started (ThreadPrepare) and
\* the pages that LoadElf mapped for its headers, with the bytes of its file when
\* its segments are well made, in a memory of any size, for any programs and
\* whatever was loaded, started and grown in between.
THEOREM ProcessesSeeTheirs == Spec => []ProcessesSeeTheirPages
  <1>1. IInv /\ SInv => ProcessesSeeTheirPages
    <2> SUFFICES ASSUME IInv, SInv
                 PROVE  ProcessesSeeTheirPages
      OBVIOUS
    <2>1. halted => ~WellMade(loading)
      BY DEF SInv, HaltHasCause
    <2>2. ASSUME irq
          PROVE  /\ saved = NONE
                 /\ cr3 = IF running = NOBODY THEN KDIR ELSE proc[running].dir
      BY <2>2 DEF SInv, RegistersFollow
    <2>3. ASSUME irq, ~torn, NEW p \in Created
          PROVE  /\ Walk(proc[p].dir, StackPage) = IF proc[p].started THEN proc[p].stack ELSE NONE
                 /\ {page \in CodePages : Walk(proc[p].dir, page) # NONE} =
                       UNION {{PageAt(a) : a \in Turns(h)} : h \in Segments(p)}
                 /\ WellMade(p) => \A h \in Segments(p) : \A a \in Turns(h) : \A b \in Bytes :
                       \/ Walk(proc[p].dir, PageAt(a)) = NOPAGE
                       \/ ByteAt(p, a + b) = ByteOf(h, a - h.vaddr + b)
      <3> DEFINE turns == UNION {{PageAt(a) : a \in Turns(h)} : h \in Segments(p)}
                 pages == {page \in CodePages : Walk(proc[p].dir, page) # NONE}
      <3>1. Walk(proc[p].dir, StackPage) = IF proc[p].started THEN proc[p].stack ELSE NONE
        BY <2>3 DEF SInv, StacksAreMapped
      <3>2. p \in Procs /\ p # loading /\ TypeOK
        BY <2>3, CreatedHolds DEF SInv, RegistersFollow, IInv
      <3>3. \A i \in Loads(p) : \A c \in 0..(program[p][i].memSize - 1) :
               Turned(p, i, c) <=> c % PageSize = 0
        BY <3>2 DEF Turned
      <3>4. PagesSeen(p) /\ (WellMade(p) => BytesSeen(p))
        BY <2>3 DEF SInv, PagesAreTurned, BytesAreOfFile
      <3>5. ASSUME NEW page
            PROVE  page \in turns <=> \E i \in Loads(p) : \E c \in 0..(program[p][i].memSize - 1) :
                                         c % PageSize = 0 /\ page = TurnOf(p, i, c)
        <4>1. page \in turns <=> \E h \in Segments(p) : \E a \in Turns(h) : page = PageAt(a)
          <5> DEFINE pagesOf(h) == {PageAt(a) : a \in Turns(h)}
          <5>1. turns = UNION {pagesOf(h) : h \in Segments(p)}
            OBVIOUS
          <5>2. \A h : page \in pagesOf(h) <=> \E a \in Turns(h) : page = PageAt(a)
            OBVIOUS
          <5> HIDE DEF pagesOf, turns
          <5>3. page \in turns <=> \E h \in Segments(p) : page \in pagesOf(h)
            BY <5>1
          <5> QED
            BY <5>2, <5>3
        <4>2. \A h : \A a : a \in Turns(h) <=>
                 \E c \in 0..(h.memSize - 1) : c % PageSize = 0 /\ a = h.vaddr + c
          BY DEF Turns
        <4> HIDE DEF turns
        <4>3. page \in turns <=>
                 \E i \in Loads(p) : \E a \in Turns(program[p][i]) : page = PageAt(a)
          BY <4>1 DEF Segments
        <4>4. \A i \in Loads(p) : \A a : a \in Turns(program[p][i]) <=>
                 \E c \in 0..(program[p][i].memSize - 1) :
                     c % PageSize = 0 /\ a = program[p][i].vaddr + c
          BY <4>2
        <4>5. ASSUME NEW i \in Loads(p)
              PROVE  (\E a \in Turns(program[p][i]) : page = PageAt(a)) <=>
                         \E c \in 0..(program[p][i].memSize - 1) :
                             c % PageSize = 0 /\ page = TurnOf(p, i, c)
          <5> DEFINE h == program[p][i]
          <5>1. \A a : a \in Turns(h) <=>
                   \E c \in 0..(h.memSize - 1) : c % PageSize = 0 /\ a = h.vaddr + c
            BY <4>4
          <5>2. \A c : TurnOf(p, i, c) = PageAt(h.vaddr + c)
            BY DEF TurnOf
          <5> HIDE DEF h
          <5>3. (\E a \in Turns(h) : page = PageAt(a)) <=>
                   \E c \in 0..(h.memSize - 1) : c % PageSize = 0 /\ page = TurnOf(p, i, c)
            BY <5>1, <5>2
          <5> QED
            BY <5>3 DEF h
        <4> QED
          BY <4>3, <4>5
      <3>6. pages = turns
        <4>1. \A page : page \in turns => page \in CodePages
          BY <3>2, <3>5, TurnHolds
        <4>2. \A page \in CodePages : page \in turns <=> Walk(proc[p].dir, page) # NONE
          BY <3>3, <3>4, <3>5 DEF PagesSeen
        <4> HIDE DEF turns
        <4> QED
          BY <4>1, <4>2
      <3> HIDE DEF turns, pages
      <3>7. ASSUME WellMade(p), NEW h \in Segments(p), NEW a \in Turns(h), NEW b \in Bytes,
                   Walk(proc[p].dir, PageAt(a)) # NOPAGE
            PROVE  ByteAt(p, a + b) = ByteOf(h, a - h.vaddr + b)
        <4>1. PICK i \in Loads(p) : h = program[p][i]
          BY DEF Segments
        <4>2. h.vaddr \in Nat /\ h.memSize \in Nat
          BY <3>2, <4>1, HeaderHolds DEF Loads
        <4>3. PICK c \in 0..(h.memSize - 1) : c % PageSize = 0 /\ a = h.vaddr + c
          BY DEF Turns
        <4>4. c \in Nat /\ h.memSize > 0
          BY <4>2
        <4>5. a \in Nat /\ UserBase <= a /\ PageAt(a) = TurnOf(p, i, c)
          BY <3>2, <4>1, <4>3, TurnHolds DEF TurnOf
        <4>6. a % PageSize = 0
          <5>1. h.vaddr % PageSize = 0
            BY <3>7, <4>4 DEF WellMade
          <5> QED
            BY <4>2, <4>3, <4>4, <5>1, ProgramsAssumption, WholePages
        <4>7. ByteAt(p, a + b) = data[Walk(proc[p].dir, PageAt(a))][b]
          <5> DEFINE x == a + b
          <5>1. PageAt(x) = PageAt(a) /\ x % PageSize = b
            BY <4>5, <4>6, PageBegins
          <5> HIDE DEF x
          <5>2. ByteAt(p, x) = data[Walk(proc[p].dir, PageAt(a))][b]
            BY <5>1 DEF ByteAt
          <5> QED
            BY <5>2 DEF x
        <4>8. data[Walk(proc[p].dir, PageAt(a))][b] = ByteOf(h, c + b)
          BY <3>3, <3>4, <3>7, <4>1, <4>3, <4>5 DEF BytesSeen
        <4>9. a - h.vaddr + b = c + b
          BY <4>2, <4>3, <4>4
        <4> QED
          BY <4>7, <4>8, <4>9
      <3> QED
        BY <3>1, <3>6, <3>7 DEF pages, turns
    <2> QED
      BY <2>1, <2>2, <2>3 DEF ProcessesSeeTheirPages
  <1>2. SInv /\ IInv /\ [Next]_vars => SInv'
    BY NextShows
  <1>3. Init => SInv
    BY InitShows
  <1> QED
    BY <1>1, <1>2, <1>3, Invariance, PTL DEF Spec
====
