-------------------------- MODULE KernelHeapProofs --------------------------
(***************************************************************************)
(* Proofs about KernelHeap, for every size of a header, a page and the     *)
(* heap, and every set of sizes that callers ask for.                      *)
(***************************************************************************)
EXTENDS KernelHeap, TLAPS

\* kmalloc works on a size that a caller asked for, with its header.
RequestIsValid == pc \in {"search", "mark"} => size - HeaderSize \in Sizes

\* The block that _kmalloc is about to return.
MarksAFit ==
    pc = "mark" => /\ block \in Blocks
                   /\ mem[block].state = FREE
                   /\ size <= mem[block].size

\* What the first-fit loop has passed does not fit, also after ksbrk has sent
\* it on from the end of the old heap.
PassedAreTooSmall ==
    pc = "search" => \A b \in Blocks : b < block /\ mem[b].state = FREE => mem[b].size < size

\* The addresses that are not the heap's yet hold nothing of it.
DirtyIsInHeap == dirty \subseteq Base..(gHeap - 1)

IInv == /\ TypeOK /\ Tiled /\ WalksOnHeaders /\ UsedIsLive /\ FreeIsZero
        /\ RequestIsValid /\ MarksAFit /\ PassedAreTooSmall /\ DirtyIsInHeap

-----------------------------------------------------------------------------
(* Headers.                                                                *)

USE DEF Blocks

LEMMA BlocksAreTyped ==
    ASSUME TypeOK
    PROVE  /\ mem = [b \in Blocks |-> mem[b]]
           /\ \A b \in Blocks : /\ b \in Nat /\ Base <= b
                                /\ mem[b] \in [size : 1..(Limit - Base), state : {FREE, USED}]
                                /\ mem[b].size \in Nat /\ 0 < mem[b].size
                                /\ mem[b].state \in {FREE, USED}
           /\ gHeap \in Nat /\ block \in Nat /\ size \in Nat
           /\ Base <= gHeap /\ gHeap <= Limit /\ Base <= block
  BY HeapAssumption DEF TypeOK

LEMMA HeaderHolds ==
    ASSUME NEW s, NEW st
    PROVE  Header(s, st).size = s /\ Header(s, st).state = st
  BY DEF Header

\* A function from addresses to headers has the type that TypeOK asks for.
LEMMA HeadersAreTyped ==
    ASSUME NEW m, m = [b \in DOMAIN m |-> m[b]],
           \A b \in DOMAIN m : m[b] \in [size : 1..(Limit - Base), state : {FREE, USED}]
    PROVE  m \in [DOMAIN m -> [size : 1..(Limit - Base), state : {FREE, USED}]]
  OBVIOUS

\* Two blocks are apart, and each of them ends within the heap.
LEMMA BlocksAreApart ==
    ASSUME TypeOK, Tiled, NEW b \in Blocks, NEW c \in Blocks, b # c
    PROVE  /\ b + mem[b].size <= c \/ c + mem[c].size <= b
           /\ b + mem[b].size <= gHeap
           /\ b < gHeap
           /\ HeaderSize < mem[b].size
           /\ Data(b, mem[b].size) \cap Data(c, mem[c].size) = {}
           /\ HeaderBytes(b) \cap Data(c, mem[c].size) = {}
  <1>1. b \in Nat /\ c \in Nat /\ mem[b].size \in Nat /\ mem[c].size \in Nat /\ gHeap \in Nat
        /\ 0 < mem[b].size
    BY BlocksAreTyped
  <1>2. b + mem[b].size <= c \/ c + mem[c].size <= b
    BY <1>1 DEF Tiled
  <1>3. b + mem[b].size <= gHeap /\ HeaderSize < mem[b].size /\ HeaderSize < mem[c].size
    BY DEF Tiled
  <1> QED
    BY <1>1, <1>2, <1>3, HeaderAssumption DEF Data, HeaderBytes

-----------------------------------------------------------------------------
LEMMA InitIInv == Init => IInv
  <1> SUFFICES ASSUME Init PROVE IInv
    OBVIOUS
  <1>1. Blocks = {Base} /\ mem[Base].size = PageSize /\ mem[Base].state = FREE
        /\ mem = [b \in {Base} |-> mem[b]] /\ mem[Base] = [size |-> PageSize, state |-> FREE]
    BY DEF Init, Header
  <1>2. PageSize \in Nat /\ HeaderSize \in Nat \ {0} /\ HeaderSize < PageSize
        /\ Base \in Nat /\ Limit \in Nat /\ Base + PageSize <= Limit
    BY HeaderAssumption, PageAssumption, HeapAssumption
  <1>3. TypeOK
    <2>1. mem \in [Blocks -> [size : 1..(Limit - Base), state : {FREE, USED}]]
      BY <1>1, <1>2
    <2>2. dirty \subseteq Base..(Limit - 1) /\ gHeap \in Base..Limit /\ block \in Base..Limit
      BY <1>2 DEF Init, HeaderBytes
    <2>3. live \in [DOMAIN live -> Nat] /\ DOMAIN live \subseteq Base..(Limit - 1)
      BY DEF Init
    <2> QED
      BY <1>1, <1>2, <2>1, <2>2, <2>3 DEF Init, TypeOK
  <1>4. Tiled
    BY <1>1, <1>2 DEF Init, Tiled
  <1>5. WalksOnHeaders /\ RequestIsValid /\ MarksAFit /\ PassedAreTooSmall
    BY DEF Init, WalksOnHeaders, RequestIsValid, MarksAFit, PassedAreTooSmall
  <1>6. UsedIsLive
    BY <1>1 DEF Init, UsedIsLive, FREE, USED
  <1>7. FreeIsZero /\ DirtyIsInHeap
    BY <1>1, <1>2 DEF Init, FreeIsZero, DirtyIsInHeap, Data, HeaderBytes
  <1> QED
    BY <1>3, <1>4, <1>5, <1>6, <1>7 DEF IInv

\* Steps that change no header and nothing that callers hold.
LEMMA WalkKeeps ==
    ASSUME IInv, UNCHANGED <<mem, gHeap, dirty, live>>,
           pc' \in {"idle", "search", "mark", "defrag", "panic"}, block' \in Base..Limit,
           size' \in Nat,
           WalksOnHeaders', RequestIsValid', MarksAFit', PassedAreTooSmall'
    PROVE  IInv'
  BY DEF IInv, TypeOK, Tiled, UsedIsLive, FreeIsZero, DirtyIsInHeap, Data

LEMMA kmallocKeeps == ASSUME IInv, NEW n \in Sizes, kmalloc(n) PROVE IInv'
  <1>1. n \in Nat /\ HeaderSize \in Nat /\ Base \in Nat /\ Limit \in Nat /\ Base <= Limit
    BY SizesAssumption, HeaderAssumption, HeapAssumption, PageAssumption
  <1>2. size' \in Nat /\ size' - HeaderSize = n /\ block' = Base /\ pc' = "search"
    BY <1>1 DEF kmalloc, SearchFrom
  <1>3. Base \in Blocks /\ \A b \in Blocks : b \in Nat /\ Base <= b
    BY BlocksAreTyped DEF IInv, Tiled
  <1>4. WalksOnHeaders' /\ RequestIsValid' /\ MarksAFit'
    BY <1>2, <1>3 DEF WalksOnHeaders, RequestIsValid, MarksAFit, kmalloc
  <1>5. PassedAreTooSmall'
    BY <1>1, <1>2, <1>3 DEF PassedAreTooSmall, kmalloc
  <1> QED
    BY <1>1, <1>2, <1>4, <1>5, WalkKeeps DEF kmalloc

LEMMA SkipBlockKeeps == ASSUME IInv, SkipBlock PROVE IInv'
  <1>1. block \in Blocks /\ pc = "search" /\ pc' = "search" /\ block' = block + mem[block].size
        /\ UNCHANGED <<mem, gHeap, dirty, size, live>> /\ ~Fits(block)
    BY BlocksAreTyped DEF SkipBlock, IInv, WalksOnHeaders
  <1>2. /\ \A b \in Blocks : b \in Nat /\ Base <= b /\ mem[b].size \in Nat /\ 0 < mem[b].size
        /\ gHeap \in Nat /\ gHeap <= Limit /\ size \in Nat /\ Limit \in Nat /\ Base \in Nat
    BY BlocksAreTyped, HeapAssumption DEF IInv
  <1>3. block' = gHeap \/ block' \in Blocks
    BY <1>1 DEF IInv, Tiled
  <1>4. block' <= gHeap
    BY <1>1 DEF IInv, Tiled
  <1>5. block' \in Base..Limit
    BY <1>1, <1>2, <1>4
  <1>6. WalksOnHeaders' /\ RequestIsValid' /\ MarksAFit'
    BY <1>1, <1>3 DEF IInv, WalksOnHeaders, RequestIsValid, MarksAFit
  <1>7. PassedAreTooSmall'
    <2> SUFFICES ASSUME NEW b \in Blocks, b < block', mem[b].state = FREE
                 PROVE  mem[b].size < size
      BY <1>1 DEF PassedAreTooSmall
    <2>1. CASE b < block
      BY <1>1, <2>1 DEF IInv, PassedAreTooSmall
    <2>2. CASE b = block
      BY <1>1, <1>2, <2>2 DEF Fits
    <2>3. CASE b > block
      BY <1>1, <1>2, <2>3 DEF IInv, Tiled
    <2> QED
      BY <1>1, <1>2, <2>1, <2>2, <2>3
  <1> QED
    BY <1>1, <1>2, <1>5, <1>6, <1>7, WalkKeeps DEF SkipBlock

LEMMA DefragEndKeeps == ASSUME IInv, DefragEnd PROVE IInv'
  <1>1. block' \in Base..Limit /\ size' \in Nat
    BY DEF IInv, TypeOK, DefragEnd
  <1>2. WalksOnHeaders' /\ RequestIsValid' /\ MarksAFit' /\ PassedAreTooSmall'
    BY DEF WalksOnHeaders, RequestIsValid, MarksAFit, PassedAreTooSmall, DefragEnd
  <1> QED
    BY <1>1, <1>2, WalkKeeps DEF DefragEnd

-----------------------------------------------------------------------------
(* _splitBlock: the block keeps what was asked for, the rest is a new one.  *)

LEMMA SplitIsTyped ==
    ASSUME IInv, NEW b \in Blocks, NEW s \in Nat, HeaderSize < s,
           mem[b].state = FREE, mem[b].size - s >= HeaderSize + MinimalSize,
           mem' = SplitBlock(b, s)
    PROVE  /\ Blocks' = Blocks \cup {b + s} /\ b + s \notin Blocks
           /\ mem'[b].size = s /\ mem'[b].state = FREE
           /\ mem'[b + s].size = mem[b].size - s /\ mem'[b + s].state = FREE
           /\ \A c \in Blocks \ {b} : mem'[c] = mem[c]
           /\ Blocks' \subseteq Base..(Limit - 1)
           /\ mem' \in [Blocks' -> [size : 1..(Limit - Base), state : {FREE, USED}]]
  <1> DEFINE m1 == Put(mem, b, Header(s, mem[b].state))
             rest == mem[b].size - s
  <1>1. /\ b \in Nat /\ Base <= b /\ mem[b].size \in Nat /\ gHeap \in Nat /\ gHeap <= Limit
        /\ HeaderSize \in Nat \ {0} /\ MinimalSize \in Nat \ {0} /\ Base \in Nat /\ Limit \in Nat
        /\ b + mem[b].size <= gHeap
        /\ HeaderSize < rest
    BY BlocksAreTyped, HeaderAssumption, HeapAssumption DEF IInv, Tiled
  <1>2. b + s \notin Blocks
    <2> SUFFICES ASSUME b + s \in Blocks PROVE FALSE
      OBVIOUS
    <2>1. b + mem[b].size <= b + s
      BY <1>1, HeaderAssumption DEF IInv, Tiled
    <2> QED
      BY <1>1, <2>1
  <1>3. /\ DOMAIN m1 = Blocks \cup {b} /\ m1[b] = Header(s, FREE)
        /\ \A c \in Blocks \ {b} : m1[c] = mem[c]
    BY DEF Put
  <1>4. mem' = Put(m1, b + s, Header(rest, FREE))
    BY DEF SplitBlock
  <1>5. /\ DOMAIN mem' = Blocks \cup {b + s} /\ mem'[b + s] = Header(rest, FREE)
        /\ mem'[b] = Header(s, FREE)
        /\ \A c \in Blocks \ {b} : mem'[c] = mem[c]
        /\ mem' = [c \in DOMAIN mem' |-> mem'[c]]
    <2>1. /\ DOMAIN mem' = DOMAIN m1 \cup {b + s} /\ mem'[b + s] = Header(rest, FREE)
          /\ \A c \in DOMAIN m1 \ {b + s} : mem'[c] = m1[c]
          /\ mem' = [c \in DOMAIN mem' |-> mem'[c]]
      BY <1>4 DEF Put
    <2> QED
      BY <1>2, <1>3, <2>1
  <1>6. /\ Header(s, FREE) \in [size : 1..(Limit - Base), state : {FREE, USED}]
        /\ Header(rest, FREE) \in [size : 1..(Limit - Base), state : {FREE, USED}]
    BY <1>1 DEF Header
  <1>7. mem' \in [Blocks' -> [size : 1..(Limit - Base), state : {FREE, USED}]]
    <2>1. \A c \in DOMAIN mem' : mem'[c] \in [size : 1..(Limit - Base), state : {FREE, USED}]
      BY <1>5, <1>6, BlocksAreTyped DEF IInv
    <2> HIDE DEF rest, m1
    <2> QED
      BY <1>5, <2>1, HeadersAreTyped
  <1>8. Blocks' \subseteq Base..(Limit - 1)
    BY <1>1, <1>5 DEF IInv, TypeOK
  <1> QED
    BY <1>2, <1>5, <1>7, <1>8, HeaderHolds

LEMMA SplitKeepsTiled ==
    ASSUME IInv, NEW b \in Blocks, NEW s \in Nat, HeaderSize < s,
           mem[b].state = FREE, mem[b].size - s >= HeaderSize + MinimalSize,
           mem' = SplitBlock(b, s), gHeap' = gHeap
    PROVE  Tiled'
  <1>s. /\ Blocks' = Blocks \cup {b + s} /\ b + s \notin Blocks
        /\ mem'[b].size = s /\ mem'[b].state = FREE
        /\ mem'[b + s].size = mem[b].size - s /\ mem'[b + s].state = FREE
        /\ \A c \in Blocks \ {b} : mem'[c] = mem[c]
    BY SplitIsTyped
  <1>1. /\ \A c \in Blocks : c \in Nat /\ mem[c].size \in Nat
        /\ gHeap \in Nat /\ HeaderSize \in Nat \ {0} /\ MinimalSize \in Nat \ {0}
    BY BlocksAreTyped, HeaderAssumption DEF IInv
  <1>2. \A c \in Blocks' : HeaderSize < mem'[c].size
    BY <1>s, <1>1 DEF IInv, Tiled
  <1>3. \A c \in Blocks' : c + mem'[c].size = gHeap' \/ c + mem'[c].size \in Blocks'
    BY <1>s, <1>1 DEF IInv, Tiled
  <1>4. \A c \in Blocks' : c + mem'[c].size <= gHeap'
    BY <1>s, <1>1 DEF IInv, Tiled
  <1>5. ASSUME NEW c \in Blocks', NEW d \in Blocks', c < d
        PROVE  c + mem'[c].size <= d
    <2>1. CASE c \in Blocks /\ d \in Blocks
      BY <1>s, <1>1, <1>5, <2>1 DEF IInv, Tiled
    <2>2. CASE c = b + s
      <3>1. d \in Blocks /\ d # b
        BY <1>s, <1>1, <1>5, <2>2
      <3>2. b + mem[b].size <= d
        BY <1>s, <1>1, <1>5, <2>2, <3>1 DEF IInv, Tiled
      <3> QED
        BY <1>s, <1>1, <2>2, <3>2
    <2>3. CASE c \in Blocks /\ d = b + s
      <3>1. CASE c = b
        BY <1>1, <1>s, <2>3, <3>1
      <3>2. CASE c < b
        BY <1>s, <1>1, <2>3, <3>2 DEF IInv, Tiled
      <3>3. CASE c > b
        <4>1. b + mem[b].size <= c
          BY <1>s, <1>1, <2>3, <3>3 DEF IInv, Tiled
        <4> QED
          BY <1>s, <1>1, <1>5, <2>3, <4>1
      <3> QED
        BY <1>s, <1>1, <2>3, <3>1, <3>2, <3>3
    <2> QED
      BY <1>s, <2>1, <2>2, <2>3
  <1>6. Base \in Blocks'
    BY <1>s DEF IInv, Tiled
  <1> QED
    BY <1>s, <1>2, <1>3, <1>4, <1>5, <1>6 DEF Tiled

LEMMA SplitKeepsZero ==
    ASSUME IInv, NEW b \in Blocks, NEW s \in Nat, HeaderSize < s,
           mem[b].state = FREE, mem[b].size - s >= HeaderSize + MinimalSize,
           mem' = SplitBlock(b, s), gHeap' = gHeap,
           dirty' = dirty \cup HeaderBytes(b + s)
    PROVE  FreeIsZero' /\ DirtyIsInHeap' /\ dirty' \subseteq Base..(Limit - 1)
  <1>s. /\ Blocks' = Blocks \cup {b + s} /\ b + s \notin Blocks
        /\ mem'[b].size = s /\ mem'[b].state = FREE
        /\ mem'[b + s].size = mem[b].size - s /\ mem'[b + s].state = FREE
        /\ \A c \in Blocks \ {b} : mem'[c] = mem[c]
    BY SplitIsTyped
  <1>1. /\ \A c \in Blocks : c \in Nat /\ Base <= c /\ mem[c].size \in Nat
        /\ gHeap \in Nat /\ HeaderSize \in Nat \ {0} /\ MinimalSize \in Nat \ {0}
        /\ Base \in Nat /\ gHeap <= Limit /\ Limit \in Nat
        /\ b + mem[b].size <= gHeap
    BY BlocksAreTyped, HeaderAssumption, HeapAssumption DEF IInv, Tiled
  <1>2. HeaderBytes(b + s) \subseteq (b + s)..(b + mem[b].size - 1)
    BY <1>s, <1>1 DEF HeaderBytes
  <1>3. DirtyIsInHeap' /\ dirty' \subseteq Base..(Limit - 1)
    <2>1. HeaderBytes(b + s) \subseteq Base..(gHeap - 1)
      BY <1>1, <1>2
    <2>2. dirty' \subseteq Base..(gHeap - 1)
      BY <2>1 DEF IInv, DirtyIsInHeap
    <2> QED
      BY <1>1, <2>2 DEF DirtyIsInHeap
  <1>4. ASSUME NEW c \in Blocks', mem'[c].state = FREE
        PROVE  dirty' \cap Data(c, mem'[c].size) = {}
    <2>1. CASE c \in Blocks \ {b}
      <3>1. dirty \cap Data(c, mem'[c].size) = {}
        BY <1>s, <1>4, <2>1 DEF IInv, FreeIsZero
      <3>2. c + mem[c].size <= b \/ b + mem[b].size <= c
        BY <1>s, <1>1, <2>1, BlocksAreApart DEF IInv
      <3>3. HeaderBytes(b + s) \cap Data(c, mem'[c].size) = {}
        BY <1>s, <1>1, <1>2, <2>1, <3>2 DEF Data
      <3> QED
        BY <1>s, <3>1, <3>3
    <2>2. CASE c = b
      <3>1. Data(c, mem'[c].size) \subseteq Data(b, mem[b].size)
        BY <1>s, <1>1, <2>2 DEF Data
      <3>2. HeaderBytes(b + s) \cap Data(c, mem'[c].size) = {}
        BY <1>s, <1>1, <2>2 DEF Data, HeaderBytes
      <3> QED
        BY <1>s, <3>1, <3>2 DEF IInv, FreeIsZero
    <2>3. CASE c = b + s
      <3>1. Data(c, mem'[c].size) \subseteq Data(b, mem[b].size)
        BY <1>s, <1>1, <2>3 DEF Data
      <3>2. HeaderBytes(b + s) \cap Data(c, mem'[c].size) = {}
        BY <1>s, <1>1, <2>3 DEF Data, HeaderBytes
      <3> QED
        BY <1>s, <3>1, <3>2 DEF IInv, FreeIsZero
    <2> QED
      BY <1>s, <2>1, <2>2, <2>3
  <1>5. FreeIsZero'
    BY <1>s, <1>4 DEF FreeIsZero
  <1> QED
    BY <1>s, <1>3, <1>5

LEMMA TakeBlockKeeps == ASSUME IInv, TakeBlock PROVE IInv'
  <1>1. /\ block \in Blocks /\ pc = "search" /\ pc' = "mark"
        /\ UNCHANGED <<gHeap, block, size, live>>
        /\ mem[block].state = FREE /\ size <= mem[block].size
    BY BlocksAreTyped DEF TakeBlock, Fits, IInv, WalksOnHeaders
  <1>2. size \in Nat /\ HeaderSize \in Nat \ {0} /\ HeaderSize < size
    BY <1>1, SizesAssumption, HeaderAssumption DEF IInv, TypeOK, RequestIsValid
  <1>3. CASE mem[block].size - size >= HeaderSize + MinimalSize
    <2>1. mem' = SplitBlock(block, size) /\ dirty' = dirty \cup HeaderBytes(block + size)
      BY <1>3 DEF TakeBlock
    <2>2. /\ Blocks' = Blocks \cup {block + size} /\ block + size \notin Blocks
          /\ mem'[block].size = size /\ mem'[block].state = FREE
          /\ mem'[block + size].state = FREE
          /\ \A c \in Blocks \ {block} : mem'[c] = mem[c]
          /\ Blocks' \subseteq Base..(Limit - 1)
          /\ mem' \in [Blocks' -> [size : 1..(Limit - Base), state : {FREE, USED}]]
      BY <1>1, <1>2, <1>3, <2>1, SplitIsTyped
    <2>3. Tiled'
      BY <1>1, <1>2, <1>3, <2>1, SplitKeepsTiled
    <2>4. FreeIsZero' /\ DirtyIsInHeap' /\ dirty' \subseteq Base..(Limit - 1)
      BY <1>1, <1>2, <1>3, <2>1, SplitKeepsZero
    <2>5. TypeOK'
      BY <1>1, <2>2, <2>4 DEF IInv, TypeOK
    <2>6. UsedIsLive'
      BY <1>1, <2>2 DEF IInv, UsedIsLive, FREE, USED
    <2>7. WalksOnHeaders' /\ RequestIsValid' /\ MarksAFit' /\ PassedAreTooSmall'
      BY <1>1, <1>2, <2>2
         DEF IInv, WalksOnHeaders, RequestIsValid, MarksAFit, PassedAreTooSmall
    <2> QED
      BY <2>3, <2>4, <2>5, <2>6, <2>7 DEF IInv
  <1>4. CASE ~(mem[block].size - size >= HeaderSize + MinimalSize)
    <2>1. UNCHANGED <<mem, dirty>>
      BY <1>4 DEF TakeBlock
    <2>2. WalksOnHeaders' /\ RequestIsValid' /\ MarksAFit' /\ PassedAreTooSmall'
      BY <1>1, <2>1 DEF IInv, WalksOnHeaders, RequestIsValid, MarksAFit, PassedAreTooSmall
    <2>3. block' \in Base..Limit /\ size' \in Nat
      BY <1>1 DEF IInv, TypeOK
    <2> QED
      BY <1>1, <2>1, <2>2, <2>3, WalkKeeps
  <1> QED
    BY <1>3, <1>4

-----------------------------------------------------------------------------
(* A block changes its state and nothing else.                             *)

LEMMA StateChange ==
    ASSUME IInv, NEW b \in Blocks, NEW st \in {FREE, USED},
           mem' = SetState(b, st)
    PROVE  /\ Blocks' = Blocks
           /\ mem'[b].state = st
           /\ \A c \in Blocks : mem'[c].size = mem[c].size
           /\ \A c \in Blocks \ {b} : mem'[c].state = mem[c].state
           /\ mem' \in [Blocks' -> [size : 1..(Limit - Base), state : {FREE, USED}]]
  <1>1. /\ Blocks' = Blocks /\ mem'[b] = Header(mem[b].size, st)
        /\ \A c \in Blocks \ {b} : mem'[c] = mem[c]
        /\ mem' = [c \in DOMAIN mem' |-> mem'[c]]
    BY DEF Put, SetState
  <1>2. Header(mem[b].size, st) \in [size : 1..(Limit - Base), state : {FREE, USED}]
    BY BlocksAreTyped DEF IInv, Header
  <1>3. \A c \in DOMAIN mem' : mem'[c] \in [size : 1..(Limit - Base), state : {FREE, USED}]
    BY <1>1, <1>2, BlocksAreTyped DEF IInv
  <1>4. mem' \in [Blocks' -> [size : 1..(Limit - Base), state : {FREE, USED}]]
    BY <1>3, <1>1, HeadersAreTyped
  <1> QED
    BY <1>1, <1>4, HeaderHolds

LEMMA StateChangeKeepsTiled ==
    ASSUME IInv, gHeap' = gHeap, Blocks' = Blocks, \A c \in Blocks : mem'[c].size = mem[c].size
    PROVE  Tiled'
  BY DEF IInv, Tiled

LEMMA MarkUsedKeeps == ASSUME IInv, MarkUsed PROVE IInv'
  <1> USE BlocksAreTyped, HeaderAssumption, HeapAssumption
  <1>1. /\ pc = "mark" /\ pc' = "idle" /\ block \in Blocks /\ UNCHANGED <<gHeap, block, size>>
        /\ mem[block].state = FREE /\ size <= mem[block].size
        /\ mem' = SetState(block, USED)
        /\ dirty' = dirty \cup Data(block, mem[block].size)
    BY DEF MarkUsed, IInv, MarksAFit
  <1>2. /\ Blocks' = Blocks
        /\ mem'[block].state = USED
        /\ \A c \in Blocks : mem'[c].size = mem[c].size
        /\ \A c \in Blocks \ {block} : mem'[c].state = mem[c].state
        /\ mem' \in [Blocks' -> [size : 1..(Limit - Base), state : {FREE, USED}]]
    BY <1>1, StateChange
  <1>3. /\ \A c \in Blocks : c \in Nat /\ Base <= c /\ mem[c].size \in Nat
        /\ gHeap \in Nat /\ gHeap <= Limit /\ Limit \in Nat /\ Base \in Nat
        /\ HeaderSize \in Nat \ {0} /\ block + mem[block].size <= gHeap
        /\ HeaderSize < mem[block].size
    BY <1>1 DEF IInv, Tiled
  <1>4. size \in Nat /\ size - HeaderSize \in Nat
    BY <1>1, SizesAssumption DEF IInv, TypeOK, RequestIsValid
  <1>5. /\ DOMAIN live' = DOMAIN live \cup {block + HeaderSize}
        /\ live'[block + HeaderSize] = size - HeaderSize
        /\ \A p \in DOMAIN live \ {block + HeaderSize} : live'[p] = live[p]
        /\ live' = [p \in DOMAIN live' |-> live'[p]]
    BY DEF MarkUsed
  <1>6. Tiled'
    BY <1>1, <1>2, StateChangeKeepsTiled
  <1>7. DirtyIsInHeap' /\ dirty' \subseteq Base..(Limit - 1)
    BY <1>1, <1>3 DEF IInv, DirtyIsInHeap, Data
  <1>8. TypeOK'
    <2>1. live' \in [DOMAIN live' -> Nat] /\ DOMAIN live' \subseteq Base..(Limit - 1)
      <3>1. \A p \in DOMAIN live : live[p] \in Nat /\ p \in Base..(Limit - 1)
        BY DEF IInv, TypeOK
      <3>2. block + HeaderSize \in Base..(Limit - 1)
        BY <1>1, <1>3
      <3> QED
        BY <1>4, <1>5, <3>1, <3>2
    <2> QED
      BY <1>1, <1>2, <1>7, <2>1 DEF IInv, TypeOK
  <1>9. FreeIsZero'
    <2> SUFFICES ASSUME NEW c \in Blocks, mem'[c].state = FREE
                 PROVE  dirty' \cap Data(c, mem'[c].size) = {}
      BY <1>2 DEF FreeIsZero
    <2>1. c # block
      BY <1>2 DEF FREE, USED
    <2>2. Data(block, mem[block].size) \cap Data(c, mem[c].size) = {}
      BY <1>1, <2>1, BlocksAreApart DEF IInv
    <2>3. dirty \cap Data(c, mem[c].size) = {}
      BY <1>2, <2>1 DEF IInv, FreeIsZero
    <2> QED
      BY <1>1, <1>2, <2>2, <2>3
  <1>10. UsedIsLive'
    <2>1. ASSUME NEW p \in DOMAIN live'
          PROVE  /\ p - HeaderSize \in Blocks'
                 /\ mem'[p - HeaderSize].state = USED
                 /\ live'[p] + HeaderSize <= mem'[p - HeaderSize].size
      <3>1. CASE p = block + HeaderSize
        BY <1>1, <1>2, <1>3, <1>4, <1>5, <3>1
      <3>2. CASE p # block + HeaderSize
        BY <1>2, <1>5, <2>1, <3>2 DEF IInv, UsedIsLive
      <3> QED
        BY <3>1, <3>2
    <2>2. \A c \in Blocks' : mem'[c].state = USED => c + HeaderSize \in DOMAIN live'
      BY <1>2, <1>5 DEF IInv, UsedIsLive
    <2> QED
      BY <2>1, <2>2 DEF UsedIsLive
  <1>11. WalksOnHeaders' /\ RequestIsValid' /\ MarksAFit' /\ PassedAreTooSmall'
    BY <1>1 DEF WalksOnHeaders, RequestIsValid, MarksAFit, PassedAreTooSmall
  <1> QED
    BY <1>6, <1>7, <1>8, <1>9, <1>10, <1>11 DEF IInv

LEMMA kfreeKeeps == ASSUME IInv, NEW p \in DOMAIN live, kfree(p) PROVE IInv'
  <1> DEFINE b == p - HeaderSize
  <1> USE BlocksAreTyped, HeaderAssumption, HeapAssumption
  <1>1. /\ b \in Blocks /\ mem[b].state = USED /\ pc' = "defrag" /\ block' = Base
        /\ UNCHANGED <<gHeap, size>>
        /\ mem' = SetState(b, FREE)
        /\ dirty' = dirty \ Data(b, mem[b].size)
        /\ DOMAIN live' = DOMAIN live \ {p}
        /\ \A q \in DOMAIN live \ {p} : live'[q] = live[q]
        /\ live' = [q \in DOMAIN live' |-> live'[q]]
    BY DEF kfree, IInv, UsedIsLive, DirtyAfterFree
  <1> HIDE DEF b
  <1>2. /\ Blocks' = Blocks
        /\ mem'[b].state = FREE
        /\ \A c \in Blocks : mem'[c].size = mem[c].size
        /\ \A c \in Blocks \ {b} : mem'[c].state = mem[c].state
        /\ mem' \in [Blocks' -> [size : 1..(Limit - Base), state : {FREE, USED}]]
    BY <1>1, StateChange
  <1>3. Tiled'
    BY <1>1, <1>2, StateChangeKeepsTiled
  <1>4. TypeOK'
    <2>1. live' \in [DOMAIN live' -> Nat] /\ DOMAIN live' \subseteq Base..(Limit - 1)
      BY <1>1 DEF IInv, TypeOK
    <2>2. Base \in Base..Limit
      BY PageAssumption
    <2> QED
      BY <1>1, <1>2, <2>1, <2>2 DEF IInv, TypeOK
  <1>5. FreeIsZero' /\ DirtyIsInHeap'
    BY <1>1, <1>2 DEF IInv, FreeIsZero, DirtyIsInHeap
  <1>6. UsedIsLive'
    <2>1. p \in Nat /\ \A q \in DOMAIN live : q \in Nat
      BY DEF IInv, TypeOK
    <2>2. ASSUME NEW q \in DOMAIN live'
          PROVE  /\ q - HeaderSize \in Blocks'
                 /\ mem'[q - HeaderSize].state = USED
                 /\ live'[q] + HeaderSize <= mem'[q - HeaderSize].size
      <3>1. q \in DOMAIN live /\ q - HeaderSize # b
        BY <1>1, <2>1 DEF b
      <3> QED
        BY <1>1, <1>2, <3>1 DEF IInv, UsedIsLive
    <2>3. ASSUME NEW c \in Blocks', mem'[c].state = USED
          PROVE  c + HeaderSize \in DOMAIN live'
      <3>1. c \in Blocks /\ c # b /\ mem[c].state = USED
        BY <1>2, <2>3 DEF FREE, USED
      <3>2. c + HeaderSize # p
        BY <2>1, <3>1 DEF b, IInv
      <3> QED
        BY <1>1, <3>1, <3>2 DEF IInv, UsedIsLive
    <2> QED
      BY <2>2, <2>3 DEF UsedIsLive
  <1>7. WalksOnHeaders' /\ RequestIsValid' /\ MarksAFit' /\ PassedAreTooSmall'
    BY <1>1, <1>2 DEF IInv, Tiled, WalksOnHeaders, RequestIsValid, MarksAFit, PassedAreTooSmall
  <1> QED
    BY <1>3, <1>4, <1>5, <1>6, <1>7 DEF IInv

-----------------------------------------------------------------------------
(* ksbrk.                                                                  *)

\* A whole number of pages, at least one.
LEMMA GrowthIsPages ==
    ASSUME NEW s \in Nat
    PROVE  PagesFor(s) * PageSize \in Nat /\ HeaderSize < PagesFor(s) * PageSize
  <1>1. PageSize \in Nat /\ HeaderSize \in Nat /\ HeaderSize < PageSize
    BY HeaderAssumption, PageAssumption
  <1>2. PagesFor(s) \in Nat /\ 1 <= PagesFor(s)
    <2>1. CASE s > DefaultBlockSize
      <3>1. DefaultBlockSize \in Nat /\ 0 < DefaultBlockSize
        BY <1>1 DEF DefaultBlockSize
      <3>2. s \div DefaultBlockSize \in Nat
        BY <3>1
      <3>3. PagesFor(s) = (s \div DefaultBlockSize) + 1
        BY <2>1, <3>1 DEF PagesFor, Mod
      <3> QED
        BY <3>2, <3>3
    <2>2. CASE ~(s > DefaultBlockSize)
      BY <2>2 DEF PagesFor
    <2> QED
      BY <2>1, <2>2
  <1>3. \A k \in Nat : 1 <= k => k * PageSize \in Nat /\ PageSize <= k * PageSize
    BY <1>1
  <1> QED
    BY <1>1, <1>2, <1>3

LEMMA ksbrkKeeps == ASSUME IInv, ksbrk PROVE IInv'
  <1> DEFINE bytes == PagesFor(size) * PageSize
  <1>1. /\ block = gHeap /\ pc = "search" /\ UNCHANGED <<size, live>>
    BY BlocksAreTyped DEF ksbrk, IInv, WalksOnHeaders, Tiled
  <1>2. /\ \A c \in Blocks : c \in Nat /\ Base <= c /\ mem[c].size \in Nat /\ 0 < mem[c].size
                             /\ c + mem[c].size <= gHeap
        /\ gHeap \in Nat /\ Base <= gHeap /\ gHeap <= Limit /\ Limit \in Nat /\ Base \in Nat
        /\ HeaderSize \in Nat \ {0} /\ size \in Nat
    BY BlocksAreTyped, HeaderAssumption, HeapAssumption DEF IInv, Tiled
  <1>3. bytes \in Nat /\ HeaderSize < bytes
    BY <1>2, GrowthIsPages
  <1> HIDE DEF bytes
  <1>4. CASE WithinLimit(bytes)
    <2>1. /\ mem' = Put(mem, gHeap, Header(bytes, FREE))
          /\ gHeap' = gHeap + bytes /\ block' = gHeap /\ pc' = pc
          /\ dirty' = dirty \cup HeaderBytes(gHeap)
          /\ gHeap + bytes <= Limit
      BY <1>4 DEF ksbrk, WithinLimit, DirtyAfterGrowth, bytes
    <2>2. gHeap \notin Blocks
      BY <1>2
    <2>3. /\ Blocks' = Blocks \cup {gHeap} /\ mem'[gHeap] = Header(bytes, FREE)
          /\ \A c \in Blocks : mem'[c] = mem[c]
          /\ mem' = [c \in DOMAIN mem' |-> mem'[c]]
      BY <2>1, <2>2 DEF Put
    <2>4. mem'[gHeap].size = bytes /\ mem'[gHeap].state = FREE
      BY <2>3, HeaderHolds
    <2>5. mem' \in [Blocks' -> [size : 1..(Limit - Base), state : {FREE, USED}]]
      <3>1. Header(bytes, FREE) \in [size : 1..(Limit - Base), state : {FREE, USED}]
        BY <1>2, <1>3, <2>1 DEF Header
      <3>2. \A c \in DOMAIN mem' : mem'[c] \in [size : 1..(Limit - Base), state : {FREE, USED}]
        BY <2>3, <3>1, BlocksAreTyped DEF IInv
      <3> QED
        BY <2>3, <3>2, HeadersAreTyped
    <2>6. HeaderBytes(gHeap) \subseteq gHeap..(gHeap + bytes - 1)
      BY <1>2, <1>3 DEF HeaderBytes
    <2>7. DirtyIsInHeap' /\ dirty' \subseteq Base..(Limit - 1)
      <3>1. dirty' \subseteq Base..(gHeap + bytes - 1)
        <4>1. HeaderBytes(gHeap) \subseteq Base..(gHeap + bytes - 1)
          BY <1>2, <1>3, <2>6
        <4>2. dirty \subseteq Base..(gHeap + bytes - 1)
          BY <1>2, <1>3 DEF IInv, DirtyIsInHeap
        <4> QED
          BY <2>1, <4>1, <4>2
      <3> QED
        BY <1>2, <1>3, <2>1, <3>1 DEF DirtyIsInHeap
    <2>8. TypeOK'
      <3>1. Blocks' \subseteq Base..(Limit - 1)
        BY <1>2, <1>3, <2>1, <2>3 DEF IInv, TypeOK
      <3>2. gHeap' \in Base..Limit /\ block' \in Base..Limit
        BY <1>2, <1>3, <2>1
      <3> QED
        BY <1>1, <2>1, <2>5, <2>7, <3>1, <3>2 DEF IInv, TypeOK
    <2>9. Tiled'
      <3>1. \A c \in Blocks' : HeaderSize < mem'[c].size
        BY <1>3, <2>3, <2>4 DEF IInv, Tiled
      <3>2. \A c \in Blocks' : c + mem'[c].size = gHeap' \/ c + mem'[c].size \in Blocks'
        BY <2>1, <2>3, <2>4 DEF IInv, Tiled
      <3>3. \A c \in Blocks' : c + mem'[c].size <= gHeap'
        BY <1>2, <1>3, <2>1, <2>3, <2>4
      <3>4. \A c, d \in Blocks' : c < d => c + mem'[c].size <= d
        BY <1>2, <1>3, <2>3, <2>4 DEF IInv, Tiled
      <3> QED
        BY <2>3, <3>1, <3>2, <3>3, <3>4 DEF IInv, Tiled
    <2>10. FreeIsZero'
      <3> SUFFICES ASSUME NEW c \in Blocks', mem'[c].state = FREE
                   PROVE  dirty' \cap Data(c, mem'[c].size) = {}
        BY DEF FreeIsZero
      <3>1. CASE c = gHeap
        <4>1. HeaderBytes(gHeap) \cap Data(gHeap, bytes) = {}
          BY <1>2, <1>3 DEF HeaderBytes, Data
        <4>2. dirty \cap Data(gHeap, bytes) = {}
          BY <1>2, <1>3 DEF IInv, DirtyIsInHeap, Data
        <4> QED
          BY <2>1, <2>4, <3>1, <4>1, <4>2
      <3>2. CASE c \in Blocks
        <4>1. HeaderBytes(gHeap) \cap Data(c, mem[c].size) = {}
          BY <1>2, <3>2 DEF HeaderBytes, Data
        <4>2. dirty \cap Data(c, mem[c].size) = {}
          BY <2>3, <3>2 DEF IInv, FreeIsZero
        <4> QED
          BY <2>1, <2>3, <3>2, <4>1, <4>2
      <3> QED
        BY <2>3, <3>1, <3>2
    <2>11. UsedIsLive'
      BY <1>1, <2>2, <2>3, <2>4 DEF IInv, UsedIsLive, FREE, USED
    <2>12. WalksOnHeaders' /\ RequestIsValid' /\ MarksAFit'
      BY <1>1, <2>1, <2>3 DEF IInv, WalksOnHeaders, RequestIsValid, MarksAFit
    <2>13. PassedAreTooSmall'
      BY <1>1, <1>2, <2>1, <2>3 DEF IInv, PassedAreTooSmall
    <2> QED
      BY <2>7, <2>8, <2>9, <2>10, <2>11, <2>12, <2>13 DEF IInv
  <1>5. CASE ~WithinLimit(bytes)
    <2>1. pc' = "panic" /\ UNCHANGED <<mem, gHeap, dirty, block, live>> /\ size' = size
      BY <1>1, <1>5 DEF ksbrk, bytes
    <2>2. WalksOnHeaders' /\ RequestIsValid' /\ MarksAFit' /\ PassedAreTooSmall'
      BY <2>1 DEF WalksOnHeaders, RequestIsValid, MarksAFit, PassedAreTooSmall
    <2>3. block' \in Base..Limit /\ size' \in Nat
      BY <2>1 DEF IInv, TypeOK
    <2> QED
      BY <2>1, <2>2, <2>3, WalkKeeps
  <1> QED
    BY <1>4, <1>5

-----------------------------------------------------------------------------
(* _kdefrag.                                                               *)

LEMMA MergeKeeps ==
    ASSUME IInv, NEW next \in Blocks, block \in Blocks, next = block + mem[block].size,
           pc = "defrag", mem[block].state = FREE, mem[next].state = FREE,
           DefragBlock, next < gHeap
    PROVE  IInv'
  <1> DEFINE merged == mem[block].size + mem[next].size
  <1>1. /\ \A c \in Blocks : c \in Nat /\ Base <= c /\ mem[c].size \in Nat /\ 0 < mem[c].size
                             /\ HeaderSize < mem[c].size /\ c + mem[c].size <= gHeap
        /\ gHeap \in Nat /\ gHeap <= Limit /\ Limit \in Nat /\ Base \in Nat
        /\ HeaderSize \in Nat \ {0}
    BY BlocksAreTyped, HeaderAssumption, HeapAssumption DEF IInv, Tiled
  <1>2. /\ merged \in Nat /\ HeaderSize < merged /\ block < next /\ block + merged <= gHeap
        /\ block + merged = next + mem[next].size
    BY <1>1
  <1>3. /\ mem' = [a \in Blocks \ {next} |-> IF a = block THEN Header(merged, FREE) ELSE mem[a]]
        /\ dirty' = dirty \ Data(block, merged)
        /\ block' = block + merged
        /\ UNCHANGED <<gHeap, pc, size, live>>
    BY DEF DefragBlock, Mergeable, BehindMerge
  <1> HIDE DEF merged
  <1>4. /\ Blocks' = Blocks \ {next} /\ mem'[block] = Header(merged, FREE)
        /\ \A c \in Blocks' \ {block} : mem'[c] = mem[c]
        /\ mem' = [c \in DOMAIN mem' |-> mem'[c]]
        /\ block \in Blocks'
    BY <1>1, <1>2, <1>3
  <1>5. mem'[block].size = merged /\ mem'[block].state = FREE
    BY <1>4, HeaderHolds
  <1>6. mem' \in [Blocks' -> [size : 1..(Limit - Base), state : {FREE, USED}]]
    <2>1. Header(merged, FREE) \in [size : 1..(Limit - Base), state : {FREE, USED}]
      BY <1>1, <1>2 DEF Header
    <2>2. \A c \in DOMAIN mem' : mem'[c] \in [size : 1..(Limit - Base), state : {FREE, USED}]
      BY <1>4, <2>1, BlocksAreTyped DEF IInv
    <2> QED
      BY <1>4, <2>2, HeadersAreTyped
  <1>7. TypeOK'
    <2>1. block' \in Base..Limit
      BY <1>1, <1>2, <1>3
    <2> QED
      BY <1>3, <1>4, <1>6, <2>1 DEF IInv, TypeOK
  <1>8. \A c \in Blocks \ {block} : c + mem[c].size # next
    <2> SUFFICES ASSUME NEW c \in Blocks \ {block}, c + mem[c].size = next PROVE FALSE
      OBVIOUS
    <2>1. CASE c < block
      BY <1>1, <1>2, <2>1 DEF IInv, Tiled
    <2>2. CASE block < c
      BY <1>1, <1>2, <2>2 DEF IInv, Tiled
    <2> QED
      BY <1>1, <2>1, <2>2
  <1>9. Tiled'
    <2>1. \A c \in Blocks' : HeaderSize < mem'[c].size
      BY <1>1, <1>2, <1>4, <1>5
    <2>2. ASSUME NEW c \in Blocks'
          PROVE  c + mem'[c].size = gHeap' \/ c + mem'[c].size \in Blocks'
      <3>1. CASE c = block
        <4>1. next + mem[next].size = gHeap \/ next + mem[next].size \in Blocks
          BY DEF IInv, Tiled
        <4>2. next + mem[next].size # next
          BY <1>1
        <4> QED
          BY <1>2, <1>3, <1>4, <1>5, <3>1, <4>1, <4>2
      <3>2. CASE c # block
        <4>1. c + mem[c].size = gHeap \/ c + mem[c].size \in Blocks
          BY <1>4 DEF IInv, Tiled
        <4> QED
          BY <1>3, <1>4, <1>8, <3>2, <4>1
      <3> QED
        BY <3>1, <3>2
    <2>3. \A c \in Blocks' : c + mem'[c].size <= gHeap'
      BY <1>1, <1>2, <1>3, <1>4, <1>5
    <2>4. ASSUME NEW c \in Blocks', NEW d \in Blocks', c < d
          PROVE  c + mem'[c].size <= d
      <3>1. CASE c = block
        <4>1. next <= d /\ d # next /\ d \in Blocks
          BY <1>1, <1>4, <2>4, <3>1 DEF IInv, Tiled
        <4>2. next < d
          BY <1>1, <4>1
        <4>3. next + mem[next].size <= d
          BY <4>1, <4>2 DEF IInv, Tiled
        <4> QED
          BY <1>2, <1>5, <3>1, <4>3
      <3>2. CASE c # block
        BY <1>1, <1>4, <2>4, <3>2 DEF IInv, Tiled
      <3> QED
        BY <3>1, <3>2
    <2>5. Base \in Blocks'
      <3>1. Base # next
        BY <1>1, <1>2
      <3> QED
        BY <1>4, <3>1 DEF IInv, Tiled
    <2> QED
      BY <2>1, <2>2, <2>3, <2>4, <2>5 DEF Tiled
  <1>10. FreeIsZero' /\ DirtyIsInHeap'
    <2>1. DirtyIsInHeap'
      BY <1>3 DEF IInv, DirtyIsInHeap
    <2>2. \A c \in Blocks' : mem'[c].state = FREE => dirty' \cap Data(c, mem'[c].size) = {}
      BY <1>3, <1>4, <1>5 DEF IInv, FreeIsZero
    <2> QED
      BY <2>1, <2>2 DEF FreeIsZero
  <1>11. UsedIsLive'
    BY <1>3, <1>4, <1>5 DEF IInv, UsedIsLive, FREE, USED
  <1>12. WalksOnHeaders'
    <2>1. block' = gHeap \/ block' \in Blocks
      BY <1>2, <1>3 DEF IInv, Tiled
    <2>2. block' # next
      BY <1>1, <1>2, <1>3
    <2> QED
      BY <1>3, <1>4, <2>1, <2>2 DEF WalksOnHeaders
  <1>13. RequestIsValid' /\ MarksAFit' /\ PassedAreTooSmall'
    BY <1>3 DEF RequestIsValid, MarksAFit, PassedAreTooSmall
  <1> QED
    BY <1>7, <1>9, <1>10, <1>11, <1>12, <1>13 DEF IInv

LEMMA DefragBlockKeeps == ASSUME IInv, DefragBlock PROVE IInv'
  <1> DEFINE next == block + mem[block].size
  <1>1. pc = "defrag" /\ block \in Blocks
    BY BlocksAreTyped DEF DefragBlock, IInv, WalksOnHeaders
  <1>2. next = gHeap \/ next \in Blocks
    BY <1>1 DEF IInv, Tiled
  <1>3. CASE next < gHeap /\ Mergeable(block, next)
    <2>1. next \in Blocks
      BY <1>2, <1>3, BlocksAreTyped DEF IInv
    <2>2. mem[block].state = FREE /\ mem[next].state = FREE
      BY <1>3 DEF Mergeable
    <2> HIDE DEF next
    <2>3. next = block + mem[block].size
      BY DEF next
    <2> QED
      BY <1>1, <1>3, <2>1, <2>2, <2>3, MergeKeeps
  <1>4. CASE ~(next < gHeap /\ Mergeable(block, next))
    <2>1. block' = next /\ pc' = "defrag" /\ UNCHANGED <<mem, gHeap, dirty, size, live>>
      BY <1>1, <1>4 DEF DefragBlock
    <2>2. next \in Base..Limit
      BY <1>1, BlocksAreTyped, HeapAssumption DEF IInv, Tiled
    <2>3. WalksOnHeaders' /\ RequestIsValid' /\ MarksAFit' /\ PassedAreTooSmall'
      BY <1>2, <2>1 DEF WalksOnHeaders, RequestIsValid, MarksAFit, PassedAreTooSmall
    <2>4. size' \in Nat
      BY <2>1 DEF IInv, TypeOK
    <2> QED
      BY <2>1, <2>2, <2>3, <2>4, WalkKeeps
  <1> QED
    BY <1>3, <1>4

-----------------------------------------------------------------------------
LEMMA StepKeeps == IInv /\ [Next]_vars => IInv'
  <1> SUFFICES ASSUME IInv, [Next]_vars PROVE IInv'
    OBVIOUS
  <1>1. ASSUME NEW n \in Sizes, kmalloc(n) PROVE IInv'
    BY <1>1, kmallocKeeps
  <1>2. ASSUME NEW p \in DOMAIN live, kfree(p) PROVE IInv'
    BY <1>2, kfreeKeeps
  <1>3. CASE Work
    BY <1>3, SkipBlockKeeps, TakeBlockKeeps, MarkUsedKeeps, ksbrkKeeps, DefragBlockKeeps,
       DefragEndKeeps DEF Work
  <1>4. CASE UNCHANGED vars
    <2>1. WalksOnHeaders' /\ RequestIsValid' /\ MarksAFit' /\ PassedAreTooSmall'
      BY <1>4 DEF vars, IInv, WalksOnHeaders, RequestIsValid, MarksAFit, PassedAreTooSmall
    <2> QED
      BY <1>4, <2>1, WalkKeeps DEF vars, IInv, TypeOK
  <1> QED
    BY <1>1, <1>2, <1>3, <1>4 DEF Next

LEMMA Invariance == Spec => []IInv
  BY InitIInv, StepKeeps, PTL DEF Spec

\* Every variable has a value of its C type.
THEOREM TypeCorrect == Spec => []TypeOK
  <1>1. IInv => TypeOK
    BY DEF IInv
  <1> QED
    BY <1>1, Invariance, PTL

\* After any sequence of allocations and releases the headers form a row of
\* blocks from the base of the heap to its end, the walks of kmalloc and kfree
\* stay on it, and the used blocks are what callers hold (kmalloc.c:31-190).
THEOREM HeadersStaySound == Spec => []HeadersAreSound
  <1>1. IInv => HeadersAreSound
    BY DEF IInv, HeadersAreSound
  <1> QED
    BY <1>1, Invariance, PTL

\* Whatever was written, freed and merged, a block that is free is 0 behind its
\* header (kmalloc.c:72, 110, 185).
THEOREM FreeMemoryIsZero == Spec => []FreeIsZero
  <1>1. IInv => FreeIsZero
    BY DEF IInv
  <1> QED
    BY <1>1, Invariance, PTL

\* The heap grows, and the kernel panics, only when every free block is too
\* small for the request (kmalloc.c:126-154).
THEOREM GrowsWhenFull == Spec => GrowsOnlyWhenFull
  <1> DEFINE Grown == gHeap' # gHeap \/ (pc' = "panic" /\ pc # "panic")
             Full == \A b \in Blocks : mem[b].state = FREE => mem[b].size < size
  <1>1. IInv /\ [Next]_vars => [Grown => Full]_vars
    <2> SUFFICES ASSUME IInv, Next, Grown PROVE Full
      OBVIOUS
    <2>1. ksbrk
      BY DEF Next, Work, kmalloc, kfree, SkipBlock, TakeBlock, MarkUsed, DefragBlock, DefragEnd
    <2>2. pc = "search" /\ block >= gHeap
      BY <2>1 DEF ksbrk
    <2>3. \A b \in Blocks : b < block
      <3>1. \A b \in Blocks : b \in Nat /\ mem[b].size \in Nat /\ 0 < mem[b].size
                              /\ b + mem[b].size <= gHeap
        BY BlocksAreTyped DEF IInv, Tiled
      <3>2. gHeap \in Nat /\ block \in Nat
        BY BlocksAreTyped DEF IInv
      <3> QED
        BY <2>2, <3>1, <3>2
    <2> QED
      BY <2>2, <2>3 DEF IInv, PassedAreTooSmall
  <1> QED
    BY <1>1, Invariance, PTL DEF Spec, GrowsOnlyWhenFull

-----------------------------------------------------------------------------
(* What callers hold: a step of the heap is a step of Allocator or none.   *)

\* The bytes of an allocation are between the header of its block and the
\* block's end, so that another free block has none of them.
LEMMA AllocationsAreApart ==
    ASSUME IInv, NEW b \in Blocks, mem[b].state = FREE, NEW q \in DOMAIN live
    PROVE  /\ q + live[q] <= b \/ b + mem[b].size <= q
           /\ q # b + HeaderSize
  <1>1. /\ q - HeaderSize \in Blocks /\ mem[q - HeaderSize].state = USED
        /\ live[q] + HeaderSize <= mem[q - HeaderSize].size
    BY DEF IInv, UsedIsLive
  <1>2. q \in Nat /\ live[q] \in Nat /\ HeaderSize \in Nat /\ b \in Nat /\ mem[b].size \in Nat
        /\ mem[q - HeaderSize].size \in Nat
    BY <1>1, BlocksAreTyped, HeaderAssumption, HeapAssumption DEF IInv, TypeOK
  <1>3. q - HeaderSize # b
    BY <1>1 DEF FREE, USED
  <1>4. q - HeaderSize + mem[q - HeaderSize].size <= b \/ b + mem[b].size <= q - HeaderSize
    BY <1>1, <1>3, BlocksAreApart DEF IInv
  <1> QED
    BY <1>1, <1>2, <1>3, <1>4

LEMMA MarkUsedAllocates ==
    ASSUME IInv, MarkUsed
    PROVE  Abstract!Alloc(block + HeaderSize, size - HeaderSize)
           /\ block + HeaderSize \in Base..(Limit - 1) /\ size - HeaderSize \in Sizes
  <1>1. /\ block \in Blocks /\ mem[block].state = FREE /\ size <= mem[block].size
        /\ size - HeaderSize \in Sizes
    BY DEF MarkUsed, IInv, MarksAFit, RequestIsValid
  <1>2. /\ block \in Nat /\ Base <= block /\ mem[block].size \in Nat /\ HeaderSize < mem[block].size
        /\ block + mem[block].size <= Limit /\ size \in Nat /\ HeaderSize \in Nat
        /\ Base \in Nat /\ Limit \in Nat
    BY <1>1, BlocksAreTyped, HeaderAssumption, HeapAssumption DEF IInv, Tiled
  <1>3. block + HeaderSize + (size - HeaderSize) <= Limit
    BY <1>1, <1>2
  <1>4. Abstract!Free(block + HeaderSize, size - HeaderSize)
    <2> SUFFICES ASSUME NEW q \in DOMAIN live
                 PROVE  \/ q + live[q] <= block + HeaderSize
                        \/ block + HeaderSize + (size - HeaderSize) <= q
      BY DEF Abstract!Free
    <2>1. q + live[q] <= block \/ block + mem[block].size <= q
      BY <1>1, AllocationsAreApart
    <2>2. q \in Nat /\ live[q] \in Nat
      BY HeapAssumption DEF IInv, TypeOK
    <2> QED
      BY <1>1, <1>2, <2>1, <2>2
  <1>5. block + HeaderSize \notin DOMAIN live
    BY <1>1, AllocationsAreApart
  <1>6. live' = [q \in DOMAIN live \cup {block + HeaderSize} |->
                    IF q = block + HeaderSize THEN size - HeaderSize ELSE live[q]]
    BY DEF MarkUsed
  <1> QED
    BY <1>1, <1>2, <1>3, <1>4, <1>5, <1>6 DEF Abstract!Alloc

LEMMA StepImplements == IInv /\ [Next]_vars => [Abstract!Next]_live
  <1> SUFFICES ASSUME IInv, [Next]_vars PROVE Abstract!Next \/ live' = live
    OBVIOUS
  <1>1. ASSUME NEW p \in DOMAIN live, kfree(p) PROVE Abstract!Next
    BY <1>1 DEF kfree, Abstract!Next, Abstract!Release
  <1>2. CASE MarkUsed
    BY <1>2, MarkUsedAllocates DEF Abstract!Next
  <1>3. ASSUME \/ \E n \in Sizes : kmalloc(n)
               \/ SkipBlock \/ TakeBlock \/ ksbrk \/ DefragBlock \/ DefragEnd
               \/ UNCHANGED vars
        PROVE  live' = live
    BY <1>3 DEF kmalloc, SkipBlock, TakeBlock, ksbrk, DefragBlock, DefragEnd, vars
  <1> QED
    BY <1>1, <1>2, <1>3 DEF Next, Work

\* Blocks, headers, splits and merges implement an allocator of ranges that are
\* disjoint and stay within the heap (Allocator): no caller of kmalloc ever
\* gets memory that another one holds.
THEOREM HeapImplementsAllocator == Spec => ImplementsAllocator
  <1>1. Init => Abstract!Init
    BY DEF Init, Abstract!Init
  <1> QED
    BY <1>1, StepImplements, Invariance, PTL DEF Spec, ImplementsAllocator, Abstract!Spec
=============================================================================
