---------------------------- MODULE BuddyAllocator -----------------------------
(***************************************************************************)
(* The heap of TP2's kernel (Kernel/buddyMemoryAllocator.c): a tree of     *)
(* blocks over PageQuantity pages, node 1 the whole heap, nodes 2n and     *)
(* 2n + 1 the halves of node n, one mark per node.  A pointer is the number *)
(* of the page it points to.                                               *)
(*                                                                         *)
(* The calls are made by threads and guarded by buddyMutex, which is slot  *)
(* 0 of the mutex table, the one getMutex and releaseMutex use too: it may *)
(* be held by somebody else when a call wants it (Others).  The mutex is   *)
(* taken by its promise, module Lock.  A free that waited for the mutex    *)
(* frees whatever its page begins or lies in by then: the properties of    *)
(* the tree are checked for one caller.                                    *)
(***************************************************************************)
EXTENDS Integers, Sequences, FiniteSets, SequencesExt

CONSTANTS
  Threads,       \* the threads that allocate and free
  Others,        \* stands for all other users of mutex 0
  Nobody,
  PageQuantity,  \* PAGE_QUANTITY, a power of two
  PageSize,      \* PAGE_SIZE
  Requests       \* bound: the sizes in bytes that are asked for

ASSUME BuddyAssumption ==
  /\ \E j \in 1 .. PageQuantity : PageQuantity = 2 ^ j
  /\ PageSize \in Nat \ {0} /\ Requests \subseteq Nat
  /\ Others \notin Threads /\ Nobody \notin Threads /\ Others # Nobody

HeapSize == 2 * PageQuantity - 1
Nodes    == 1 .. HeapSize
Pages    == 0 .. PageQuantity - 1
Null     == -1
Marks    == {"FULLY_USED", "HALF_USED", "UNUSED", "ALLOCATED"}

LEFT(n)   == 2 * n
RIGHT(n)  == 2 * n + 1
PARENT(n) == n \div 2

VARIABLES
  blockUsage,       \* the marks
  holder, waiters,  \* buddyMutex
  call,             \* what each thread is waiting in mutexDown to do
  live              \* history: the blocks granted and not freed

vars == <<blockUsage, holder, waiters, call, live>>

Idle  == [op |-> "idle"]
Calls == {Idle} \union [op : {"allocate"}, bytes : Requests]
                \union [op : {"free"}, page : Pages]

Init ==
  /\ blockUsage = [n \in Nodes |-> "UNUSED"]
  /\ holder = Nobody /\ waiters = {}
  /\ call = [t \in Threads |-> Idle]
  /\ live = {}

--------------------------------------------------------------------------------
(* The functions of buddyMemoryAllocator.c *)

floorLog2(x) == CHOOSE j \in 0 .. x : 2 ^ j <= x /\ x < 2 ^ (j + 1)

\* The code's log2 counts one more for an odd number.
log2(x) == floorLog2(x) + (x % 2)

maxLevels == log2(PageQuantity)

\* Slip: the remainder is dropped.
pagesToAllocateDown(bytes) == bytes \div PageSize

pagesToAllocate(bytes) ==
  IF bytes % PageSize = 0 THEN bytes \div PageSize ELSE bytes \div PageSize + 1

\* Slip: the level of the parent is taken for the level of its halves.
divisionsOfParent(n) == log2(n) - (n % 2)

\* setMemoryBlockDivisionBases: the first page of every node.
divisions(n) == log2(n) + 1 - (n % 2)

memoryBase[n \in Nodes] ==
  IF n = 1 THEN 0
  ELSE IF n % 2 = 0 THEN memoryBase[PARENT(n)]
  ELSE memoryBase[PARENT(n)] + PageQuantity \div 2 ^ divisions(PARENT(n))

\* The pages of node n: half of its parent's.
sizeOf(n) == PageQuantity \div 2 ^ floorLog2(n)

levels(quantity) == IF quantity = 1 THEN maxLevels ELSE maxLevels - log2(quantity)

\* The nodes from n up to the root, n first.
Path(n) == [j \in 1 .. floorLog2(n) + 1 |-> n \div 2 ^ (j - 1)]

\* The nodes `lev` levels down where getPagesRecursive can allocate: unused,
\* with no ancestor that is fully used or allocated.
Candidates(usage, lev) ==
  {n \in 2 ^ lev .. 2 ^ (lev + 1) - 1 :
     /\ usage[n] = "UNUSED"
     /\ \A j \in 2 .. lev + 1 : usage[Path(n)[j]] \notin {"FULLY_USED", "ALLOCATED"}}

\* Slip: the other half is not looked at.
markParentForgetsLeft(usage, n) ==
  IF n = 1 THEN usage
  ELSE IF n % 2 = 0 THEN [usage EXCEPT ![PARENT(n)] = "HALF_USED"]
  ELSE IF usage[n] # "HALF_USED"
  THEN [usage EXCEPT ![PARENT(n)] = "FULLY_USED"] ELSE usage

\* What getPagesRecursive does to the parent of n when it found room under n.
markParent(usage, n) ==
  IF n = 1 THEN usage
  ELSE IF n % 2 = 0 THEN [usage EXCEPT ![PARENT(n)] = "HALF_USED"]
  ELSE IF usage[n] # "HALF_USED" /\ usage[n - 1] # "HALF_USED"
  THEN [usage EXCEPT ![PARENT(n)] = "FULLY_USED"] ELSE usage

\* getPagesRecursive tries the left half of every block before the right.
getPages(usage, quantity) ==
  LET found == Candidates(usage, levels(quantity))
  IN IF found = {} THEN [usage |-> usage, node |-> Null]
     ELSE LET n == Min(found)
          IN [usage |-> FoldLeft(markParent, [usage EXCEPT ![n] = "ALLOCATED"], Path(n)),
              node  |-> n]

\* Slip: the last of the four tests, for an allocated half, is missing.
refreshForgetsAllocated(usage, n) ==
  LET halves == {usage[LEFT(n)], usage[RIGHT(n)]}
  IN IF halves = {"UNUSED"} THEN [usage EXCEPT ![n] = "UNUSED"]
     ELSE IF halves \intersect {"FULLY_USED", "HALF_USED"} # {}
     THEN [usage EXCEPT ![n] = "HALF_USED"] ELSE usage

\* One level of freeMemoryRecursive.
refresh(usage, n) ==
  LET halves == {usage[LEFT(n)], usage[RIGHT(n)]}
  IN IF halves = {"UNUSED"} THEN [usage EXCEPT ![n] = "UNUSED"]
     ELSE [usage EXCEPT ![n] = "HALF_USED"]

Leaf(page) == PageQuantity + page

\* The block goes by its first page; freeMemory clears that page's leaf and
\* then refreshes every node above it, the allocated one among them.
freed(usage, page) ==
  FoldLeft(refresh, [usage EXCEPT ![Leaf(page)] = "UNUSED"], Tail(Path(Leaf(page))))

\* isAllocatedPage: the lowest used node over the page is an allocated block
\* that begins with the page.
isAllocatedPage(usage, page) ==
  LET up   == Path(Leaf(page))
      used == {j \in DOMAIN up : usage[up[j]] # "UNUSED"}
  IN /\ used # {}
     /\ usage[up[Min(used)]] = "ALLOCATED"
     /\ memoryBase[up[Min(used)]] = page

--------------------------------------------------------------------------------
(* Calls *)

\* mutexUp by the thread that has the mutex.
GiveUp ==
  \/ waiters = {} /\ holder' = Nobody /\ UNCHANGED waiters
  \/ \E w \in waiters : holder' = w /\ waiters' = waiters \ {w}

\* What a call does between mutexDown and mutexUp.
Effect(c) ==
  \/ /\ c.op = "allocate"
     /\ LET got == getPages(blockUsage, pagesToAllocate(c.bytes))
        IN /\ blockUsage' = got.usage
           /\ live' = IF got.node = Null THEN live
                      ELSE live \union {[page  |-> memoryBase[got.node],
                                         size  |-> sizeOf(got.node),
                                         bytes |-> c.bytes]}
  \/ /\ c.op = "free"
     /\ blockUsage' = freed(blockUsage, c.page)
     /\ live' = {b \in live : b.page # c.page}

\* Call c takes buddyMutex at once and gives it back, or waits for it.
Guarded(t, c) ==
  \/ /\ holder = Nobody
     /\ Effect(c)
     /\ UNCHANGED <<holder, waiters, call>>
  \/ /\ holder # Nobody
     /\ waiters' = waiters \union {t}
     /\ call' = [call EXCEPT ![t] = c]
     /\ UNCHANGED <<blockUsage, holder, live>>

\* A request for no page or for too many is refused before the mutex.
allocateMemory(t, bytes) ==
  /\ call[t] = Idle
  /\ pagesToAllocate(bytes) \in 1 .. PageQuantity
  /\ Guarded(t, [op |-> "allocate", bytes |-> bytes])

\* Whether the address is allocated is asked before the mutex is taken.
freeMemory(t, page) ==
  /\ call[t] = Idle
  /\ isAllocatedPage(blockUsage, page)
  /\ Guarded(t, [op |-> "free", page |-> page])

\* A thread that waited runs again: it has the mutex.
Resume(t) ==
  /\ holder = t /\ call[t] # Idle
  /\ Effect(call[t])
  /\ call' = [call EXCEPT ![t] = Idle]
  /\ GiveUp

OthersTake ==
  /\ holder = Nobody /\ holder' = Others
  /\ UNCHANGED <<blockUsage, waiters, call, live>>

OthersGive ==
  /\ holder = Others /\ GiveUp
  /\ UNCHANGED <<blockUsage, call, live>>

Next ==
  \/ \E t \in Threads :
       \/ \E bytes \in Requests : allocateMemory(t, bytes)
       \/ \E page \in Pages : freeMemory(t, page)
       \/ Resume(t)
  \/ OthersTake
  \/ OthersGive

Spec == Init /\ [][Next]_vars

--------------------------------------------------------------------------------
(* Properties *)

\* The marks, the mutex and the blocks granted keep their ranges; a block
\* begins inside the heap.
TypeOK ==
  /\ blockUsage \in [Nodes -> Marks]
  /\ holder \in Threads \union {Others, Nobody} /\ waiters \subseteq Threads
  /\ call \in [Threads -> Calls]
  /\ live \subseteq [page : Pages, size : 1 .. PageQuantity, bytes : Requests]

PagesOf(b)     == b.page .. b.page + b.size - 1
PagesUnder(n)  == memoryBase[n] .. memoryBase[n] + sizeOf(n) - 1
UsedPages      == UNION {PagesOf(b) : b \in live}

\* The numbers of pages that log2 rounds up: odd ones and powers of two.  An
\* even number that is no power of two is rounded down, and its caller gets a
\* block too small for what it asked for.
RoundedUp(pages) == pages % 2 = 1 \/ pages = 2 ^ floorLog2(pages)

\* No two callers are given the same page and none a page outside the heap,
\* and the block given has room for the bytes asked for, if log2 rounds up
\* their number of pages (buddyMemoryAllocator.c:73-130, 208-223).
NoOverlap ==
  /\ \A b \in live :
       /\ PagesOf(b) \subseteq Pages
       /\ LET needed == (b.bytes + PageSize - 1) \div PageSize
          IN RoundedUp(needed) => needed <= b.size
  /\ \A b, c \in live : b # c => PagesOf(b) \intersect PagesOf(c) = {}

\* A node marked fully used has no block free below it, and below a node
\* marked unused nothing is in use, unless it lies inside an allocated block
\* (the marks getPagesRecursive and freeMemoryRecursive leave).
MarksTrue ==
  \A n \in Nodes :
    /\ blockUsage[n] = "FULLY_USED" =>
         \A p \in PagesUnder(n) : \E j \in DOMAIN Path(Leaf(p)) :
           blockUsage[Path(Leaf(p))[j]] = "ALLOCATED"
    /\ blockUsage[n] = "ALLOCATED" =>
         \E b \in live : PagesOf(b) = PagesUnder(n)
    /\ blockUsage[n] = "UNUSED" =>
         \/ \E j \in DOMAIN Path(n) : blockUsage[Path(n)[j]] = "ALLOCATED"
         \/ PagesUnder(n) \intersect UsedPages = {}

\* Freed halves are joined: a block none of whose pages lies in an allocated
\* block can be allocated whole.
Coalesced ==
  \A n \in Nodes :
    (\A p \in PagesUnder(n) : \A j \in DOMAIN Path(Leaf(p)) :
       blockUsage[Path(Leaf(p))[j]] # "ALLOCATED")
    => n \in Candidates(blockUsage, floorLog2(n))
================================================================================
