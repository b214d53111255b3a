-------------------------------- MODULE Heap --------------------------------
(***************************************************************************)
(* The allocator of libc/malloc.c: free blocks in segregated bins found    *)
(* through two levels of bitmaps, boundary tags, immediate coalescing,     *)
(* regions that end in sentinels and, on native Linux, regions and large   *)
(* blocks mapped on demand.  Sizes and addresses count units of            *)
(* DAVE_HEAP_ALIGNMENT (16 bytes); a header takes one unit.  The doubly    *)
(* linked list of a bin is a sequence, its head first.                     *)
(***************************************************************************)
EXTENDS Integers, FiniteSets, Sequences, FiniteSetsExt, SequencesExt

CONSTANTS
    SLBits,     \* DAVE_HEAP_SL_BITS
    MaxUnits,   \* the largest size a size_t can hold
    Memory,     \* bound: units of address space mmap has to give
    Builds,     \* configurations of the library: records of Build
    Requests,   \* sizes asked for
    Aligns,     \* alignments passed to aligned_alloc; 1 is malloc
    MaxLive     \* bound: pointers the client holds

MinBlockOne == 1    \* Seeded fault: no room for the links of a free block.
MinBlock == 2       \* DAVE_MIN_BLOCK_SIZE
Overhead == 3       \* region header and two sentinels
Build == [configured : Nat,     \* size of a region: __initial_heap_size or the default
          page       : Nat,     \* regions and large blocks are multiples of this
          direct     : Nat,     \* DAVE_HEAP_LARGE_THRESHOLD; above MaxUnits: no direct blocks
          expands    : BOOLEAN] \* FALSE: one static region, ExpandHeap always fails

ASSUME HeapConstants ==
    /\ SLBits \in Nat /\ MaxUnits \in Nat /\ Memory \in 1 .. MaxUnits
    /\ Builds \subseteq Build /\ Requests \subseteq Nat /\ Aligns \subseteq Nat \ {0} /\ MaxLive \in Nat

VARIABLES
    build,      \* the configuration, chosen once
    heap,       \* the allocator's state
    live,       \* the client's pointers: what each was asked for and where it came from
    req         \* the request AllocateGeneral is looping for, or NoReq

vars == <<build, heap, live, req>>

Addr == 0 .. Memory - 1
NoReq == [op |-> "none"]
NoBin == <<>>

RoundUp(n, a) == ((n + a - 1) \div a) * a
FloorLog2(n) == CHOOSE k \in 0 .. n : 2 ^ k <= n /\ n < 2 ^ (k + 1)
FL == 0 .. FloorLog2(2 * MaxUnits)
SL == 0 .. 2 ^ SLBits - 1

Init ==
    /\ build \in Builds
    /\ heap = [initialized |-> FALSE, regions |-> <<>>, block |-> <<>>,
               bins |-> [b \in FL \X SL |-> <<>>], first |-> {}, second |-> [f \in FL |-> {}],
               allocated |-> 0, mapped |-> 0]
    /\ live = <<>>
    /\ req = NoReq

-----------------------------------------------------------------------------
\* Bins.

Step(n) == 2 ^ (IF FloorLog2(n) >= SLBits THEN FloorLog2(n) - SLBits ELSE 0)
MapBlockSize(n) ==
    LET f == FloorLog2(n)
    IN  <<f, Min({(n - 2 ^ f) \div Step(n), 2 ^ SLBits - 1})>>

\* Seeded fault: a size at the foot of a bin is searched for in the next.
SearchTooHigh(n) == MapBlockSize(RoundUp(n + 1, Step(n)))

\* Rounded up, so that every block of the bin found is large enough.
MapSearchSize(n) == MapBlockSize(RoundUp(n, Step(n)))

InsertFreeBlock(h, b) ==
    LET m == MapBlockSize(h.block[b].size)
    IN  [h EXCEPT !.bins[m] = <<b>> \o @, !.first = @ \cup {m[1]}, !.second[m[1]] = @ \cup {m[2]}]

\* Seeded fault: the bitmaps keep the bit of a bin that became empty.
RemoveKeepsBits(h, b) ==
    [h EXCEPT !.bins[MapBlockSize(h.block[b].size)] = Remove(@, b)]

RemoveFreeBlock(h, b) ==
    LET m    == MapBlockSize(h.block[b].size)
        bin  == Remove(h.bins[m], b)
        left == IF bin = <<>> THEN h.second[m[1]] \ {m[2]} ELSE h.second[m[1]]
    IN  [h EXCEPT !.bins[m] = bin, !.second[m[1]] = left,
                  !.first = IF left = {} THEN @ \ {m[1]} ELSE @]

FindFreeBlock(h, n) ==
    LET m     == MapSearchSize(n)
        here  == {s \in h.second[m[1]] : s >= m[2]}
        above == {f \in h.first : f > m[1]}
    IN  IF here # {} THEN <<m[1], Min(here)>>
        ELSE IF above # {} THEN <<Min(above), Min(h.second[Min(above)])>>
        ELSE NoBin

-----------------------------------------------------------------------------
\* Blocks.  The header at an address that is no block's start is gone.

NextBlock(h, b) == b + h.block[b].size
Put(h, b, n, prev, kind) ==
    [h EXCEPT !.block = (b :> [size |-> n, prev |-> prev, kind |-> kind]) @@ @]
Drop(h, b) == [h EXCEPT !.block = Restrict(@, DOMAIN @ \ {b})]

\* Seeded fault, then the boundary tag: previous_size of the block after b.
NoTag(h, b) == h
Tag(h, b) == [h EXCEPT !.block[NextBlock(h, b)].prev = h.block[b].size]

MergePrevious(h, b) ==
    LET p == b - h.block[b].prev
    IN  IF h.block[p].kind # "free" THEN [h |-> h, b |-> b]
        ELSE LET r == RemoveFreeBlock(h, p)
             IN  [h |-> Drop(Put(r, p, r.block[p].size + r.block[b].size, r.block[p].prev, "free"), b),
                  b |-> p]

\* Seeded fault: only the block before is looked at.
MergeNothing(h, b) == h

MergeNext(h, b) ==
    LET n == NextBlock(h, b)
    IN  IF h.block[n].kind # "free" THEN h
        ELSE LET r == RemoveFreeBlock(h, n)
             IN  Drop(Put(r, b, r.block[b].size + r.block[n].size, r.block[b].prev, "free"), n)

\* Mark free, CoalesceFreeBlock, InsertFreeBlock.
Release(h, b) ==
    LET m == MergePrevious(Put(h, b, h.block[b].size, h.block[b].prev, "free"), b)
        c == MergeNext(m.h, m.b)
    IN  InsertFreeBlock(Tag(c, m.b), m.b)

\* Cut the used block b down to n units when what is over makes a block.
Split(h, b, n) ==
    LET rest == h.block[b].size - n
    IN  IF rest < MinBlock THEN [h |-> h, rest |-> 0]
        ELSE [h |-> Tag(Put(Put(h, b, n, h.block[b].prev, "used"), b + n, rest, n, "used"), b + n),
              rest |-> rest]

\* The remainder's neighbour cannot be free: the block was.
AllocateFromFreeBlock(h, bin, n) ==
    LET b == Head(h.bins[bin])
        u == RemoveFreeBlock(h, b)
        t == Tag(Put(u, b, u.block[b].size, u.block[b].prev, "used"), b)
        s == Split(t, b, n)
        r == IF s.rest = 0 THEN s.h
             ELSE InsertFreeBlock(Put(s.h, b + n, s.rest, n, "free"), b + n)
    IN  [r EXCEPT !.allocated = @ + r.block[b].size]

SplitAllocatedBlock(h, b, n) ==
    LET s == Split(h, b, n)
    IN  IF s.rest = 0 THEN h
        ELSE [Release(s.h, b + n) EXCEPT !.allocated = @ - s.rest]

-----------------------------------------------------------------------------
\* Regions and requests.

\* The lowest n units nothing is mapped at; {} when mmap fails.
Taken(h) == UNION {r.at .. r.at + r.size - 1 : r \in ToSet(h.regions)}
            \cup UNION {b .. NextBlock(h, b) - 1 : b \in {d \in DOMAIN h.block : h.block[d].kind = "direct"}}
Room(h, n) == {a \in {p \in Addr : p % build.page = 0} :
                 a + n <= Memory /\ a .. a + n - 1 \cap Taken(h) = {}}

RegisterRegion(h, a, n) ==
    LET start == a + 1
        body  == n - Overhead
        r1    == Put(Put(Put(h, start, 1, 0, "sentinel"), start + 1, body, 1, "free"),
                     start + 1 + body, 1, body, "sentinel")
    IN  [InsertFreeBlock(r1, start + 1) EXCEPT
           !.regions = <<[at |-> a, size |-> n]>> \o @, !.mapped = @ + n]

\* Seeded fault: no more than the request.
RegionSizeBare(n) == RoundUp(n + Overhead, build.page)
RegionSizeForRequest(n) == RoundUp(Max({build.configured, n + Overhead}), build.page)

\* InitializeHeap: the flag is set whether or not the first region comes.
Initialized(h) ==
    IF h.initialized THEN h
    ELSE LET i == [h EXCEPT !.initialized = TRUE]
             n == RegionSizeForRequest(MinBlock)
         IN  IF Room(i, n) = {} THEN i ELSE RegisterRegion(i, Min(Room(i, n)), n)

\* Seeded fault: the size wraps round.
RequestWraps(n) == Max({MinBlock, (n + 1) % (MaxUnits + 1)})

\* RequestBlockSize; 0 when header and rounding overflow a size_t.
RequestBlockSize(n) == IF n + 1 > MaxUnits THEN 0 ELSE Max({MinBlock, n + 1})

\* BlockUserPointer; aligned_alloc moves past two words that lead back to it.
User(b, align) == IF align = 1 THEN b + 1 ELSE RoundUp(b + 2, align)

\* aligned_alloc asks malloc for room to move in.
Padded(n, align) == IF align = 1 THEN n ELSE n + align + 1

\* A request begins: Malloc, aligned_alloc (copies is then {}) or the copying
\* end of Realloc (copies is then the pointer to move).
Begin(n, align, copies) ==
    LET h == Initialized(heap)
        size == RequestBlockSize(Padded(n, align))
    IN  /\ req = NoReq
        /\ heap' = h
        /\ req' = IF size = 0 \/ (~ heap.initialized /\ h.regions = <<>>) THEN NoReq
                  ELSE [op |-> "get", n |-> n, size |-> size, align |-> align, copies |-> copies,
                        direct |-> n + (IF align = 1 THEN 0 ELSE align) >= build.direct, grew |-> 0]

Malloc(n, align) ==
    /\ Cardinality(DOMAIN live) < MaxLive
    /\ Begin(n, align, {})
    /\ UNCHANGED <<build, live>>

\* Seeded fault: a large block leaves the statistics as they were.
FreeDirectUncounted(h, b) ==
    IF h.block[b].kind = "direct" THEN Drop([h EXCEPT !.mapped = @ - h.block[b].size], b)
    ELSE Release([h EXCEPT !.allocated = @ - h.block[b].size], b)

\* Free: a large block is unmapped, any other is coalesced and binned.
FreeBlock(h, b) ==
    LET n == h.block[b].size
        u == [h EXCEPT !.allocated = @ - n]
    IN  IF h.block[b].kind = "direct" THEN Drop([u EXCEPT !.mapped = @ - n], b)
        ELSE Release(u, b)

\* The block is the client's; Realloc's copy releases the old one.
Hand(h, b) ==
    LET user == User(b, req.align)
        keep == [p \in (DOMAIN live \ req.copies) \cup {user} |->
                   IF p = user THEN [block |-> b, n |-> req.n] ELSE live[p]]
    IN  /\ live' = keep
        /\ heap' = IF req.copies = {} THEN h
                   ELSE FreeBlock(h, live[CHOOSE p \in req.copies : TRUE].block)
        /\ req' = NoReq
        /\ UNCHANGED build

Fail == req' = NoReq /\ UNCHANGED <<build, heap, live>>

DirectMapBlock ==
    LET n == RoundUp(req.size, build.page)
        b == Min(Room(heap, n))
    IN  /\ req.op = "get" /\ req.direct
        /\ IF Room(heap, n) = {} THEN Fail
           ELSE Hand([Put(heap, b, n, 0, "direct") EXCEPT
                        !.mapped = @ + n, !.allocated = @ + n], b)

\* One turn of AllocateGeneral's loop.
Take ==
    LET bin == FindFreeBlock(heap, req.size)
    IN  /\ req.op = "get" /\ ~ req.direct /\ bin # NoBin
        /\ Hand(AllocateFromFreeBlock(heap, bin, req.size), Head(heap.bins[bin]))

ExpandHeap ==
    LET n == RegionSizeForRequest(req.size)
    IN  /\ req.op = "get" /\ ~ req.direct /\ FindFreeBlock(heap, req.size) = NoBin
        /\ IF build.expands /\ Room(heap, n) # {}
           THEN /\ heap' = RegisterRegion(heap, Min(Room(heap, n)), n)
                /\ req' = [req EXCEPT !.grew = @ + 1]
                /\ UNCHANGED <<build, live>>
           ELSE Fail

AllocateGeneral == DirectMapBlock \/ Take \/ ExpandHeap

Free(p) ==
    /\ req = NoReq
    /\ heap' = FreeBlock(heap, live[p].block)
    /\ live' = Restrict(live, DOMAIN live \ {p})
    /\ UNCHANGED <<build, req>>

Resize(p, n, h) ==
    /\ heap' = h
    /\ live' = [live EXCEPT ![p].n = n]
    /\ UNCHANGED <<build, req>>

\* Grow into the free block behind, then give back what is too much.
Grown(b, size) ==
    LET next == NextBlock(heap, b)
        r    == RemoveFreeBlock(heap, next)
        both == heap.block[b].size + heap.block[next].size
        g    == Tag(Drop(Put(r, b, both, heap.block[b].prev, "used"), next), b)
    IN  SplitAllocatedBlock([g EXCEPT !.allocated = @ + heap.block[next].size], b, size)

Realloc(p, n) ==
    LET b    == live[p].block
        old  == heap.block[b]
        next == heap.block[NextBlock(heap, b)]
        size == RequestBlockSize(n)
        plain == p = b + 1 /\ old.kind # "direct"
    IN  /\ req = NoReq /\ n > 0 /\ size # 0
        /\ CASE plain /\ size <= old.size -> Resize(p, n, SplitAllocatedBlock(heap, b, size))
             [] plain /\ size > old.size /\ next.kind = "free" /\ old.size + next.size >= size
                -> Resize(p, n, Grown(b, size))
             [] p = b + 1 /\ old.kind = "direct" /\ n >= build.direct /\ size <= old.size
                -> Resize(p, n, heap)
             [] OTHER -> Begin(n, 1, {p}) /\ UNCHANGED <<build, live>>

Next ==
    \/ \E n \in Requests, a \in Aligns : Malloc(n, a)
    \/ \E p \in DOMAIN live : Free(p)
    \/ \E p \in DOMAIN live, n \in Requests : Realloc(p, n)
    \/ AllocateGeneral

Spec == Init /\ [][Next]_vars

-----------------------------------------------------------------------------
\* Properties.

Blocks == DOMAIN heap.block
Kind(k) == {b \in Blocks : heap.block[b].kind = k}

\* Shapes, and a free block always has room for its two links (Split).
TypeOK ==
    /\ build \in Builds
    /\ Blocks \subseteq Addr
    /\ \A b \in Blocks :
         /\ heap.block[b].kind \in {"used", "free", "direct", "sentinel"}
         /\ heap.block[b].size \in (IF b \in Kind("sentinel") THEN {1} ELSE 2 .. Memory)
    /\ heap.first \subseteq FL /\ \A f \in FL : heap.second[f] \subseteq SL
    /\ heap.allocated \in 0 .. Memory /\ heap.mapped \in 0 .. Memory

\* Every pointer the client holds has a block of its own, large enough for
\* what was asked for even when the size wraps, is moved up for its alignment,
\* or was resized in place; and no block is lost (Malloc, Realloc, Free).
ClientsDisjoint ==
    /\ \A p \in DOMAIN live :
         LET b == live[p].block
         IN  /\ b \in Kind("used") \cup Kind("direct")
             /\ b < p /\ p + live[p].n <= NextBlock(heap, b)
             /\ \A q \in DOMAIN live \ {p} : live[q].block # b
    /\ {live[p].block : p \in DOMAIN live} = Kind("used") \cup Kind("direct")

\* What __davecc_heap_check walks: blocks tile each region from sentinel to
\* sentinel and each one's previous_size is the size of the block before it.
TagsTile ==
    \A i \in DOMAIN heap.regions :
        LET r    == heap.regions[i]
            mine == Blocks \cap (r.at .. r.at + r.size - 1)
        IN  /\ r.at + 1 \in mine /\ heap.block[r.at + 1].prev = 0
            /\ \A b \in mine : NextBlock(heap, b) = r.at + r.size
                             \/ /\ NextBlock(heap, b) \in mine
                                /\ heap.block[NextBlock(heap, b)].prev = heap.block[b].size

\* The bins hold exactly the free blocks, each once and in the bin of its
\* size, and the two bitmaps say which bins are not empty.
BinsExact ==
    /\ \A b \in Kind("free") : b \in ToSet(heap.bins[MapBlockSize(heap.block[b].size)])
    /\ \A m \in DOMAIN heap.bins :
         /\ m[2] \in heap.second[m[1]] <=> heap.bins[m] # <<>>
         /\ \A i \in DOMAIN heap.bins[m] :
              /\ heap.block[heap.bins[m][i]].kind = "free"
              /\ \A j \in 1 .. i - 1 : heap.bins[m][i] # heap.bins[m][j]
    /\ heap.first = {f \in DOMAIN heap.second : heap.second[f] # {}}

\* Two free blocks never lie side by side: memory does not stay in pieces
\* (malloc_test/main.c:34, "All free, should have a single block").
Coalesced ==
    \A b \in Kind("free") : NextBlock(heap, b) \notin Kind("free")

SizesOf(S) == MapThenSumSet(LAMBDA b : heap.block[b].size, S)

\* The statistics agree with the blocks after any mixture of splits, growth
\* in place, copies and mappings.
StatsExact ==
    /\ heap.allocated = SizesOf(Kind("used") \cup Kind("direct"))
    /\ heap.mapped = SizesOf(Kind("direct"))
                     + MapThenSumSet(LAMBDA i : heap.regions[i].size, DOMAIN heap.regions)

\* AllocateGeneral's loop turns at most once: the region ExpandHeap maps for
\* a request holds a block its search finds.
OneRegionPerRequest == req.op = "get" => req.grew <= 1

\* A request gets NULL only when no bin it may take from has a block and, in
\* the builds that map memory, there is none left to map.
NullWhenFull ==
    req.op = "get" /\ req' = NoReq /\ live' = live =>
        IF req.direct THEN Room(heap, RoundUp(req.size, build.page)) = {}
        ELSE /\ \A b \in Kind("free") :
                  heap.block[b].size < RoundUp(req.size, Step(req.size))
             /\ build.expands => Room(heap, RegionSizeForRequest(req.size)) = {}
NullOnlyWhenFull == [][NullWhenFull]_vars

\* The two-level heap after any mixture of requests: what clients hold, the
\* tags, the bins and their bitmaps, the statistics (malloc.c).
HeapSound ==
    /\ TypeOK /\ ClientsDisjoint /\ TagsTile /\ BinsExact /\ Coalesced
    /\ StatsExact /\ OneRegionPerRequest
=============================================================================
