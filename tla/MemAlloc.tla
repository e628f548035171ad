------------------------------ MODULE MemAlloc ------------------------------
(***************************************************************************)
(* The memory allocator of "Memory Allocator C": heap_init, _malloc, _free *)
(* and heap_term of src/mem.c, on the level of block headers and mapped    *)
(* addresses.  The allocator is sequential, so a step is either a call     *)
(* together with the straight-line code behind it, or one turn of one of   *)
(* the loops: the search of find_good_or_last, the merging of _free, the   *)
(* scan of heap_term.                                                      *)
(*                                                                         *)
(* mmap and munmap are the environment: they are modelled by what mem.c    *)
(* relies on.  A client frees only pointers it holds and uses nothing      *)
(* after heap_term.  It calls heap_init first, or, as the last test of     *)
(* main.c does, it never calls it and expects _malloc to find its way.     *)
(***************************************************************************)
EXTENDS Integers

CONSTANTS
  HDR,        \* offsetof(struct block_header, contents): 17 in the program
  MINCAP,     \* BLOCK_MIN_CAPACITY: 24
  PAGE,       \* getpagesize()
  REGIONMIN,  \* REGION_MIN_SIZE: 2 * 4096
  HEAPSTART,  \* HEAP_START: 0x04040000
  LIMIT,      \* bound: the first address past the address space
  WORD,       \* size_t counts modulo WORD
  FOREIGN,    \* addresses the rest of the process has mapped from the start
  Initials,   \* arguments of heap_init
  Queries,    \* arguments of _malloc
  MAXEPOCH    \* bound: number of lives of the heap

NULL == 0

ASSUME LayoutAssumption ==
  /\ HDR \in Nat \ {0} /\ MINCAP \in Nat \ {0} /\ PAGE \in Nat \ {0}
  /\ REGIONMIN \in Nat /\ REGIONMIN >= HDR + MINCAP
  /\ HEAPSTART \in Nat \ {0} /\ HEAPSTART % PAGE = 0
  /\ LIMIT \in Nat /\ WORD \in Nat
  /\ LIMIT + HDR + PAGE + MINCAP <= WORD /\ MINCAP + HDR + HDR + PAGE < WORD

ASSUME InputAssumption ==
  /\ FOREIGN \subseteq 1 .. (LIMIT - 1)
  /\ Initials \subseteq 0 .. (WORD - 1)
  /\ Queries \subseteq 0 .. (WORD - 1)
  /\ MAXEPOCH \in Nat

VARIABLES
  mapped,   \* the mapped addresses
  hdr,      \* the block headers in mapped memory, by address
  owned,    \* blocks whose contents a client holds |-> bytes it asked for
  pc,       \* where the allocator is
  cur,      \* the block a loop looks at (block, header, curr_header)
  last,     \* `last` of find_good_or_last
  req,      \* the bytes the client of the running _malloc asked for
  start,    \* `start` of unmap_from_pointer
  len,      \* `len_to_unmap` of unmap_from_pointer
  epoch,    \* lives of the heap so far
  listed,   \* auxiliary: the blocks reached from HEAP_START over next
  before    \* auxiliary: the addresses mapped when this life began

vars == <<mapped, hdr, owned, pc, cur, last, req, start, len, epoch,
          listed, before>>

-----------------------------------------------------------------------------
(* Sizes.  A sum of two words wraps at most once.                          *)

Wrap(n) == IF n < WORD THEN n ELSE n - WORD

SizeFromCapacity(cap) == Wrap(cap + HDR)

AtLeast(n, m) == IF n < m THEN m ELSE n

pages_count(mem) == mem \div PAGE + (IF mem % PAGE > 0 THEN 1 ELSE 0)

round_pages(mem) == Wrap(PAGE * pages_count(mem))

region_actual_size(query) == AtLeast(round_pages(query), REGIONMIN)

(* Slip: the minimum of a block is forgotten.                              *)
QueryUnpadded == req

(* _malloc never looks for less than BLOCK_MIN_CAPACITY.                   *)
Query == AtLeast(req, MINCAP)

-----------------------------------------------------------------------------
(* Blocks.  `reg` is auxiliary: it numbers the regions along the list, and *)
(* <<reg, address>> grows from each listed block to the next.              *)

Header == [next : Nat, cap : Nat, free : BOOLEAN, reg : Nat]

block_after(h, a) == a + HDR + h[a].cap

Bytes(h, a) == a .. (block_after(h, a) - 1)

blocks_continuous(h, a, b) == b = block_after(h, a)

(* Slip: the next block may be taken.                                      *)
MergesTaken(h, a, b) == h[a].free /\ blocks_continuous(h, a, b)

mergeable(h, a, b) == h[a].free /\ h[b].free /\ blocks_continuous(h, a, b)

CanMerge(h, a) == h[a].next # NULL /\ mergeable(h, a, h[a].next)

(* block_init of a merged block: the header behind it is gone.             *)
MergedInto(h, a, cap, next) ==
  [x \in DOMAIN h \ {h[a].next} |->
    IF x = a THEN [next |-> next, cap |-> cap, free |-> TRUE, reg |-> h[a].reg]
             ELSE h[x]]

(* Slips: a size is stored as a capacity, capacities are added instead of  *)
(* sizes.                                                                  *)

MergedAsSize(h, a) ==
  MergedInto(h, a, h[a].cap + HDR + h[h[a].next].cap + HDR, h[h[a].next].next)

MergedByCapacity(h, a) ==
  MergedInto(h, a, h[a].cap + h[h[a].next].cap, h[h[a].next].next)

(* try_merge_with_next when it returns true: the sizes are added.          *)
Merged(h, a) ==
  MergedInto(h, a, h[a].cap + HDR + h[h[a].next].cap, h[h[a].next].next)

(* Slip: no room is left for the header of the remainder.                  *)
SplitsWithoutHeader(h, a, query) == h[a].free /\ query <= h[a].cap

block_splittable(h, a, query) ==
  h[a].free /\ Wrap(SizeFromCapacity(query) + MINCAP) <= h[a].cap

(* try_memalloc_existing on the good block a: split_if_too_big, then take. *)
Taken(h, a, query) ==
  LET b == a + HDR + query
  IN  IF block_splittable(h, a, query)
      THEN [x \in DOMAIN h \cup {b} |->
             CASE x = a -> [next |-> b, cap |-> query,
                            free |-> FALSE, reg |-> h[a].reg]
               [] x = b -> [next |-> h[a].next,
                            cap  |-> h[a].cap - query - HDR,
                            free |-> TRUE, reg |-> h[a].reg]
               [] OTHER -> h[x]]
      ELSE [h EXCEPT ![a].free = FALSE]

(* block_init of a whole region: one free block that ends the list.        *)
Fresh(size, r) == [next |-> NULL, cap |-> size - HDR, free |-> TRUE, reg |-> r]

(* Slip: the region is not linked.                                         *)
LinkForgotten(h, a, region) ==
  [x \in DOMAIN h \cup {region.addr} |->
     IF x = region.addr THEN Fresh(region.size, h[a].reg + 1) ELSE h[x]]

(* The region behind `last`: last->next is overwritten.                    *)
Linked(h, a, region) ==
  [x \in DOMAIN h \cup {region.addr} |->
     CASE x = a           -> [h[a] EXCEPT !.next = region.addr]
       [] x = region.addr -> Fresh(region.size, h[a].reg + 1)
       [] OTHER           -> h[x]]

(* The order of the list, and the members of a list up to a.               *)
Precedes(h, a, b) == \/ h[a].reg < h[b].reg
                     \/ h[a].reg = h[b].reg /\ a < b

UpTo(h, L, a) == {x \in L : x = a \/ Precedes(h, x, a)}

-----------------------------------------------------------------------------
(* The environment: mmap.  MAP_FIXED_NOREPLACE gives exactly the range     *)
(* asked for and only if it is page aligned and free.  A mere hint gives   *)
(* any free range of the mmap area, which lies above HEAP_START.  Both can *)
(* run out of memory, and then the second call does too.                   *)

Extent(a, n) == a .. (a + n - 1)

Mappable(a, n) == /\ a % PAGE = 0
                  /\ a > 0 /\ a + n <= LIMIT
                  /\ Extent(a, n) \cap mapped = {}

alloc_region(at, query) ==
  LET n == region_actual_size(Wrap(query + HDR))
  IN  IF Mappable(at, n)
      THEN {[addr |-> at, size |-> n, extends |-> TRUE]}
      ELSE {[addr |-> a, size |-> n, extends |-> FALSE] :
              a \in {x \in HEAPSTART .. LIMIT : Mappable(x, n)}}

-----------------------------------------------------------------------------
Init ==
  /\ mapped = FOREIGN
  /\ hdr = [x \in {} |-> 0]
  /\ owned = [x \in {} |-> 0]
  /\ pc = "off"
  /\ cur = NULL /\ last = NULL /\ req = 0
  /\ start = NULL /\ len = 0 /\ epoch = 0
  /\ listed = {} /\ before = FOREIGN

(* A call returns, and its local variables are gone.                       *)
Return == pc' = "idle" /\ cur' = NULL /\ last' = NULL /\ req' = 0

(* heap_init that returns an address.                                      *)
HeapInit(initial) ==
  /\ pc = "off" /\ epoch < MAXEPOCH
  /\ \E region \in alloc_region(HEAPSTART, initial) :
       /\ mapped' = mapped \cup Extent(region.addr, region.size)
       /\ hdr' = [x \in {region.addr} |-> Fresh(region.size, 0)]
       /\ listed' = {region.addr} \cap {HEAPSTART}
  /\ pc' = "idle"
  /\ epoch' = epoch + 1
  /\ before' = mapped
  /\ UNCHANGED <<owned, cur, last, req, start, len>>

(* heap_init that returns NULL: the client does without a heap.            *)
HeapInitFails ==
  /\ pc = "off" /\ epoch < MAXEPOCH
  /\ epoch' = epoch + 1
  /\ UNCHANGED <<mapped, hdr, owned, pc, cur, last, req, start, len, listed,
                 before>>

(* The client does not call heap_init at all (main.c:131-143).             *)
NoHeapInit ==
  /\ pc = "off" /\ epoch < MAXEPOCH
  /\ pc' = "idle"
  /\ epoch' = epoch + 1
  /\ before' = mapped
  /\ UNCHANGED <<mapped, hdr, owned, cur, last, req, start, len, listed>>

(* _malloc searches from HEAP_START, wherever heap_init put the heap.      *)
Malloc(query) ==
  /\ pc = "idle"
  /\ req' = query
  /\ cur' = HEAPSTART /\ last' = HEAPSTART
  /\ pc' = "find"
  /\ UNCHANGED <<mapped, hdr, owned, start, len, epoch, listed, before>>

Searching == pc \in {"find", "refind"} /\ cur \in DOMAIN hdr

(* Slip: `continue` without a step to the next block.                      *)
FindTakenStuck == Searching /\ ~hdr[cur].free /\ UNCHANGED vars

(* A taken block is passed over, and `last` stays behind.                  *)
FindTaken ==
  /\ Searching /\ ~hdr[cur].free
  /\ cur' = hdr[cur].next
  /\ UNCHANGED <<mapped, hdr, owned, pc, last, req, start, len, epoch,
                 listed, before>>

(* A free block first absorbs the free blocks that follow it.              *)
FindMerge ==
  /\ Searching /\ hdr[cur].free /\ CanMerge(hdr, cur)
  /\ hdr' = Merged(hdr, cur)
  /\ listed' = listed \ {hdr[cur].next}
  /\ UNCHANGED <<mapped, owned, pc, cur, last, req, start, len, epoch, before>>

(* Slip: a block of just the right size is passed over.                    *)
FindTooSmallOrEqual ==
  /\ Searching /\ hdr[cur].free /\ ~CanMerge(hdr, cur)
  /\ hdr[cur].cap <= Query
  /\ last' = cur
  /\ cur' = hdr[cur].next
  /\ UNCHANGED <<mapped, hdr, owned, pc, req, start, len, epoch, listed, before>>

FindTooSmall ==
  /\ Searching /\ hdr[cur].free /\ ~CanMerge(hdr, cur)
  /\ hdr[cur].cap < Query
  /\ last' = cur
  /\ cur' = hdr[cur].next
  /\ UNCHANGED <<mapped, hdr, owned, pc, req, start, len, epoch, listed, before>>

(* The good block is split and taken, and _malloc returns its contents.    *)
FindGood ==
  /\ Searching /\ hdr[cur].free /\ ~CanMerge(hdr, cur)
  /\ hdr[cur].cap >= Query
  /\ hdr' = Taken(hdr, cur, Query)
  /\ listed' = listed \cup (DOMAIN hdr' \ DOMAIN hdr)
  /\ owned' = [x \in DOMAIN owned \cup {cur} |->
                 IF x = cur THEN req ELSE owned[x]]
  /\ Return
  /\ UNCHANGED <<mapped, start, len, epoch, before>>

FindEnd ==
  /\ pc = "find" /\ cur = NULL
  /\ pc' = "grow"
  /\ UNCHANGED <<mapped, hdr, owned, cur, last, req, start, len, epoch,
                 listed, before>>

(* grow_heap: the new region is linked behind `last`, whatever `last` was  *)
(* linked to before; a region that extends a free `last` is merged into it *)
(* at once.  The search then starts over.                                  *)
Grow ==
  /\ pc = "grow"
  /\ \E region \in alloc_region(block_after(hdr, last),
                                SizeFromCapacity(Query)) :
       LET linked == Linked(hdr, last, region)
       IN  /\ mapped' = mapped \cup Extent(region.addr, region.size)
           /\ IF region.extends /\ CanMerge(linked, last)
              THEN /\ hdr' = Merged(linked, last)
                   /\ listed' = UpTo(hdr, listed, last)
              ELSE /\ hdr' = linked
                   /\ listed' = UpTo(hdr, listed, last) \cup {region.addr}
  /\ cur' = HEAPSTART /\ last' = HEAPSTART
  /\ pc' = "refind"
  /\ UNCHANGED <<owned, req, start, len, epoch, before>>

(* grow_heap fails: _malloc returns NULL.                                  *)
GrowFails ==
  /\ pc = "grow"
  /\ Return
  /\ UNCHANGED <<mapped, hdr, owned, start, len, epoch, listed, before>>

(* The second search finds nothing: memalloc returns the block of the      *)
(* result all the same, and that is `last`.                                *)
RefindEnd ==
  /\ pc = "refind" /\ cur = NULL
  /\ owned' = [x \in DOMAIN owned \cup {last} |->
                 IF x = last THEN req ELSE owned[x]]
  /\ Return
  /\ UNCHANGED <<mapped, hdr, start, len, epoch, listed, before>>

(* _free of a pointer the client holds.  A block that has been swallowed   *)
(* while it was held (only GrowSuffices keeps that from happening) is not  *)
(* followed any further.                                                   *)
Free(a) ==
  /\ pc = "idle" /\ a \in DOMAIN owned \cap DOMAIN hdr
  /\ hdr' = [hdr EXCEPT ![a].free = TRUE]
  /\ owned' = [x \in DOMAIN owned \ {a} |-> owned[x]]
  /\ cur' = a
  /\ pc' = "coalesce"
  /\ UNCHANGED <<mapped, last, req, start, len, epoch, listed, before>>

CoalesceMerge ==
  /\ pc = "coalesce" /\ CanMerge(hdr, cur)
  /\ hdr' = Merged(hdr, cur)
  /\ listed' = listed \ {hdr[cur].next}
  /\ UNCHANGED <<mapped, owned, pc, cur, last, req, start, len, epoch, before>>

CoalesceEnd ==
  /\ pc = "coalesce" /\ ~CanMerge(hdr, cur)
  /\ Return
  /\ UNCHANGED <<mapped, hdr, owned, start, len, epoch, listed, before>>

(* heap_term: from here on the client holds nothing.                       *)
HeapTerm ==
  /\ pc = "idle"
  /\ owned' = [x \in {} |-> 0]
  /\ cur' = HEAPSTART /\ start' = HEAPSTART /\ len' = 0
  /\ pc' = "term"
  /\ UNCHANGED <<mapped, hdr, last, req, epoch, listed, before>>

(* Slip: a run goes on to the end of the list.                             *)
RunGoesOnAlways == hdr[cur].next # NULL

RunGoesOn == hdr[cur].next # NULL /\ blocks_continuous(hdr, cur, hdr[cur].next)

(* unmap_from_pointer measures a run of adjacent blocks ...                *)
TermScan ==
  /\ pc = "term" /\ cur \in DOMAIN hdr /\ RunGoesOn
  /\ len' = len + HDR + hdr[cur].cap
  /\ cur' = hdr[cur].next
  /\ UNCHANGED <<mapped, hdr, owned, pc, last, req, start, epoch, listed, before>>

(* ... and unmaps it, in whole pages.  Past the last run the heap is gone: *)
(* the headers nobody can reach any more are dropped from the model, the   *)
(* pages they lie in are not.                                              *)
TermUnmap ==
  /\ pc = "term" /\ cur \in DOMAIN hdr /\ ~RunGoesOn
  /\ LET gone == Extent(start, round_pages(len + HDR + hdr[cur].cap))
         next == hdr[cur].next
         left == IF next = NULL THEN {} ELSE DOMAIN hdr \ gone
     IN  /\ mapped' = mapped \ gone
         /\ hdr' = [x \in left |-> hdr[x]]
         /\ listed' = listed \cap left
         /\ pc' = IF next = NULL THEN "off" ELSE "term"
         /\ cur' = next /\ start' = next /\ len' = 0
  /\ UNCHANGED <<owned, last, req, epoch, before>>

NoHeader == /\ pc \in {"find", "refind", "term"}
            /\ cur # NULL /\ cur \notin DOMAIN hdr

(* HEAP_START is somebody else's mapping: its zero bytes are read as the   *)
(* header of a taken block without contents that ends the list.            *)
ForeignHeader ==
  /\ NoHeader /\ cur \in mapped
  /\ hdr' = [x \in DOMAIN hdr \cup {cur} |->
               IF x = cur
               THEN [next |-> NULL, cap |-> 0, free |-> FALSE, reg |-> 0]
               ELSE hdr[x]]
  /\ listed' = {cur}
  /\ UNCHANGED <<mapped, owned, pc, cur, last, req, start, len, epoch, before>>

(* There is nothing at HEAP_START: the read faults.                        *)
Segv ==
  /\ NoHeader /\ cur \notin mapped
  /\ pc' = "segv"
  /\ UNCHANGED <<mapped, hdr, owned, cur, last, req, start, len, epoch,
                 listed, before>>

(* The steps the program takes by itself once it is called.                *)
Internal ==
  \/ FindTaken \/ FindMerge \/ FindTooSmall \/ FindGood \/ FindEnd
  \/ Grow \/ GrowFails \/ RefindEnd
  \/ CoalesceMerge \/ CoalesceEnd
  \/ TermScan \/ TermUnmap
  \/ ForeignHeader \/ Segv

(* The calls of the client.                                                *)
Call ==
  \/ \E n \in Initials : HeapInit(n)
  \/ HeapInitFails \/ NoHeapInit
  \/ \E q \in Queries : Malloc(q)
  \/ \E a \in DOMAIN owned : Free(a)
  \/ HeapTerm

Next == Call \/ Internal

Spec == Init /\ [][Next]_vars /\ WF_vars(Internal)

-----------------------------------------------------------------------------
(* Properties.                                                             *)

PCs == {"off", "idle", "find", "refind", "grow", "coalesce", "term", "segv"}

(* The variables have their types: a header holds a link, a capacity and a *)
(* flag, and the cursors of the loops of mem.c are addresses.              *)
TypeOK ==
  /\ mapped \subseteq 1 .. (LIMIT - 1)
  /\ DOMAIN hdr \subseteq Nat \ {NULL} /\ hdr \in [DOMAIN hdr -> Header]
  /\ DOMAIN owned \subseteq Nat /\ owned \in [DOMAIN owned -> Nat]
  /\ pc \in PCs
  /\ cur \in Nat /\ last \in Nat /\ req \in Nat
  /\ start \in Nat /\ len \in Nat /\ epoch \in 0 .. MAXEPOCH
  /\ listed \subseteq DOMAIN hdr /\ before \subseteq 1 .. (LIMIT - 1)

Disjoint(h) == \A a, b \in DOMAIN h : a < b => block_after(h, a) <= b

(* Splitting, merging and growing keep every block (header and contents)   *)
(* apart from every other one, listed or lost: block_init in mem.c:83-92,  *)
(* 122-126 and 53 never writes a header into another block.                *)
BlocksDisjoint == Disjoint(hdr)

(* Every block lies in memory that mmap gave to this heap and munmap has   *)
(* not taken back.                                                         *)
BlocksMapped == \A a \in DOMAIN hdr : Bytes(hdr, a) \subseteq mapped

(* Both together, in the middle of heap_term too (mem.c:220-240).          *)
HeapWhole == BlocksDisjoint /\ BlocksMapped

(* README.md:42: blocks fill the entire space of a region.  No byte of a   *)
(* region of the current heap falls between two blocks.                    *)
BlocksFillRegions ==
  pc \notin {"off", "term", "segv"} =>
    \A x \in mapped \ before : \E a \in DOMAIN hdr : x \in Bytes(hdr, a)

(* L is a chain from HEAP_START: `next` leads from each member to its      *)
(* immediate successor in one linear order, and from the last one to NULL. *)
Chain(h, L) ==
  L # {} =>
    /\ HEAPSTART \in L
    /\ \A a \in L \ {HEAPSTART} : Precedes(h, HEAPSTART, a)
    /\ \A a \in L :
         IF h[a].next = NULL
         THEN \A b \in L : ~Precedes(h, a, b)
         ELSE /\ h[a].next \in L
              /\ Precedes(h, a, h[a].next)
              /\ \A b \in L : ~(/\ Precedes(h, a, b)
                                /\ Precedes(h, b, h[a].next))

(* The blocks on the list of HEAP_START form one chain without a cycle, so *)
(* a search that starts at HEAP_START meets each of them once.             *)
ListIsChain == pc \notin {"off", "term", "segv"} => Chain(hdr, listed)

(* What a client holds is a block that is marked taken and can hold the    *)
(* bytes asked for (mem.c:188-206), whether or not the block is still on   *)
(* the list.                                                               *)
OwnedIsTaken ==
  \A a \in DOMAIN owned :
    a \in DOMAIN hdr /\ ~hdr[a].free /\ hdr[a].cap >= AtLeast(owned[a], MINCAP)

(* The heap grows only when it must (mem.c:197-202): no listed free block  *)
(* can hold the request, and no two adjacent free blocks are left that     *)
(* merged could.                                                           *)
GrowOnlyWhenNeeded ==
  pc = "grow" => \A a \in listed : hdr[a].free => hdr[a].cap < Query
                                                  /\ ~CanMerge(hdr, a)

(* After the heap has grown the second search finds a block: mem.c:205     *)
(* returns the block of its result without a look at the type.             *)
GrowSuffices == ~(pc = "refind" /\ cur = NULL)

(* The one page of somebody else that heap_term takes: heap_term begins at *)
(* HEAP_START without knowing whose page that is (mem.c:237), finds the    *)
(* header of an empty block there and unmaps the page.  main.c:134-141     *)
(* counts on it for the pages it has mapped itself.                        *)
ForeignPage == IF HEAPSTART \in before THEN Extent(HEAPSTART, PAGE) ELSE {}

(* munmap in whole pages (mem.c:231) takes only pages of this heap back,   *)
(* and that page: whatever else was mapped when this life of the heap      *)
(* began stays mapped, the rest of a foreign range at HEAP_START included. *)
OthersStayMapped == before \ mapped \subseteq ForeignPage

(* Every call returns: the searches, merges and the scan of heap_term go   *)
(* along the list to its end.                                              *)
CallsReturn == []<>(pc \in {"off", "idle", "segv"})

-----------------------------------------------------------------------------
(* The inductive invariant behind BlocksDisjoint, OwnedIsTaken,            *)
(* GrowSuffices and ListIsChain.                                           *)

(* No argument of heap_init or _malloc makes a size wrap around.           *)
Fits(q) == q + HDR + HDR + PAGE < WORD

ArgumentsFit == \A q \in Queries \cup Initials : Fits(q)

(* Nobody but the allocator maps HEAP_START.                               *)
HeapStartIsFree == HEAPSTART \notin FOREIGN

(* A region is made of whole pages: REGION_MIN_SIZE is, or a page is more. *)
RegionsAreWhole == REGIONMIN % PAGE = 0 \/ REGIONMIN <= PAGE

(* A heap of headers h, of which L are on the list, in memory M: no link   *)
(* dangles, no two links meet, and none crosses between the list and the   *)
(* blocks that were cut off it.                                            *)
Heap(h, L, M) ==
  /\ DOMAIN h \subseteq Nat \ {NULL} /\ h \in [DOMAIN h -> Header]
  /\ L \subseteq DOMAIN h
  /\ Disjoint(h)
  /\ \A a \in DOMAIN h : Bytes(h, a) \subseteq M
  /\ \A a \in DOMAIN h : h[a].next # NULL =>
       h[a].next \in DOMAIN h /\ (h[a].next \in L <=> a \in L)
  /\ \A a, b \in DOMAIN h : h[a].next = h[b].next => a = b \/ h[a].next = NULL
  /\ Chain(h, L)

Live == pc \in {"idle", "find", "refind", "grow", "coalesce"}

(* What is taken is owned, and HEAP_START is on the list if it is mapped.  *)
LiveHeap ==
  Live => /\ Heap(hdr, listed, mapped)
          /\ \A a \in DOMAIN hdr : hdr[a].free \/ a \in DOMAIN owned
          /\ HEAPSTART \in mapped => HEAPSTART \in listed

(* A search stands on the list or past its end; `last` is behind it.       *)
SearchOnList ==
  pc \in {"find", "refind"} =>
    /\ Fits(req)
    /\ listed = {} => cur = HEAPSTART /\ pc = "find"
    /\ listed # {} => /\ cur \in listed \cup {NULL}
                      /\ last \in listed
                      /\ cur # NULL => last = cur \/ Precedes(hdr, last, cur)

(* The second search has a good block ahead.                               *)
GoodAhead ==
  pc = "refind" =>
    /\ cur \in listed
    /\ \E t \in listed : /\ hdr[t].free /\ hdr[t].cap >= Query
                         /\ t = cur \/ Precedes(hdr, cur, t)

Cursors ==
  /\ SearchOnList /\ GoodAhead
  /\ pc = "grow" => Fits(req) /\ last \in listed
  /\ pc = "coalesce" => cur \in DOMAIN hdr /\ hdr[cur].free

(* While heap_term runs: the run from start to cur is len bytes long, and  *)
(* a link leads to a block or to memory that is unmapped already.          *)
TermRuns ==
  pc = "term" =>
    /\ DOMAIN owned = {}
    /\ start = HEAPSTART \/ HEAPSTART \notin mapped
    /\ cur # NULL
    /\ start + len = cur
    /\ start = cur \/ start \in DOMAIN hdr
    /\ cur \in DOMAIN hdr \/ cur \notin mapped
    /\ \A a \in DOMAIN hdr : \/ hdr[a].next = NULL
                             \/ hdr[a].next \in DOMAIN hdr
                             \/ hdr[a].next \notin mapped

HeapGone ==
  pc = "off" => DOMAIN hdr = {} /\ DOMAIN owned = {} /\ HEAPSTART \notin mapped

Inductive ==
  /\ TypeOK
  /\ BlocksDisjoint /\ BlocksMapped
  /\ OwnedIsTaken
  /\ LiveHeap /\ Cursors /\ TermRuns /\ HeapGone

(* The promise of the allocator.  A client holds the contents of its       *)
(* blocks; the block of a _malloc on its way through the list is pending.  *)
(* A fault ends the call it happens in: heap_term, which has `start', or   *)
(* _malloc.                                                                *)
Promise == INSTANCE Allocator WITH
  Addresses <- 1 .. LIMIT,
  Sizes     <- Queries,
  phase     <- CASE pc \in {"off", "term"}               -> "off"
                 [] pc \in {"idle", "coalesce"}          -> "ready"
                 [] pc \in {"find", "refind", "grow"}    -> "busy"
                 [] pc = "segv" -> (IF start = NULL THEN "busy" ELSE "off"),
  wanted    <- req,
  given     <- [c \in {a + HDR : a \in DOMAIN owned} |-> owned[c - HDR]]

(* mem.c keeps that promise: whatever it hands out is large enough, held   *)
(* by nobody else and left alone until it is freed.                        *)
KeepsPromise == Promise!Spec

(* Every block of the heap stays on the list.                              *)
NothingLost == pc = "idle" => DOMAIN hdr \subseteq listed

=============================================================================
