--------------------------- MODULE MemAllocProofs ---------------------------
(***************************************************************************)
(* Proofs about MemAlloc, for every size of headers, pages and regions,    *)
(* every address space and every set of requests.  First what the pure     *)
(* operators do to a heap, then one lemma per action, then the theorems.   *)
(***************************************************************************)
EXTENDS MemAlloc, TLAPS

(* What is rounded up is less than a page longer.                          *)
LEMMA RoundedPages ==
  ASSUME NEW n \in Nat, n + PAGE < WORD
  PROVE  /\ pages_count(n) \in Nat /\ round_pages(n) = PAGE * pages_count(n)
         /\ n <= PAGE * pages_count(n) /\ PAGE * pages_count(n) < n + PAGE
         /\ n > 0 => pages_count(n) > 0
<1> DEFINE d == n \div PAGE
           m == n % PAGE
           k == pages_count(n)
<1>1. PAGE \in Nat /\ PAGE > 0 /\ WORD \in Nat
  BY LayoutAssumption
<1>2. d \in Int /\ m \in 0 .. (PAGE - 1) /\ n = PAGE * d + m
  BY <1>1
<1>3. d >= 0
  BY <1>1
<1>4. k = d + (IF m > 0 THEN 1 ELSE 0)
  BY DEF pages_count
<1> HIDE DEF d, m, k
<1>5. PAGE * (d + 1) = PAGE * d + PAGE
  BY <1>1, <1>2
<1>6. PAGE * k = PAGE * d + (IF m > 0 THEN PAGE ELSE 0) /\ PAGE * k \in Int
  BY <1>1, <1>2, <1>4, <1>5
<1>7. n <= PAGE * k /\ PAGE * k < n + PAGE /\ k \in Nat
  BY <1>1, <1>2, <1>3, <1>4, <1>6
<1>8. round_pages(n) = PAGE * k
  BY <1>1, <1>6, <1>7 DEF round_pages, k, Wrap
<1>9. k = 0 => n <= 0
  BY <1>1, <1>7
<1> QED
  BY <1>7, <1>8, <1>9 DEF k

(* Whole pages hold at least the bytes they were rounded up from.          *)
LEMMA RoundPages ==
  ASSUME NEW n \in Nat, n + PAGE < WORD
  PROVE  round_pages(n) \in Nat /\ round_pages(n) >= n
BY RoundedPages, LayoutAssumption

(* Merging a block with the free block behind it leaves a heap: the next   *)
(* block is gone, and everything else is where it was.                     *)
LEMMA MergeKeepsHeap ==
  ASSUME NEW h, NEW L, NEW M, Heap(h, L, M),
         NEW a \in DOMAIN h, CanMerge(h, a)
  PROVE  Heap(Merged(h, a), L \ {h[a].next}, M)
<1> DEFINE b == h[a].next
           g == Merged(h, a)
           K == L \ {b}
<1>0. HDR \in Nat \ {0}
  BY LayoutAssumption
<1>1. /\ b \in DOMAIN h /\ b # NULL /\ b = a + HDR + h[a].cap
      /\ h[a].free /\ h[b].free
      /\ h[a] \in Header /\ h[b] \in Header /\ a \in Nat /\ b \in Nat
  BY DEF Heap, CanMerge, mergeable, blocks_continuous, block_after
<1>2. b > a
  BY <1>0, <1>1 DEF Header
<1>3. /\ DOMAIN g = DOMAIN h \ {b}
      /\ a \in DOMAIN g
      /\ g[a] = [next |-> h[b].next, cap |-> h[a].cap + HDR + h[b].cap,
                 free |-> TRUE, reg |-> h[a].reg]
      /\ \A x \in DOMAIN g \ {a} : g[x] = h[x]
  BY <1>1, <1>2 DEF Merged, MergedInto
<1>4. DOMAIN g \subseteq Nat \ {NULL} /\ g \in [DOMAIN g -> Header]
  <2>1. g[a] \in Header
    BY <1>0, <1>1, <1>3 DEF Header
  <2>3. \A x \in DOMAIN g \ {a} : g[x] \in Header
    BY <1>3 DEF Heap
  <2>2. g = [x \in DOMAIN g |-> g[x]]
    BY DEF Merged, MergedInto
  <2> QED
    BY <1>3, <2>1, <2>2, <2>3 DEF Heap
<1>5. K \subseteq DOMAIN g
  BY <1>3 DEF Heap
<1>6. block_after(g, a) = block_after(h, b)
  BY <1>0, <1>1, <1>3 DEF block_after, Header
<1>7. \A x \in DOMAIN g \ {a} : block_after(g, x) = block_after(h, x)
  BY <1>3 DEF block_after
<1>8. \A x \in DOMAIN h : x \in Nat /\ block_after(h, x) \in Nat
                          /\ x < block_after(h, x)
  BY <1>0 DEF Heap, Header, block_after
<1>9. Disjoint(g)
  <2> SUFFICES ASSUME NEW x \in DOMAIN g, NEW y \in DOMAIN g, x < y
               PROVE  block_after(g, x) <= y
    BY DEF Disjoint
  <2>1. CASE x = a
    <3>1. block_after(h, a) = b /\ block_after(h, a) <= y /\ y # b
      BY <1>1, <1>3, <2>1 DEF block_after, Heap, Disjoint
    <3>2. b < y
      BY <3>1, <1>1, <1>8, <1>3
    <3> QED
      BY <3>2, <1>1, <1>3, <1>6, <2>1 DEF Heap, Disjoint
  <2>2. CASE x # a
    BY <1>3, <1>7, <2>2 DEF Heap, Disjoint
  <2> QED
    BY <2>1, <2>2
<1>10. \A x \in DOMAIN g : Bytes(g, x) \subseteq M
  <2>1. Bytes(g, a) \subseteq Bytes(h, a) \cup Bytes(h, b)
    BY <1>0, <1>1, <1>6, <1>8 DEF Bytes, block_after, Header
  <2> QED
    BY <2>1, <1>1, <1>3, <1>7 DEF Heap, Bytes
<1>11. /\ h[b].next # b
       /\ a \in L <=> b \in L
       /\ h[b].next # NULL => h[b].next \in DOMAIN h
                              /\ (h[b].next \in L <=> b \in L)
  <2>1. a \in L <=> b \in L
    BY <1>1 DEF Heap
  <2>2. h[b].next # NULL => h[b].next \in DOMAIN h
                              /\ (h[b].next \in L <=> b \in L)
    BY <1>1 DEF Heap
  <2>3. h[b].next # b
    BY <1>1, <1>2 DEF Heap
  <2> QED
    BY <2>1, <2>2, <2>3
<1>12. \A x \in DOMAIN g : g[x].next # NULL =>
         g[x].next \in DOMAIN g /\ (g[x].next \in K <=> x \in K)
  <2> SUFFICES ASSUME NEW x \in DOMAIN g, g[x].next # NULL
               PROVE  g[x].next \in DOMAIN g /\ (g[x].next \in K <=> x \in K)
    OBVIOUS
  <2>1. CASE x = a
    BY <2>1, <1>2, <1>1, <1>3, <1>11
  <2>2. CASE x # a
    <3>1. g[x] = h[x] /\ x \in DOMAIN h /\ x # b
      BY <2>2, <1>3
    <3>2. h[x].next # b
      BY <3>1, <2>2, <1>1 DEF Heap
    <3> QED
      BY <3>1, <3>2, <1>3 DEF Heap
  <2> QED
    BY <2>1, <2>2
<1>13. \A x, y \in DOMAIN g :
         g[x].next = g[y].next => x = y \/ g[x].next = NULL
  <2>1. \A x \in DOMAIN g \ {a} : h[x].next = h[b].next => h[b].next = NULL
    BY <1>1, <1>3 DEF Heap
  <2> QED
    BY <2>1, <1>3 DEF Heap
<1>14. Chain(g, K)
  <2> SUFFICES ASSUME K # {} PROVE Chain(g, K)
    BY DEF Chain
  <2>0. Chain(h, L) /\ L # {} /\ L \subseteq DOMAIN h
    BY DEF Heap
  <2>1. \A x, y \in K : Precedes(g, x, y) <=> Precedes(h, x, y)
    BY <1>3, <1>5 DEF Precedes
  <2>2. \A x \in DOMAIN h : x \in Nat /\ h[x].reg \in Nat /\ h[x].next \in Nat
    BY DEF Heap, Header
  <2>3. HEAPSTART \in L /\ \A x \in L \ {HEAPSTART} : Precedes(h, HEAPSTART, x)
    BY <2>0 DEF Chain
  <2>4. b # HEAPSTART
    <3>1. CASE a \in L
      <4>1. Precedes(h, a, b)
        BY <3>1, <2>0, <1>1 DEF Chain
      <4> QED
        BY <4>1, <3>1, <2>2, <2>3, <1>1, <1>2 DEF Precedes
    <3>2. CASE a \notin L
      BY <3>2, <1>11, <2>3
    <3> QED
      BY <3>1, <3>2
  <2>5. HEAPSTART \in K /\ \A x \in K \ {HEAPSTART} : Precedes(g, HEAPSTART, x)
    BY <2>1, <2>3, <2>4
  <2>6. ASSUME NEW x \in K
        PROVE  IF g[x].next = NULL
               THEN \A y \in K : ~Precedes(g, x, y)
               ELSE /\ g[x].next \in K
                    /\ Precedes(g, x, g[x].next)
                    /\ \A y \in K : ~(Precedes(g, x, y) /\ Precedes(g, y, g[x].next))
    <3>1. CASE x # a
      <4>1. g[x] = h[x] /\ x \in L
        BY <3>1, <1>3, <1>5
      <4>2. h[x].next # NULL => h[x].next \in K
        BY <4>1, <1>12, <1>5
      <4> QED
        BY <4>1, <4>2, <2>0, <2>1 DEF Chain
    <3>2. CASE x = a
      <4>1. a \in L /\ b \in L
        BY <3>2, <1>11
      <4>2. /\ Precedes(h, a, b)
            /\ \A y \in L : ~(Precedes(h, a, y) /\ Precedes(h, y, b))
        BY <4>1, <2>0, <1>1 DEF Chain
      <4>3. CASE h[b].next = NULL
        <5>1. \A y \in L : ~Precedes(h, b, y)
          BY <4>1, <4>3, <2>0 DEF Chain
        <5>2. \A y \in K : ~Precedes(h, a, y)
          BY <5>1, <4>2, <2>0, <2>2, <4>1 DEF Precedes
        <5> QED
          BY <5>2, <4>3, <3>2, <2>1, <1>3
      <4>4. CASE h[b].next # NULL
        <5> DEFINE c == h[b].next
        <5>1. /\ c \in L /\ Precedes(h, b, c)
              /\ \A y \in L : ~(Precedes(h, b, y) /\ Precedes(h, y, c))
          BY <4>1, <4>4, <2>0 DEF Chain
        <5>2. c \in K
          BY <5>1, <1>11
        <5>3. Precedes(h, a, c)
          BY <5>1, <4>2, <4>1, <2>0, <2>2 DEF Precedes
        <5>4. \A y \in K : ~(Precedes(h, a, y) /\ Precedes(h, y, c))
          BY <5>1, <4>2, <4>1, <2>0, <2>2 DEF Precedes
        <5> QED
          BY <5>2, <5>3, <5>4, <4>4, <3>2, <2>1, <1>3
      <4> QED
        BY <4>3, <4>4
    <3> QED
      BY <3>1, <3>2
  <2> QED
    BY <2>5, <2>6 DEF Chain
<1> QED
  BY <1>4, <1>5, <1>9, <1>10, <1>12, <1>13, <1>14 DEF Heap

(* Taking a good block of the list, split or whole, leaves a heap: the     *)
(* block is taken and still large enough, the remainder is a free block    *)
(* behind it on the list, and no other block has changed.                  *)
LEMMA TakeKeepsHeap ==
  ASSUME NEW h, NEW L, NEW M, Heap(h, L, M), NEW a \in L,
         NEW q \in Nat, h[a].cap >= q, q + HDR + MINCAP < WORD
  PROVE  /\ Heap(Taken(h, a, q), L \cup (DOMAIN Taken(h, a, q) \ DOMAIN h), M)
         /\ DOMAIN h \subseteq DOMAIN Taken(h, a, q)
         /\ ~Taken(h, a, q)[a].free /\ Taken(h, a, q)[a].cap >= q
         /\ \A x \in DOMAIN h \ {a} : Taken(h, a, q)[x] = h[x]
         /\ \A x \in DOMAIN Taken(h, a, q) \ DOMAIN h : Taken(h, a, q)[x].free
<1> DEFINE b == a + HDR + q
           g == Taken(h, a, q)
           N == L \cup (DOMAIN g \ DOMAIN h)
<1>0. HDR \in Nat \ {0} /\ MINCAP \in Nat \ {0} /\ WORD \in Nat
  BY LayoutAssumption
<1>1. /\ a \in DOMAIN h /\ a \in Nat /\ a # NULL /\ h[a] \in Header
      /\ \A x \in DOMAIN h : h[x] \in Header /\ x \in Nat
  BY DEF Heap
<1>2. CASE ~block_splittable(h, a, q)
  <2>1. g = [h EXCEPT ![a].free = FALSE]
    BY <1>2 DEF Taken
  <2>2. /\ DOMAIN g = DOMAIN h
        /\ g[a] = [h[a] EXCEPT !.free = FALSE]
        /\ g[a].next = h[a].next /\ g[a].cap = h[a].cap /\ g[a].reg = h[a].reg
        /\ g[a].free = FALSE
        /\ \A x \in DOMAIN h \ {a} : g[x] = h[x]
    BY <2>1, <1>1 DEF Header
  <2>9. g \in [DOMAIN g -> Header]
    <3>1. g[a] \in Header
      BY <2>2, <1>1 DEF Header
    <3> QED
      BY <3>1, <2>1, <1>1 DEF Heap
  <2>3. \A x \in DOMAIN h : /\ g[x].next = h[x].next /\ g[x].cap = h[x].cap
                            /\ g[x].reg = h[x].reg
    BY <2>2
  <2>4. N = L
    BY <2>2
  <2>5. \A x \in DOMAIN h : block_after(g, x) = block_after(h, x)
    BY <2>3 DEF block_after
  <2>6. Disjoint(g) /\ \A x \in DOMAIN g : Bytes(g, x) \subseteq M
    BY <2>2, <2>5 DEF Heap, Disjoint, Bytes
  <2>7. Chain(g, L)
    <3>1. \A x, y \in DOMAIN h : Precedes(g, x, y) <=> Precedes(h, x, y)
      BY <2>3 DEF Precedes
    <3> QED
      BY <3>1, <2>3 DEF Heap, Chain
  <2>8. Heap(g, L, M)
    BY <2>2, <2>3, <2>6, <2>7, <2>9 DEF Heap
  <2> QED
    BY <2>2, <2>4, <2>8
<1>3. CASE block_splittable(h, a, q)
  <2>1. h[a].free /\ q + HDR + MINCAP <= h[a].cap
    BY <1>0, <1>3 DEF block_splittable, SizeFromCapacity, Wrap
  <2>2. b \in Nat \ {NULL} /\ a < b /\ b < block_after(h, a)
    BY <1>0, <1>1, <2>1 DEF block_after, Header, NULL
  <2>3. b \notin DOMAIN h
    BY <1>0, <1>1, <2>2 DEF Heap, Disjoint, block_after, Header
  <2>4. /\ DOMAIN g = DOMAIN h \cup {b}
        /\ g[a] = [next |-> b, cap |-> q, free |-> FALSE, reg |-> h[a].reg]
        /\ g[b] = [next |-> h[a].next, cap |-> h[a].cap - q - HDR,
                   free |-> TRUE, reg |-> h[a].reg]
        /\ \A x \in DOMAIN h \ {a} : g[x] = h[x]
        /\ g = [x \in DOMAIN g |-> g[x]]
    BY <1>1, <1>3, <2>2, <2>3 DEF Taken
  <2>5. N = L \cup {b}
    BY <2>3, <2>4
  <2>6. DOMAIN g \subseteq Nat \ {NULL} /\ g \in [DOMAIN g -> Header]
    <3>1. g[a] \in Header
      BY <1>1, <2>2, <2>4 DEF Header
    <3>2. g[b] \in Header
      BY <1>0, <1>1, <2>1, <2>4 DEF Header
    <3>3. \A x \in DOMAIN h \ {a} : g[x] \in Header
      BY <1>1, <2>4
    <3> QED
      BY <3>1, <3>2, <3>3, <2>2, <2>4 DEF Heap
  <2>7. /\ block_after(g, a) = b
        /\ block_after(g, b) = block_after(h, a)
        /\ \A x \in DOMAIN h \ {a} : block_after(g, x) = block_after(h, x)
    BY <1>0, <1>1, <2>4 DEF block_after, Header
  <2>8. Disjoint(g)
    <3>1. \A x \in DOMAIN h : a < x => block_after(h, a) <= x
      BY <1>1 DEF Heap, Disjoint
    <3>2. \A x \in DOMAIN h : block_after(h, x) \in Nat
      BY <1>0, <1>1 DEF block_after, Header
    <3>3. \A x \in DOMAIN h : b < x => block_after(g, b) <= x /\ a < x
      BY <1>1, <2>2, <2>7, <3>1, <3>2
    <3>4. \A x \in DOMAIN h \ {a} : x < b => block_after(g, x) <= b
      <4> SUFFICES ASSUME NEW x \in DOMAIN h \ {a}, x < b
                   PROVE  block_after(h, x) <= b
        BY <2>7
      <4>1. x < a
        BY <1>1, <2>2, <3>1, <3>2
      <4>2. block_after(h, x) <= a
        BY <4>1, <1>1 DEF Heap, Disjoint
      <4> QED
        BY <4>2, <1>1, <2>2, <3>2
    <3>5. \A x \in DOMAIN h : a < x => block_after(g, a) <= x
      BY <1>1, <2>2, <2>7, <3>1, <3>2
    <3>6. \A x, y \in DOMAIN h : x # a /\ x < y => block_after(g, x) <= y
      BY <2>7 DEF Heap, Disjoint
    <3> QED
      BY <2>2, <2>4, <2>7, <3>3, <3>4, <3>5, <3>6 DEF Disjoint
  <2>9. \A x \in DOMAIN g : Bytes(g, x) \subseteq M
    <3>1. Bytes(g, a) \subseteq Bytes(h, a) /\ Bytes(g, b) \subseteq Bytes(h, a)
      BY <1>0, <1>1, <2>2, <2>7 DEF Bytes, block_after, Header
    <3> QED
      BY <3>1, <1>1, <2>4, <2>7 DEF Heap, Bytes
  <2>10. \A x \in DOMAIN g : g[x].next # NULL =>
           g[x].next \in DOMAIN g /\ (g[x].next \in N <=> x \in N)
    <3>1. \A x \in DOMAIN h : h[x].next # NULL =>
            h[x].next \in DOMAIN h /\ (h[x].next \in L <=> x \in L)
      BY DEF Heap
    <3>2. L \subseteq DOMAIN h
      BY DEF Heap
    <3> QED
      BY <3>1, <3>2, <2>3, <2>4, <2>5, <1>1
  <2>11. \A x, y \in DOMAIN g :
           g[x].next = g[y].next => x = y \/ g[x].next = NULL
    <3>1. \A x \in DOMAIN h : h[x].next # b
      BY <2>2, <2>3 DEF Heap
    <3>2. \A x \in DOMAIN h \ {a} : h[x].next = h[a].next => h[x].next = NULL
      BY <1>1 DEF Heap
    <3>3. \A x, y \in DOMAIN h :
            h[x].next = h[y].next => x = y \/ h[x].next = NULL
      BY DEF Heap
    <3>4. h[a].next # b
      BY <3>1, <1>1
    <3>5. g[a].next = b /\ g[b].next = h[a].next
      BY <2>4
    <3>6. \A x \in DOMAIN h \ {a} : g[x].next = h[x].next
      BY <2>4
    <3> QED
      BY <3>1, <3>2, <3>3, <3>4, <3>5, <3>6, <2>4
  <2>12. Chain(g, N)
    <3>0. Chain(h, L) /\ L # {} /\ L \subseteq DOMAIN h
      BY DEF Heap
    <3>1. \A x \in DOMAIN h : x \in Nat /\ h[x].reg \in Nat
      BY <1>1 DEF Header
    <3>2. \A x \in DOMAIN h : g[x].reg = h[x].reg
      BY <2>4
    <3>3. g[b].reg = h[a].reg
      BY <2>4
    <3>4. \A x, y \in L : Precedes(g, x, y) <=> Precedes(h, x, y)
      BY <3>0, <3>2 DEF Precedes
    <3>5. \A y \in L : Precedes(h, a, y) <=> Precedes(g, b, y)
      <4>1. \A y \in L : a < y => b < y
        BY <1>0, <1>1, <2>2, <3>0 DEF Heap, Disjoint, block_after, Header
      <4> QED
        BY <4>1, <1>1, <2>2, <3>0, <3>1, <3>2, <3>3 DEF Precedes
    <3>6. \A y \in L : (y = a \/ Precedes(h, y, a)) <=> Precedes(g, y, b)
      <4>1. \A y \in L : y < b => y <= a
        BY <1>0, <1>1, <2>2, <3>0 DEF Heap, Disjoint, block_after, Header
      <4> QED
        BY <4>1, <1>1, <2>2, <3>0, <3>1, <3>2, <3>3 DEF Precedes
    <3>7. HEAPSTART \in L /\ \A y \in L \ {HEAPSTART} : Precedes(h, HEAPSTART, y)
      BY <3>0 DEF Chain
    <3>8. HEAPSTART \in N /\ \A y \in N \ {HEAPSTART} : Precedes(g, HEAPSTART, y)
      BY <3>7, <3>6, <3>4, <2>5
    <3>9. ~Precedes(g, b, b) /\ ~Precedes(h, a, a)
      BY <1>1, <2>2, <2>6, <2>4, <3>1 DEF Precedes
    <3>10. ASSUME NEW x \in N
           PROVE  IF g[x].next = NULL
                  THEN \A y \in N : ~Precedes(g, x, y)
                  ELSE /\ g[x].next \in N
                       /\ Precedes(g, x, g[x].next)
                       /\ \A y \in N : ~(/\ Precedes(g, x, y)
                                         /\ Precedes(g, y, g[x].next))
      <4>0. IF h[a].next = NULL
            THEN \A y \in L : ~Precedes(h, a, y)
            ELSE /\ h[a].next \in L
                 /\ Precedes(h, a, h[a].next)
                 /\ \A y \in L : ~(Precedes(h, a, y) /\ Precedes(h, y, h[a].next))
        BY <3>0 DEF Chain
      <4>1. CASE x = a
        <5>1. \A y \in L : ~(Precedes(h, a, y) /\ Precedes(h, y, a)) 
          BY <3>0, <3>1, <1>1 DEF Precedes
        <5>2. Precedes(g, a, b)
          BY <3>6
        <5>3. \A y \in N : ~(Precedes(g, a, y) /\ Precedes(g, y, b))
          BY <5>1, <3>4, <3>6, <3>9, <2>5
        <5> QED
          BY <5>2, <5>3, <4>1, <2>4, <2>2, <2>5
      <4>2. CASE x = b
        <5>1. g[x].next = h[a].next
          BY <4>2, <2>4
        <5>2. CASE h[a].next = NULL
          BY <5>1, <5>2, <4>0, <4>2, <3>5, <3>9, <2>5
        <5>3. CASE h[a].next # NULL
          <6>1. h[a].next \in L /\ Precedes(g, b, h[a].next)
            BY <5>3, <4>0, <3>5
          <6>2. \A y \in L : ~(Precedes(g, b, y) /\ Precedes(g, y, h[a].next))
            BY <6>1, <5>3, <4>0, <3>5, <3>4
          <6> QED
            BY <6>1, <6>2, <5>1, <5>3, <4>2, <3>9, <2>5
        <5> QED
          BY <5>2, <5>3
      <4>3. CASE x \in L /\ x # a
        <5>1. g[x] = h[x]
          BY <4>3, <2>4, <3>0
        <5>2. IF h[x].next = NULL
              THEN \A y \in L : ~Precedes(h, x, y)
              ELSE /\ h[x].next \in L
                   /\ Precedes(h, x, h[x].next)
                   /\ \A y \in L : ~(Precedes(h, x, y) /\ Precedes(h, y, h[x].next))
          BY <3>0, <4>3 DEF Chain
        <5>3. CASE h[x].next = NULL
          <6>1. ~Precedes(g, x, b)
            BY <5>2, <5>3, <4>3, <3>6, <3>0, <3>1 DEF Precedes
          <6> QED
            BY <6>1, <5>1, <5>2, <5>3, <4>3, <3>4, <2>5
        <5>4. CASE h[x].next # NULL
          <6>1. ~(Precedes(g, x, b) /\ Precedes(g, b, h[x].next))
            <7> SUFFICES ASSUME Precedes(g, x, b), Precedes(g, b, h[x].next)
                         PROVE  FALSE
              OBVIOUS
            <7>1. Precedes(h, x, a) /\ Precedes(h, a, h[x].next)
              BY <4>3, <5>2, <5>4, <3>5, <3>6
            <7> QED
              BY <7>1, <5>2, <5>4
          <6> QED
            BY <6>1, <5>1, <5>2, <5>4, <4>3, <3>4, <2>5
        <5> QED
          BY <5>3, <5>4
      <4> QED
        BY <4>1, <4>2, <4>3, <2>5
    <3> QED
      BY <3>8, <3>10 DEF Chain
  <2>13. N \subseteq DOMAIN g
    BY <2>4 DEF Heap
  <2>14. Heap(g, N, M)
    BY <2>6, <2>8, <2>9, <2>10, <2>11, <2>12, <2>13 DEF Heap
  <2> QED
    BY <2>14, <2>3, <2>4, <1>1, <2>2
<1> QED
  BY <1>2, <1>3

(* A region linked behind a listed block leaves a heap: the list is cut    *)
(* off after that block and goes on with the region.                       *)
LEMMA GrowKeepsHeap ==
  ASSUME NEW h, NEW L, NEW M, Heap(h, L, M), NEW a \in L, NEW r,
         r.addr \in Nat \ {NULL}, r.size \in Nat, r.size >= HDR,
         Extent(r.addr, r.size) \cap M = {}
  PROVE  /\ Heap(Linked(h, a, r), UpTo(h, L, a) \cup {r.addr},
                 M \cup Extent(r.addr, r.size))
         /\ r.addr \notin DOMAIN h
         /\ DOMAIN Linked(h, a, r) = DOMAIN h \cup {r.addr}
         /\ Linked(h, a, r)[r.addr] = Fresh(r.size, h[a].reg + 1)
         /\ Linked(h, a, r)[a] = [h[a] EXCEPT !.next = r.addr]
         /\ \A x \in DOMAIN h \ {a} : Linked(h, a, r)[x] = h[x]
         /\ HEAPSTART \in UpTo(h, L, a)
<1> DEFINE b == r.addr
           g == Linked(h, a, r)
           U == UpTo(h, L, a)
           K == U \cup {b}
           T == M \cup Extent(b, r.size)
<1>0. HDR \in Nat \ {0}
  BY LayoutAssumption
<1>1. /\ a \in DOMAIN h
      /\ \A x \in DOMAIN h : h[x] \in Header /\ x \in Nat
                             /\ block_after(h, x) \in Nat /\ x < block_after(h, x)
  BY <1>0 DEF Heap, Header, block_after
<1>2. \A x \in DOMAIN h : \A y \in Nat : x <= y /\ y < block_after(h, x) => y \in M
  <2> SUFFICES ASSUME NEW x \in DOMAIN h, NEW y \in Nat,
                      x <= y, y < block_after(h, x)
               PROVE  y \in M
    OBVIOUS
  <2>1. y \in Bytes(h, x)
    BY <1>1 DEF Bytes
  <2> QED
    BY <2>1 DEF Heap
<1>3. \A y \in Nat : b <= y /\ y < b + r.size => y \notin M
  BY DEF Extent
<1>4. b \notin DOMAIN h
  BY <1>0, <1>1, <1>2, <1>3
<1>5. /\ DOMAIN g = DOMAIN h \cup {b}
      /\ g[a] = [h[a] EXCEPT !.next = b]
      /\ g[b] = [next |-> NULL, cap |-> r.size - HDR, free |-> TRUE,
                 reg |-> h[a].reg + 1]
      /\ \A x \in DOMAIN h \ {a} : g[x] = h[x]
      /\ g = [x \in DOMAIN g |-> g[x]]
  BY <1>1, <1>4 DEF Linked, Fresh
<1>6. g[a].next = b /\ g[a].cap = h[a].cap /\ g[a].reg = h[a].reg
  BY <1>1, <1>5 DEF Header
<1>7. DOMAIN g \subseteq Nat \ {NULL} /\ g \in [DOMAIN g -> Header]
  <2>1. g[a] \in Header
    BY <1>1, <1>5 DEF Header
  <2>2. g[b] \in Header
    BY <1>0, <1>1, <1>5 DEF Header, NULL
  <2> QED
    BY <2>1, <2>2, <1>1, <1>5 DEF Heap
<1>8. /\ \A x \in DOMAIN h : block_after(g, x) = block_after(h, x)
      /\ block_after(g, b) = b + r.size
  <2>1. \A x \in DOMAIN h : g[x].cap = h[x].cap
    BY <1>5, <1>6
  <2>2. g[b].cap = r.size - HDR
    BY <1>5
  <2> QED
    BY <1>0, <2>1, <2>2 DEF block_after
<1>9. Disjoint(g)
  <2>1. \A x \in DOMAIN h : x < b => block_after(g, x) <= b
    BY <1>0, <1>1, <1>2, <1>3, <1>8
  <2>2. \A x \in DOMAIN h : b < x => block_after(g, b) <= x
    BY <1>0, <1>1, <1>2, <1>3, <1>8
  <2>3. \A x, y \in DOMAIN h : x < y => block_after(g, x) <= y
    BY <1>8 DEF Heap, Disjoint
  <2> QED
    BY <2>1, <2>2, <2>3, <1>5 DEF Disjoint
<1>10. \A x \in DOMAIN g : Bytes(g, x) \subseteq T
  BY <1>5, <1>8 DEF Heap, Bytes, Extent
<1>11. \A x \in DOMAIN h : x \in Nat /\ h[x].reg \in Nat /\ h[x].next \in Nat
  BY <1>1 DEF Header
<1>12. Chain(h, L) /\ L \subseteq DOMAIN h /\ L # {}
  BY DEF Heap
<1>13. HEAPSTART \in U
  BY <1>12 DEF Chain, UpTo
<1>14. ASSUME NEW x \in U, x # a
       PROVE  h[x].next \in U /\ Precedes(h, x, h[x].next) /\ h[x].next # NULL
  <2>1. x \in L /\ Precedes(h, x, a)
    BY <1>14 DEF UpTo
  <2>2. h[x].next # NULL
    BY <2>1, <1>12 DEF Chain
  <2>3. /\ h[x].next \in L /\ Precedes(h, x, h[x].next)
        /\ ~(Precedes(h, x, a) /\ Precedes(h, a, h[x].next))
    BY <2>1, <2>2, <1>12 DEF Chain
  <2>4. h[x].next = a \/ Precedes(h, h[x].next, a)
    BY <2>1, <2>3, <1>1, <1>11, <1>12 DEF Precedes
  <2> QED
    BY <2>2, <2>3, <2>4 DEF UpTo
<1>15. \A x \in DOMAIN g : g[x].next # NULL =>
         g[x].next \in DOMAIN g /\ (g[x].next \in K <=> x \in K)
  <2> SUFFICES ASSUME NEW x \in DOMAIN g, g[x].next # NULL
               PROVE  g[x].next \in DOMAIN g /\ (g[x].next \in K <=> x \in K)
    OBVIOUS
  <2>1. CASE x = a
    BY <2>1, <1>5, <1>6 DEF UpTo
  <2>2. CASE x = b
    BY <2>2, <1>5
  <2>3. CASE x # a /\ x # b
    <3>1. /\ x \in DOMAIN h /\ g[x] = h[x] /\ h[x].next \in DOMAIN h
          /\ h[x].next \in L <=> x \in L
      BY <2>3, <1>5 DEF Heap
    <3>2. x \in U => h[x].next \in U
      BY <2>3, <1>14
    <3>3. ASSUME h[x].next \in U
          PROVE  x \in U
      <4>1. x \in L /\ h[x].next \in L
        BY <3>1, <3>3 DEF UpTo
      <4>2. Precedes(h, x, h[x].next)
        <5>1. h[x].next # NULL
          BY <3>1
        <5> QED
          BY <4>1, <5>1, <1>12 DEF Chain
      <4>3. h[x].next = a \/ Precedes(h, h[x].next, a)
        BY <3>3 DEF UpTo
      <4> QED
        BY <4>1, <4>2, <4>3, <1>1, <1>11, <1>12 DEF UpTo, Precedes
    <3> QED
      BY <3>1, <3>2, <3>3, <1>4, <1>5, <2>3
  <2> QED
    BY <2>1, <2>2, <2>3
<1>16. \A x, y \in DOMAIN g :
         g[x].next = g[y].next => x = y \/ g[x].next = NULL
  <2>1. \A x \in DOMAIN h : h[x].next # b
    BY <1>4 DEF Heap
  <2>2. \A x, y \in DOMAIN h :
          h[x].next = h[y].next => x = y \/ h[x].next = NULL
    BY DEF Heap
  <2>3. g[b].next = NULL /\ g[a].next = b
    BY <1>5, <1>6
  <2>4. \A x \in DOMAIN h \ {a} : g[x].next = h[x].next
    BY <1>5
  <2> QED
    <3>1. \A x, y \in DOMAIN h \ {a} :
            g[x].next = g[y].next => x = y \/ g[x].next = NULL
      BY <2>2, <2>4
    <3>2. \A x \in DOMAIN h \ {a} : g[x].next # b
      BY <2>1, <2>4
    <3> SUFFICES ASSUME NEW x \in DOMAIN g, NEW y \in DOMAIN g,
                        g[x].next = g[y].next, x # y
                 PROVE  g[x].next = NULL
      OBVIOUS
    <3>3. CASE x = b \/ y = b
      BY <3>3, <2>3
    <3>4. CASE x # b /\ y # b
      <4>1. x \in DOMAIN h /\ y \in DOMAIN h
        BY <3>4, <1>5
      <4> QED
        BY <4>1, <3>1, <3>2, <2>3
    <3> QED
      BY <3>3, <3>4
<1>17. Chain(g, K)
  <2>1. \A x, y \in DOMAIN h : Precedes(g, x, y) <=> Precedes(h, x, y)
    <3>1. \A x \in DOMAIN h : g[x].reg = h[x].reg
      BY <1>5, <1>6
    <3> QED
      BY <3>1 DEF Precedes
  <2>2. U \subseteq DOMAIN h /\ U \subseteq L
    BY <1>12 DEF UpTo
  <2>3. \A x \in U : Precedes(g, x, b) /\ ~Precedes(g, b, x)
    <3> SUFFICES ASSUME NEW x \in U
                 PROVE  Precedes(g, x, b) /\ ~Precedes(g, b, x)
      OBVIOUS
    <3>1. x \in DOMAIN h /\ g[x].reg = h[x].reg /\ g[b].reg = h[a].reg + 1
      <4>1. x \in DOMAIN h /\ (x = a \/ g[x] = h[x])
        BY <1>5, <2>2
      <4>2. g[b].reg = h[a].reg + 1
        BY <1>5
      <4> QED
        BY <4>1, <4>2, <1>6
    <3>2. h[x].reg \in Nat /\ h[a].reg \in Nat /\ h[x].reg <= h[a].reg
      BY <3>1, <1>1, <1>11 DEF UpTo, Precedes
    <3> QED
      BY <3>1, <3>2 DEF Precedes
  <2>4. ~Precedes(g, b, b)
    BY <1>1, <1>5, <1>11 DEF Precedes
  <2>5. \A x \in K \ {HEAPSTART} : Precedes(g, HEAPSTART, x)
    BY <2>1, <2>2, <2>3, <1>12, <1>13 DEF Chain
  <2>6. ASSUME NEW x \in K
        PROVE  IF g[x].next = NULL
               THEN \A y \in K : ~Precedes(g, x, y)
               ELSE /\ g[x].next \in K
                    /\ Precedes(g, x, g[x].next)
                    /\ \A y \in K : ~(Precedes(g, x, y) /\ Precedes(g, y, g[x].next))
    <3>1. CASE x = b
      BY <3>1, <2>3, <2>4, <1>5
    <3>2. CASE x = a
      <4>1. \A y \in U : ~Precedes(g, a, y)
        BY <1>1, <1>11, <2>1, <2>2 DEF UpTo, Precedes
      <4> QED
        <5>1. g[x].next = b /\ b # NULL
          BY <3>2, <1>6
        <5>2. Precedes(g, a, b)
          BY <2>3 DEF UpTo
        <5> QED
          BY <5>1, <5>2, <4>1, <3>2, <2>4
    <3>3. CASE x # a /\ x # b
      <4>1. /\ x \in U /\ g[x].next = h[x].next
            /\ h[x].next \in U /\ Precedes(h, x, h[x].next) /\ h[x].next # NULL
        BY <3>3, <1>5, <1>14, <2>2
      <4>2. \A y \in L : ~(Precedes(h, x, y) /\ Precedes(h, y, h[x].next))
        BY <4>1, <2>2, <1>12 DEF Chain
      <4> QED
        BY <4>1, <4>2, <2>1, <2>2, <2>3
    <3> QED
      BY <3>1, <3>2, <3>3
  <2> QED
    BY <2>5, <2>6, <1>13 DEF Chain
<1>18. K \subseteq DOMAIN g
  BY <1>5, <1>12 DEF UpTo
<1>19. Heap(g, K, T)
  BY <1>7, <1>9, <1>10, <1>15, <1>16, <1>17, <1>18 DEF Heap
<1> QED
  BY <1>4, <1>5, <1>13, <1>19 DEF Fresh

(* What alloc_region returns is a range of unmapped addresses that holds   *)
(* a header and at least the bytes asked for.                              *)
LEMMA AllocRegion ==
  ASSUME NEW at \in Nat, NEW q \in Nat, q + HDR + PAGE < WORD,
         NEW r \in alloc_region(at, q)
  PROVE  /\ r.addr \in Nat \ {NULL} /\ r.size \in Nat
         /\ r.size >= q + HDR
         /\ r.addr + r.size <= LIMIT
         /\ Extent(r.addr, r.size) \cap mapped = {}
         /\ r.addr = at \/ r.addr >= HEAPSTART
         /\ r.extends => r.addr = at
<1> DEFINE n == region_actual_size(Wrap(q + HDR))
<1>0. HDR \in Nat \ {0} /\ PAGE \in Nat \ {0} /\ WORD \in Nat /\ LIMIT \in Nat
      /\ REGIONMIN \in Nat /\ HEAPSTART \in Nat
  BY LayoutAssumption
<1>1. Wrap(q + HDR) = q + HDR
  BY <1>0 DEF Wrap
<1>2. n \in Nat /\ n >= q + HDR
  <2>1. round_pages(q + HDR) \in Nat /\ round_pages(q + HDR) >= q + HDR
    BY <1>0, RoundPages
  <2> QED
    BY <2>1, <1>0, <1>1 DEF region_actual_size, AtLeast
<1> HIDE DEF n
<1>3. PICK e \in BOOLEAN, a \in Nat :
        /\ r = [addr |-> a, size |-> n, extends |-> e]
        /\ Mappable(a, n) /\ (a = at \/ a >= HEAPSTART) /\ (e => a = at)
  <2>1. CASE Mappable(at, n)
    BY <2>1 DEF alloc_region, n
  <2>2. CASE ~Mappable(at, n)
    <3>1. PICK a \in {x \in HEAPSTART .. LIMIT : Mappable(x, n)} :
            r = [addr |-> a, size |-> n, extends |-> FALSE]
      BY <2>2 DEF alloc_region, n
    <3>2. a \in Nat /\ a >= HEAPSTART /\ Mappable(a, n)
      BY <3>1, <1>0
    <3> QED
      BY <3>1, <3>2
  <2> QED
    BY <2>1, <2>2
<1> QED
  BY <1>0, <1>2, <1>3 DEF Mappable, NULL

-----------------------------------------------------------------------------
(* Facts every action lemma needs.                                         *)

LEMMA QueryFits ==
  ASSUME req \in Nat, Fits(req)
  PROVE  Query \in Nat /\ Fits(Query) /\ Query >= req /\ Query >= MINCAP
BY LayoutAssumption DEF Fits, Query, AtLeast

(* A search that looks at a block looks at a block of the list.            *)
LEMMA SearchingOnList ==
  ASSUME Inductive, Searching
  PROVE  /\ Live /\ Heap(hdr, listed, mapped)
         /\ cur \in listed /\ last \in listed
         /\ last = cur \/ Precedes(hdr, last, cur)
         /\ Fits(req) /\ req \in Nat
<1>1. Live /\ Heap(hdr, listed, mapped) /\ (HEAPSTART \in mapped => HEAPSTART \in listed)
  BY DEF Inductive, Searching, Live, LiveHeap
<1>2. cur \in mapped
  <2>1. cur \in Bytes(hdr, cur)
    BY <1>1, LayoutAssumption DEF Searching, Heap, Header, Bytes, block_after
  <2> QED
    BY <1>1, <2>1 DEF Heap, Searching
<1>3. listed # {}
  BY <1>1, <1>2 DEF Inductive, Cursors, SearchOnList, Searching
<1>4. cur # NULL
  BY <1>1 DEF Heap, Searching
<1> QED
  BY <1>1, <1>3, <1>4 DEF Inductive, Cursors, SearchOnList, Searching, TypeOK

(* Next in the chain: nothing on the list lies between.                    *)
LEMMA ChainStep ==
  ASSUME NEW h, NEW L, NEW M, Heap(h, L, M), NEW a \in L
  PROVE  /\ h[a].next = NULL => \A b \in L : ~Precedes(h, a, b)
         /\ h[a].next # NULL => /\ h[a].next \in L
                                /\ Precedes(h, a, h[a].next)
                                /\ \A b \in L : ~(/\ Precedes(h, a, b)
                                                  /\ Precedes(h, b, h[a].next))
BY DEF Heap, Chain

(* The order of the list is a strict linear order.                         *)
LEMMA Order ==
  ASSUME NEW h, NEW L, NEW M, Heap(h, L, M)
  PROVE  /\ \A a \in L : ~Precedes(h, a, a)
         /\ \A a, b \in L : a = b \/ Precedes(h, a, b) \/ Precedes(h, b, a)
         /\ \A a, b, c \in L :
              Precedes(h, a, b) /\ Precedes(h, b, c) => Precedes(h, a, c)
<1>1. \A a \in L : a \in Nat /\ h[a].reg \in Nat
  BY DEF Heap, Header
<1> QED
  BY <1>1 DEF Precedes

-----------------------------------------------------------------------------
(* One lemma per action.                                                   *)

LEMMA InitInductive ==
  ASSUME HeapStartIsFree, Init
  PROVE  Inductive
BY LayoutAssumption, InputAssumption
   DEF HeapStartIsFree, Init, Inductive, TypeOK, PCs, BlocksDisjoint, Disjoint,
       BlocksMapped, OwnedIsTaken, LiveHeap, Live, Cursors, SearchOnList,
       GoodAhead, TermRuns, HeapGone, NULL

LEMMA FindTakenInductive ==
  ASSUME Inductive, FindTaken
  PROVE  Inductive'
<1>1. /\ Live /\ Heap(hdr, listed, mapped) /\ cur \in listed /\ last \in listed
      /\ last = cur \/ Precedes(hdr, last, cur)
      /\ Fits(req) /\ req \in Nat
  BY SearchingOnList DEF FindTaken
<1>2. /\ hdr' = hdr /\ listed' = listed /\ mapped' = mapped /\ owned' = owned
      /\ pc' = pc /\ last' = last /\ req' = req /\ cur' = hdr[cur].next
      /\ start' = start /\ len' = len /\ epoch' = epoch /\ before' = before
      /\ ~hdr[cur].free /\ pc \in {"find", "refind"}
  BY DEF FindTaken, Searching
<1>3. /\ cur' = NULL \/ cur' \in listed
      /\ cur' = NULL => \A b \in listed : ~Precedes(hdr, cur, b)
      /\ cur' # NULL => /\ Precedes(hdr, cur, cur')
                        /\ \A b \in listed : ~(/\ Precedes(hdr, cur, b)
                                               /\ Precedes(hdr, b, cur'))
  BY <1>1, <1>2, ChainStep
<1>4. cur' \in Nat
  BY <1>1, <1>2 DEF Heap, Header
<1>5. TypeOK'
  BY <1>2, <1>4 DEF Inductive, TypeOK
<1>6. SearchOnList'
  <2>1. cur' # NULL => Precedes(hdr, last, cur')
    BY <1>1, <1>3, Order
  <2> QED
    BY <1>1, <1>2, <1>3, <2>1 DEF SearchOnList
<1>7. GoodAhead'
  <2> SUFFICES ASSUME pc = "refind" PROVE GoodAhead'
    BY <1>2 DEF GoodAhead
  <2>1. PICK t \in listed : /\ hdr[t].free /\ hdr[t].cap >= Query
                            /\ t = cur \/ Precedes(hdr, cur, t)
    BY DEF Inductive, Cursors, GoodAhead
  <2>2. Precedes(hdr, cur, t)
    BY <1>2, <2>1
  <2>3. cur' # NULL /\ ~Precedes(hdr, t, cur')
    BY <1>3, <2>2
  <2>4. t = cur' \/ Precedes(hdr, cur', t)
    BY <1>1, <1>3, <2>3, Order
  <2> QED
    BY <1>2, <1>3, <2>1, <2>3, <2>4 DEF GoodAhead, Query
<1> QED
  BY <1>2, <1>5, <1>6, <1>7
     DEF Inductive, BlocksDisjoint, BlocksMapped, OwnedIsTaken, LiveHeap, Live,
         Cursors, TermRuns, HeapGone

LEMMA FindTooSmallInductive ==
  ASSUME Inductive, FindTooSmall
  PROVE  Inductive'
<1>1. /\ Live /\ Heap(hdr, listed, mapped) /\ cur \in listed
      /\ Fits(req) /\ req \in Nat
  BY SearchingOnList DEF FindTooSmall
<1>2. /\ hdr' = hdr /\ listed' = listed /\ mapped' = mapped /\ owned' = owned
      /\ pc' = pc /\ last' = cur /\ req' = req /\ cur' = hdr[cur].next
      /\ start' = start /\ len' = len /\ epoch' = epoch /\ before' = before
      /\ hdr[cur].cap < Query /\ pc \in {"find", "refind"}
  BY DEF FindTooSmall, Searching
<1>3. /\ cur' = NULL \/ cur' \in listed
      /\ cur' = NULL => \A b \in listed : ~Precedes(hdr, cur, b)
      /\ cur' # NULL => /\ Precedes(hdr, cur, cur')
                        /\ \A b \in listed : ~(/\ Precedes(hdr, cur, b)
                                               /\ Precedes(hdr, b, cur'))
  BY <1>1, <1>2, ChainStep
<1>4. cur' \in Nat /\ cur \in Nat
  BY <1>1, <1>2 DEF Heap, Header
<1>5. TypeOK'
  BY <1>2, <1>4 DEF Inductive, TypeOK
<1>6. SearchOnList'
  BY <1>1, <1>2, <1>3 DEF SearchOnList
<1>7. GoodAhead'
  <2> SUFFICES ASSUME pc = "refind" PROVE GoodAhead'
    BY <1>2 DEF GoodAhead
  <2>1. PICK t \in listed : /\ hdr[t].free /\ hdr[t].cap >= Query
                            /\ t = cur \/ Precedes(hdr, cur, t)
    BY DEF Inductive, Cursors, GoodAhead
  <2>2. t # cur
    <3>1. Query \in Nat /\ hdr[cur].cap \in Nat
      BY <1>1, QueryFits DEF Heap, Header
    <3> QED
      BY <3>1, <2>1, <1>2
  <2>3. cur' # NULL /\ ~Precedes(hdr, t, cur')
    BY <1>3, <2>1, <2>2
  <2>4. t = cur' \/ Precedes(hdr, cur', t)
    BY <1>1, <1>3, <2>3, Order
  <2> QED
    BY <1>2, <1>3, <2>1, <2>3, <2>4 DEF GoodAhead, Query
<1> QED
  BY <1>2, <1>5, <1>6, <1>7
     DEF Inductive, BlocksDisjoint, BlocksMapped, OwnedIsTaken, LiveHeap, Live,
         Cursors, TermRuns, HeapGone

(* What a merge leaves alone: every header but the two that are merged.    *)
LEMMA MergeFacts ==
  ASSUME NEW h, NEW L, NEW M, Heap(h, L, M),
         NEW a \in DOMAIN h, CanMerge(h, a), NEW g, g = Merged(h, a)
  PROVE  /\ DOMAIN g = DOMAIN h \ {h[a].next}
         /\ h[a].next \in DOMAIN h /\ h[a].next # a
         /\ h[h[a].next].free /\ h[a].free /\ g[a].free
         /\ g[a].cap >= h[a].cap /\ g[a].cap >= h[h[a].next].cap
         /\ \A x \in DOMAIN g \ {a} : g[x] = h[x]
<1>0. HDR \in Nat \ {0}
  BY LayoutAssumption
<1>1. /\ h[a].next \in DOMAIN h /\ h[a] \in Header /\ h[h[a].next] \in Header
      /\ h[a].next = a + HDR + h[a].cap /\ a \in Nat
      /\ h[h[a].next].free /\ h[a].free
  BY DEF Heap, CanMerge, mergeable, blocks_continuous, block_after
<1>2. h[a].next # a
  BY <1>0, <1>1 DEF Header
<1>3. /\ DOMAIN g = DOMAIN h \ {h[a].next}
      /\ g[a] = [next |-> h[h[a].next].next,
                 cap  |-> h[a].cap + HDR + h[h[a].next].cap,
                 free |-> TRUE, reg |-> h[a].reg]
      /\ \A x \in DOMAIN g \ {a} : g[x] = h[x]
  BY <1>1, <1>2 DEF Merged, MergedInto
<1>4. /\ h[a].cap + HDR + h[h[a].next].cap >= h[a].cap
      /\ h[a].cap + HDR + h[h[a].next].cap >= h[h[a].next].cap
  BY <1>0, <1>1 DEF Header
<1> QED
  BY <1>1, <1>2, <1>3, <1>4

(* ... and the order of the list.                                          *)
LEMMA MergeOrder ==
  ASSUME NEW h, NEW L, NEW M, Heap(h, L, M),
         NEW a \in DOMAIN h, CanMerge(h, a), NEW g, g = Merged(h, a)
  PROVE  /\ h[a].next \in L <=> a \in L
         /\ \A x, y \in DOMAIN g : Precedes(g, x, y) <=> Precedes(h, x, y)
<1>1. h[a].next \in L <=> a \in L
  BY DEF Heap, CanMerge
<1>2. \A x \in DOMAIN g : g[x].reg = h[x].reg
  BY DEF Merged, MergedInto
<1> QED
  BY <1>1, <1>2 DEF Precedes

(* A merge disturbs no block that is owned.                                *)
LEMMA MergeKeepsOwned ==
  ASSUME Inductive, Live, NEW a \in DOMAIN hdr, CanMerge(hdr, a),
         hdr' = Merged(hdr, a), listed' = listed \ {hdr[a].next},
         mapped' = mapped, owned' = owned, pc' = pc
  PROVE  /\ BlocksDisjoint' /\ BlocksMapped' /\ OwnedIsTaken' /\ LiveHeap'
         /\ DOMAIN hdr' \subseteq Nat \ {NULL} /\ hdr' \in [DOMAIN hdr' -> Header]
         /\ listed' \subseteq DOMAIN hdr'
<1>1. Heap(hdr, listed, mapped)
  BY DEF Inductive, LiveHeap
<1>2. Heap(hdr', listed', mapped')
  BY <1>1, MergeKeepsHeap
<1>3. /\ DOMAIN hdr' = DOMAIN hdr \ {hdr[a].next}
      /\ hdr[a].next \in DOMAIN hdr /\ hdr[a].next # a
      /\ hdr[hdr[a].next].free /\ hdr[a].free /\ hdr'[a].free
      /\ hdr'[a].cap >= hdr[a].cap
      /\ \A x \in DOMAIN hdr' \ {a} : hdr'[x] = hdr[x]
  <2>1. \A x \in DOMAIN hdr' \ {a} : hdr'[x] = hdr[x]
    BY DEF Merged, MergedInto
  <2>2. DOMAIN hdr' = DOMAIN hdr \ {hdr[a].next}
    BY <1>1, MergeFacts
  <2>3. hdr[a].next \in DOMAIN hdr /\ hdr[a].next # a
    BY <1>1, MergeFacts
  <2>4. hdr[hdr[a].next].free /\ hdr[a].free /\ hdr'[a].free
    BY <1>1, MergeFacts
  <2>5. hdr'[a].cap >= hdr[a].cap
    BY <1>1, MergeFacts
  <2> QED
    BY <2>1, <2>2, <2>3, <2>4, <2>5
<1>4. OwnedIsTaken'
  BY <1>3 DEF Inductive, OwnedIsTaken
<1>5. HEAPSTART \in mapped' => HEAPSTART \in listed'
  <2>1. HEAPSTART \in mapped => HEAPSTART \in listed
    BY DEF Inductive, LiveHeap
  <2>2. hdr[a].next = HEAPSTART => HEAPSTART \notin listed
    <3> SUFFICES ASSUME hdr[a].next = HEAPSTART, HEAPSTART \in listed
                 PROVE  FALSE
      OBVIOUS
    <3>1. a \in listed
      BY <1>1, MergeOrder
    <3>2. Precedes(hdr, a, HEAPSTART) /\ a # HEAPSTART
      BY <1>1, <1>3, <3>1, ChainStep, LayoutAssumption DEF NULL
    <3>3. Precedes(hdr, HEAPSTART, a)
      BY <1>1, <3>1, <3>2 DEF Heap, Chain
    <3> QED
      BY <1>1, <3>1, <3>2, <3>3, Order
  <2> QED
    BY <2>1, <2>2
<1>6. \A x \in DOMAIN hdr' : hdr'[x].free \/ x \in DOMAIN owned'
  BY <1>3 DEF Inductive, LiveHeap
<1>7. LiveHeap'
  BY <1>2, <1>5, <1>6 DEF LiveHeap
<1>8. BlocksDisjoint' /\ BlocksMapped'
  BY <1>2 DEF Heap, BlocksDisjoint, BlocksMapped
<1> QED
  BY <1>2, <1>4, <1>7, <1>8 DEF Heap

LEMMA FindMergeInductive ==
  ASSUME Inductive, FindMerge
  PROVE  Inductive'
<1>1. /\ Live /\ Heap(hdr, listed, mapped) /\ cur \in listed /\ last \in listed
      /\ last = cur \/ Precedes(hdr, last, cur)
      /\ Fits(req) /\ req \in Nat
  BY SearchingOnList DEF FindMerge
<1>2. /\ hdr' = Merged(hdr, cur) /\ listed' = listed \ {hdr[cur].next}
      /\ mapped' = mapped /\ owned' = owned
      /\ pc' = pc /\ last' = last /\ req' = req /\ cur' = cur
      /\ start' = start /\ len' = len /\ epoch' = epoch /\ before' = before
      /\ pc \in {"find", "refind"} /\ CanMerge(hdr, cur) /\ cur \in DOMAIN hdr
  BY DEF FindMerge, Searching
<1> DEFINE b == hdr[cur].next
<1>3. /\ DOMAIN hdr' = DOMAIN hdr \ {b} /\ b \in DOMAIN hdr /\ b # cur
      /\ hdr[b].free /\ hdr[cur].free /\ hdr'[cur].free
      /\ hdr'[cur].cap >= hdr[cur].cap /\ hdr'[cur].cap >= hdr[b].cap
      /\ \A x \in DOMAIN hdr' \ {cur} : hdr'[x] = hdr[x]
      /\ \A x, y \in DOMAIN hdr' : Precedes(hdr', x, y) <=> Precedes(hdr, x, y)
      /\ b \in listed
  BY <1>1, <1>2, MergeFacts, MergeOrder
<1>4. Precedes(hdr, cur, b)
  BY <1>1, <1>2, ChainStep DEF CanMerge
<1>5. /\ BlocksDisjoint' /\ BlocksMapped' /\ OwnedIsTaken' /\ LiveHeap'
      /\ DOMAIN hdr' \subseteq Nat \ {NULL} /\ hdr' \in [DOMAIN hdr' -> Header]
      /\ listed' \subseteq DOMAIN hdr'
  BY <1>1, <1>2, MergeKeepsOwned
<1>6. TypeOK'
  BY <1>2, <1>5 DEF Inductive, TypeOK
<1>7. cur \in listed' /\ cur \in DOMAIN hdr'
  BY <1>1, <1>2, <1>3
<1>8. last \in listed' /\ last \in DOMAIN hdr'
  BY <1>1, <1>2, <1>3, <1>4, <1>5, Order
<1>9. SearchOnList'
  BY <1>1, <1>2, <1>3, <1>7, <1>8 DEF SearchOnList
<1>10. GoodAhead'
  <2> SUFFICES ASSUME pc = "refind" PROVE GoodAhead'
    BY <1>2 DEF GoodAhead
  <2>1. PICK t \in listed : /\ hdr[t].free /\ hdr[t].cap >= Query
                            /\ t = cur \/ Precedes(hdr, cur, t)
    BY DEF Inductive, Cursors, GoodAhead
  <2>2. CASE t = cur \/ t = b
    <3>1. hdr'[cur].cap >= Query
      <4>1. Query \in Nat /\ hdr[cur].cap \in Nat /\ hdr[b].cap \in Nat
            /\ hdr'[cur].cap \in Nat
        BY <1>1, <1>3, <1>5, <1>7, QueryFits DEF Heap, Header
      <4> QED
        BY <4>1, <1>3, <2>1, <2>2
    <3> QED
      BY <3>1, <1>2, <1>3, <1>7 DEF GoodAhead, Query
  <2>3. CASE t # cur /\ t # b
    <3>1. t \in listed' /\ t \in DOMAIN hdr' /\ hdr'[t] = hdr[t]
      BY <1>2, <1>3, <1>5, <2>3
    <3>2. Precedes(hdr', cur, t)
      BY <3>1, <1>3, <1>7, <2>1, <2>3
    <3> QED
      BY <3>1, <3>2, <2>1, <1>2, <1>7 DEF GoodAhead, Query
  <2> QED
    BY <2>2, <2>3
<1> QED
  BY <1>2, <1>5, <1>6, <1>9, <1>10
     DEF Inductive, Cursors, TermRuns, HeapGone

(* A block in mapped memory ends within the address space.                 *)
LEMMA BlockBelowLimit ==
  ASSUME TypeOK, BlocksMapped, NEW a \in DOMAIN hdr
  PROVE  /\ a \in Nat /\ hdr[a].cap \in Nat /\ a + HDR + hdr[a].cap <= LIMIT
         /\ \A y \in Nat : a <= y /\ y < a + HDR + hdr[a].cap => y \in mapped
<1>0. HDR \in Nat \ {0} /\ LIMIT \in Nat
  BY LayoutAssumption
<1>1. a \in Nat /\ hdr[a].cap \in Nat
  BY DEF TypeOK, Header
<1>2. \A y \in Nat : a <= y /\ y < a + HDR + hdr[a].cap => y \in mapped
  <2> SUFFICES ASSUME NEW y \in Nat, a <= y, y < a + HDR + hdr[a].cap
               PROVE  y \in mapped
    OBVIOUS
  <2>1. y \in Bytes(hdr, a)
    BY <1>0, <1>1 DEF Bytes, block_after
  <2> QED
    BY <2>1 DEF BlocksMapped
<1>3. a + HDR + hdr[a].cap - 1 \in mapped
  BY <1>0, <1>1, <1>2
<1> QED
  BY <1>0, <1>1, <1>2, <1>3 DEF TypeOK

LEMMA FindGoodInductive ==
  ASSUME Inductive, FindGood
  PROVE  Inductive'
<1>0. HDR \in Nat \ {0} /\ MINCAP \in Nat \ {0} /\ PAGE \in Nat \ {0}
      /\ LIMIT \in Nat /\ WORD \in Nat /\ LIMIT + HDR + PAGE + MINCAP <= WORD
  BY LayoutAssumption
<1>1. /\ Live /\ Heap(hdr, listed, mapped) /\ cur \in listed
      /\ Fits(req) /\ req \in Nat
  BY SearchingOnList DEF FindGood
<1>2. /\ hdr' = Taken(hdr, cur, Query)
      /\ listed' = listed \cup (DOMAIN hdr' \ DOMAIN hdr)
      /\ mapped' = mapped
      /\ owned' = [x \in DOMAIN owned \cup {cur} |->
                     IF x = cur THEN req ELSE owned[x]]
      /\ pc' = "idle" /\ cur' = NULL /\ last' = NULL /\ req' = 0
      /\ start' = start /\ len' = len /\ epoch' = epoch /\ before' = before
      /\ hdr[cur].cap >= Query /\ cur \in DOMAIN hdr /\ hdr[cur].free
  BY DEF FindGood, Searching, Return
<1>3. Query \in Nat /\ Query >= req /\ Query >= MINCAP
  BY <1>1, QueryFits
<1>4. Query + HDR + MINCAP < WORD
  <2>1. cur \in Nat /\ hdr[cur].cap \in Nat /\ cur + HDR + hdr[cur].cap <= LIMIT
    BY <1>2, BlockBelowLimit DEF Inductive
  <2> QED
    BY <2>1, <1>0, <1>2, <1>3
<1>5. /\ Heap(hdr', listed', mapped')
      /\ DOMAIN hdr \subseteq DOMAIN hdr'
      /\ ~hdr'[cur].free /\ hdr'[cur].cap >= Query
      /\ \A x \in DOMAIN hdr \ {cur} : hdr'[x] = hdr[x]
      /\ \A x \in DOMAIN hdr' \ DOMAIN hdr : hdr'[x].free
  BY <1>1, <1>2, <1>3, <1>4, TakeKeepsHeap
<1>6. /\ DOMAIN owned' = DOMAIN owned \cup {cur} /\ owned'[cur] = req
      /\ \A x \in DOMAIN owned \ {cur} : owned'[x] = owned[x]
      /\ owned' = [x \in DOMAIN owned' |-> owned'[x]]
  BY <1>2
<1>7. cur \notin DOMAIN owned
  BY <1>2 DEF Inductive, OwnedIsTaken
<1>8. OwnedIsTaken'
  <2>1. hdr'[cur].cap >= AtLeast(req, MINCAP)
    BY <1>5 DEF Query
  <2>2. \A x \in DOMAIN owned : x \in DOMAIN hdr' /\ hdr'[x] = hdr[x]
                                /\ owned'[x] = owned[x]
    BY <1>5, <1>6, <1>7 DEF Inductive, OwnedIsTaken
  <2> QED
    BY <2>1, <2>2, <1>2, <1>5, <1>6 DEF Inductive, OwnedIsTaken
<1>9. \A x \in DOMAIN hdr' : hdr'[x].free \/ x \in DOMAIN owned'
  <2>1. \A x \in DOMAIN hdr : hdr[x].free \/ x \in DOMAIN owned
    BY <1>1 DEF Inductive, LiveHeap
  <2> QED
    BY <2>1, <1>5, <1>6
<1>10. LiveHeap'
  <2>1. HEAPSTART \in mapped => HEAPSTART \in listed
    BY <1>1 DEF Inductive, LiveHeap
  <2> QED
    BY <2>1, <1>2, <1>5, <1>9 DEF LiveHeap
<1>11. BlocksDisjoint' /\ BlocksMapped'
  BY <1>5 DEF Heap, BlocksDisjoint, BlocksMapped
<1>12. TypeOK'
  <2>1. DOMAIN owned' \subseteq Nat /\ owned' \in [DOMAIN owned' -> Nat]
    <3>1. \A x \in DOMAIN owned' : owned'[x] \in Nat
      BY <1>1, <1>6, <1>7 DEF Inductive, TypeOK
    <3>2. cur \in Nat
      BY DEF Inductive, TypeOK
    <3> QED
      BY <3>1, <3>2, <1>6 DEF Inductive, TypeOK
  <2> QED
    BY <2>1, <1>2, <1>5 DEF Inductive, TypeOK, Heap, PCs, NULL
<1> QED
  BY <1>2, <1>8, <1>10, <1>11, <1>12
     DEF Inductive, Cursors, SearchOnList, GoodAhead, TermRuns, HeapGone

LEMMA FindEndInductive ==
  ASSUME Inductive, FindEnd
  PROVE  Inductive'
BY LayoutAssumption
   DEF FindEnd, NULL, Inductive, TypeOK, PCs, BlocksDisjoint, BlocksMapped, OwnedIsTaken,
       LiveHeap, Live, Cursors, SearchOnList, GoodAhead, TermRuns, HeapGone

LEMMA GrowFailsInductive ==
  ASSUME Inductive, GrowFails
  PROVE  Inductive'
BY DEF GrowFails, Return, Inductive, TypeOK, PCs, NULL, BlocksDisjoint,
       BlocksMapped, OwnedIsTaken, LiveHeap, Live, Cursors, SearchOnList,
       GoodAhead, TermRuns, HeapGone

(* The second search never comes to the end of the list.                   *)
LEMMA RefindEndImpossible ==
  ASSUME Inductive, RefindEnd
  PROVE  FALSE
BY DEF RefindEnd, Inductive, Cursors, GoodAhead, TypeOK

(* HEAP_START is never read as somebody else's memory.                     *)
LEMMA ForeignHeaderImpossible ==
  ASSUME Inductive, ForeignHeader
  PROVE  FALSE
BY DEF ForeignHeader, NoHeader, Inductive, Cursors, SearchOnList, GoodAhead,
       TermRuns, LiveHeap, Live, TypeOK

LEMMA SegvInductive ==
  ASSUME Inductive, Segv
  PROVE  Inductive'
BY DEF Segv, Inductive, TypeOK, PCs, BlocksDisjoint, BlocksMapped, OwnedIsTaken,
       LiveHeap, Live, Cursors, SearchOnList, GoodAhead, TermRuns, HeapGone

LEMMA MallocInductive ==
  ASSUME Inductive, ArgumentsFit, NEW q \in Queries, Malloc(q)
  PROVE  Inductive'
<1>1. q \in Nat /\ Fits(q) /\ HEAPSTART \in Nat \ {0}
  BY InputAssumption, LayoutAssumption DEF ArgumentsFit
<1>2. /\ pc = "idle" /\ pc' = "find" /\ req' = q
      /\ cur' = HEAPSTART /\ last' = HEAPSTART
      /\ hdr' = hdr /\ listed' = listed /\ mapped' = mapped /\ owned' = owned
      /\ start' = start /\ len' = len /\ epoch' = epoch /\ before' = before
  BY DEF Malloc
<1>3. listed # {} => HEAPSTART \in listed
  BY <1>2 DEF Inductive, LiveHeap, Live, Heap, Chain
<1> QED
  BY <1>1, <1>2, <1>3
     DEF Inductive, TypeOK, PCs, BlocksDisjoint, BlocksMapped, OwnedIsTaken,
         LiveHeap, Live, Cursors, SearchOnList, GoodAhead, TermRuns, HeapGone

LEMMA FreeInductive ==
  ASSUME Inductive, NEW a \in DOMAIN owned, Free(a)
  PROVE  Inductive'
<1>1. /\ pc = "idle" /\ pc' = "coalesce" /\ cur' = a /\ a \in DOMAIN hdr
      /\ hdr' = [hdr EXCEPT ![a].free = TRUE]
      /\ owned' = [x \in DOMAIN owned \ {a} |-> owned[x]]
      /\ listed' = listed /\ mapped' = mapped /\ last' = last /\ req' = req
      /\ start' = start /\ len' = len /\ epoch' = epoch /\ before' = before
  BY DEF Free
<1>2. Heap(hdr, listed, mapped)
  BY <1>1 DEF Inductive, LiveHeap, Live
<1>3. /\ DOMAIN hdr' = DOMAIN hdr
      /\ hdr'[a] = [hdr[a] EXCEPT !.free = TRUE]
      /\ \A x \in DOMAIN hdr \ {a} : hdr'[x] = hdr[x]
      /\ hdr[a] \in Header /\ hdr'[a] \in Header
  <2>1. hdr[a] \in Header
    BY <1>1, <1>2 DEF Heap
  <2> QED
    BY <1>1, <2>1 DEF Header
<1>4. /\ hdr'[a].free
      /\ \A x \in DOMAIN hdr : /\ hdr'[x].next = hdr[x].next
                               /\ hdr'[x].cap = hdr[x].cap
                               /\ hdr'[x].reg = hdr[x].reg
  BY <1>3 DEF Header
<1>5. hdr' \in [DOMAIN hdr' -> Header]
  BY <1>1, <1>2, <1>3 DEF Heap
<1>6. \A x \in DOMAIN hdr : block_after(hdr', x) = block_after(hdr, x)
  BY <1>4 DEF block_after
<1>7. Chain(hdr', listed)
  <2>1. \A x, y \in DOMAIN hdr : Precedes(hdr', x, y) <=> Precedes(hdr, x, y)
    BY <1>4 DEF Precedes
  <2> QED
    BY <2>1, <1>2, <1>4 DEF Heap, Chain
<1>8. Disjoint(hdr') /\ \A x \in DOMAIN hdr' : Bytes(hdr', x) \subseteq mapped
  BY <1>2, <1>3, <1>6 DEF Heap, Disjoint, Bytes
<1>9. Heap(hdr', listed, mapped)
  BY <1>2, <1>3, <1>4, <1>5, <1>7, <1>8 DEF Heap
<1>10. /\ DOMAIN owned' = DOMAIN owned \ {a}
       /\ \A x \in DOMAIN owned' : owned'[x] = owned[x]
       /\ owned' = [x \in DOMAIN owned' |-> owned'[x]]
  BY <1>1
<1>11. OwnedIsTaken'
  BY <1>3, <1>10 DEF Inductive, OwnedIsTaken
<1>12. LiveHeap'
  <2>1. \A x \in DOMAIN hdr' : hdr'[x].free \/ x \in DOMAIN owned'
    BY <1>1, <1>3, <1>4, <1>10 DEF Inductive, LiveHeap, Live
  <2> QED
    BY <2>1, <1>1, <1>9 DEF Inductive, LiveHeap, Live
<1>13. TypeOK'
  <2>1. DOMAIN owned' \subseteq Nat /\ owned' \in [DOMAIN owned' -> Nat]
    BY <1>10 DEF Inductive, TypeOK
  <2>2. a \in Nat
    BY DEF Inductive, TypeOK
  <2> QED
    BY <2>1, <2>2, <1>1, <1>3, <1>5 DEF Inductive, TypeOK, PCs
<1>14. BlocksDisjoint' /\ BlocksMapped'
  BY <1>1, <1>8 DEF BlocksDisjoint, BlocksMapped
<1> QED
  BY <1>1, <1>3, <1>4, <1>11, <1>12, <1>13, <1>14
     DEF Inductive, Cursors, SearchOnList, GoodAhead, TermRuns, HeapGone

LEMMA CoalesceMergeInductive ==
  ASSUME Inductive, CoalesceMerge
  PROVE  Inductive'
<1>1. /\ hdr' = Merged(hdr, cur) /\ listed' = listed \ {hdr[cur].next}
      /\ mapped' = mapped /\ owned' = owned
      /\ pc' = pc /\ last' = last /\ req' = req /\ cur' = cur
      /\ start' = start /\ len' = len /\ epoch' = epoch /\ before' = before
      /\ pc = "coalesce" /\ CanMerge(hdr, cur) /\ cur \in DOMAIN hdr /\ Live
  BY DEF CoalesceMerge, Inductive, Cursors, Live
<1>2. Heap(hdr, listed, mapped)
  BY <1>1 DEF Inductive, LiveHeap
<1>3. /\ BlocksDisjoint' /\ BlocksMapped' /\ OwnedIsTaken' /\ LiveHeap'
      /\ DOMAIN hdr' \subseteq Nat \ {NULL} /\ hdr' \in [DOMAIN hdr' -> Header]
      /\ listed' \subseteq DOMAIN hdr'
  BY <1>1, MergeKeepsOwned
<1>4. cur \in DOMAIN hdr' /\ hdr'[cur].free
  <2>1. DOMAIN hdr' = DOMAIN hdr \ {hdr[cur].next}
    BY <1>1 DEF Merged, MergedInto
  <2>2. hdr[cur].next # cur /\ hdr'[cur].free
    BY <1>1, <1>2, MergeFacts
  <2> QED
    BY <2>1, <2>2, <1>1
<1>5. TypeOK'
  BY <1>1, <1>3 DEF Inductive, TypeOK
<1> QED
  BY <1>1, <1>3, <1>4, <1>5
     DEF Inductive, Cursors, SearchOnList, GoodAhead, TermRuns, HeapGone

LEMMA CoalesceEndInductive ==
  ASSUME Inductive, CoalesceEnd
  PROVE  Inductive'
BY DEF CoalesceEnd, Return, Inductive, TypeOK, PCs, NULL, BlocksDisjoint,
       BlocksMapped, OwnedIsTaken, LiveHeap, Live, Cursors, SearchOnList,
       GoodAhead, TermRuns, HeapGone

LEMMA HeapInitFailsInductive ==
  ASSUME Inductive, HeapInitFails
  PROVE  Inductive'
BY InputAssumption
   DEF HeapInitFails, Inductive, TypeOK, PCs, BlocksDisjoint,
       BlocksMapped, OwnedIsTaken, LiveHeap, Live, Cursors, SearchOnList,
       GoodAhead, TermRuns, HeapGone

LEMMA NoHeapInitInductive ==
  ASSUME Inductive, NoHeapInit
  PROVE  Inductive'
<1>1. /\ pc = "off" /\ pc' = "idle" /\ DOMAIN hdr = {} /\ HEAPSTART \notin mapped
      /\ DOMAIN owned = {} /\ listed = {}
      /\ UNCHANGED <<mapped, hdr, owned, cur, last, req, start, len, listed>>
  BY DEF NoHeapInit, Inductive, HeapGone, TypeOK
<1>2. TypeOK'
  BY InputAssumption, <1>1 DEF NoHeapInit, Inductive, TypeOK, PCs
<1>3. LiveHeap'
  BY <1>1, <1>2 DEF LiveHeap, Heap, Chain, TypeOK, Disjoint
<1> QED
  BY <1>1, <1>2, <1>3
     DEF Inductive, BlocksDisjoint, BlocksMapped, OwnedIsTaken, Cursors, SearchOnList,
         GoodAhead, TermRuns, HeapGone, Disjoint

(* heap_init makes a heap of one free block, which is on the list only if  *)
(* it lies at HEAP_START.                                                  *)
LEMMA HeapInitInductive ==
  ASSUME Inductive, ArgumentsFit, NEW n \in Initials, HeapInit(n)
  PROVE  Inductive'
<1>0. /\ HDR \in Nat \ {0} /\ PAGE \in Nat /\ WORD \in Nat
      /\ HEAPSTART \in Nat \ {0} /\ n \in Nat /\ LIMIT \in Nat
      /\ n + HDR + PAGE < WORD
  BY LayoutAssumption, InputAssumption DEF ArgumentsFit, Fits
<1>1. /\ pc = "off" /\ pc' = "idle" /\ owned' = owned /\ cur' = cur
      /\ last' = last /\ req' = req /\ start' = start /\ len' = len
      /\ epoch' = epoch + 1 /\ epoch < MAXEPOCH /\ before' = mapped
  BY DEF HeapInit
<1>2. PICK r \in alloc_region(HEAPSTART, n) :
        /\ mapped' = mapped \cup Extent(r.addr, r.size)
        /\ hdr' = [x \in {r.addr} |-> Fresh(r.size, 0)]
        /\ listed' = {r.addr} \cap {HEAPSTART}
  BY DEF HeapInit
<1>3. /\ r.addr \in Nat \ {NULL} /\ r.size \in Nat /\ r.size >= n + HDR
      /\ r.addr + r.size <= LIMIT
      /\ Extent(r.addr, r.size) \cap mapped = {}
      /\ r.addr = HEAPSTART \/ r.addr >= HEAPSTART
  BY <1>0, AllocRegion
<1>4. /\ DOMAIN hdr' = {r.addr}
      /\ hdr'[r.addr] = [next |-> NULL, cap |-> r.size - HDR, free |-> TRUE, reg |-> 0]
      /\ hdr' = [x \in DOMAIN hdr' |-> hdr'[x]]
  BY <1>2 DEF Fresh
<1>5. hdr' \in [DOMAIN hdr' -> Header]
  <2>1. hdr'[r.addr] \in Header
    BY <1>0, <1>3, <1>4 DEF Header, NULL
  <2> QED
    BY <2>1, <1>4
<1>6. Bytes(hdr', r.addr) \subseteq Extent(r.addr, r.size)
  <2>1. hdr'[r.addr].cap = r.size - HDR
    BY <1>4
  <2>2. block_after(hdr', r.addr) = r.addr + r.size
    BY <2>1, <1>0, <1>3 DEF block_after
  <2> QED
    BY <2>2, <1>3 DEF Bytes, Extent
<1>7. Heap(hdr', listed', mapped')
  <2>1. hdr'[r.addr].next = NULL
    BY <1>4
  <2>2. Disjoint(hdr')
    BY <1>3, <1>4 DEF Disjoint
  <2>3. Chain(hdr', listed')
    BY <1>0, <1>2, <1>4, <1>5, <2>1 DEF Chain, Precedes, Header
  <2> QED
    BY <2>1, <2>2, <2>3, <1>2, <1>3, <1>4, <1>5, <1>6 DEF Heap
<1>8. /\ DOMAIN owned = {} /\ HEAPSTART \notin mapped
  BY <1>1 DEF Inductive, HeapGone
<1>9. HEAPSTART \in mapped' => HEAPSTART \in listed'
  <2> SUFFICES ASSUME HEAPSTART \in mapped' PROVE HEAPSTART \in listed'
    OBVIOUS
  <2>1. HEAPSTART \in Extent(r.addr, r.size)
    BY <1>2, <1>8
  <2>2. r.addr <= HEAPSTART
    BY <2>1, <1>0, <1>3 DEF Extent
  <2>3. r.addr = HEAPSTART
    BY <2>2, <1>0, <1>3
  <2> QED
    BY <2>3, <1>2
<1>10. mapped' \subseteq 1 .. (LIMIT - 1) /\ before' \subseteq 1 .. (LIMIT - 1)
  BY <1>0, <1>1, <1>2, <1>3 DEF Inductive, TypeOK, Extent, NULL
<1>11. epoch' \in 0 .. MAXEPOCH
  BY <1>1, InputAssumption DEF Inductive, TypeOK
<1>12. TypeOK'
  BY <1>1, <1>2, <1>3, <1>4, <1>5, <1>10, <1>11 DEF Inductive, TypeOK, PCs
<1>13. LiveHeap'
  BY <1>4, <1>7, <1>9 DEF LiveHeap
<1>14. BlocksDisjoint' /\ BlocksMapped'
  BY <1>7 DEF Heap, BlocksDisjoint, BlocksMapped
<1>15. OwnedIsTaken'
  BY <1>1, <1>8 DEF OwnedIsTaken
<1> QED
  BY <1>1, <1>12, <1>13, <1>14, <1>15
     DEF Inductive, Cursors, SearchOnList, GoodAhead, TermRuns, HeapGone

LEMMA HeapTermInductive ==
  ASSUME Inductive, HeapTerm
  PROVE  Inductive'
<1>1. /\ pc = "idle" /\ pc' = "term" /\ DOMAIN owned' = {}
      /\ owned' = [x \in {} |-> 0]
      /\ cur' = HEAPSTART /\ start' = HEAPSTART /\ len' = 0
      /\ hdr' = hdr /\ listed' = listed /\ mapped' = mapped
      /\ last' = last /\ req' = req /\ epoch' = epoch /\ before' = before
  BY DEF HeapTerm
<1>2. /\ Heap(hdr, listed, mapped) /\ (HEAPSTART \in mapped => HEAPSTART \in listed)
  BY <1>1 DEF Inductive, LiveHeap, Live
<1>3. HEAPSTART \in Nat \ {NULL}
  BY LayoutAssumption DEF NULL
<1>4. TypeOK'
  BY <1>1, <1>3 DEF Inductive, TypeOK, PCs
<1>5. TermRuns'
  BY <1>1, <1>2, <1>3 DEF TermRuns, Heap
<1> QED
  BY <1>1, <1>4, <1>5
     DEF Inductive, BlocksDisjoint, BlocksMapped, OwnedIsTaken, LiveHeap, Live,
         Cursors, SearchOnList, GoodAhead, HeapGone

LEMMA TermScanInductive ==
  ASSUME Inductive, TermScan
  PROVE  Inductive'
<1>0. HDR \in Nat \ {0}
  BY LayoutAssumption
<1>1. /\ pc = "term" /\ pc' = pc /\ cur \in DOMAIN hdr
      /\ len' = len + HDR + hdr[cur].cap /\ cur' = hdr[cur].next
      /\ cur' # NULL /\ cur' = cur + HDR + hdr[cur].cap
      /\ hdr' = hdr /\ listed' = listed /\ mapped' = mapped /\ owned' = owned
      /\ start' = start /\ last' = last /\ req' = req /\ epoch' = epoch
      /\ before' = before
  BY DEF TermScan, RunGoesOn, blocks_continuous, block_after
<1>2. /\ cur \in Nat /\ hdr[cur].cap \in Nat /\ cur' \in Nat
      /\ start \in Nat /\ len \in Nat
  BY <1>1 DEF Inductive, TypeOK, Header
<1>3. TypeOK'
  BY <1>0, <1>1, <1>2 DEF Inductive, TypeOK
<1>4. TermRuns'
  <2>1. start' + len' = cur'
    BY <1>0, <1>1, <1>2 DEF Inductive, TermRuns
  <2>2. start' \in DOMAIN hdr'
    BY <1>1 DEF Inductive, TermRuns
  <2>3. cur' \in DOMAIN hdr' \/ cur' \notin mapped'
    BY <1>1 DEF Inductive, TermRuns
  <2> QED
    BY <1>1, <2>1, <2>2, <2>3 DEF Inductive, TermRuns
<1> QED
  BY <1>1, <1>3, <1>4
     DEF Inductive, BlocksDisjoint, BlocksMapped, OwnedIsTaken, LiveHeap, Live,
         Cursors, SearchOnList, GoodAhead, HeapGone

(* munmap of a run: a block that keeps its header keeps its contents,      *)
(* because no block reaches across the start of the run.                   *)
LEMMA TermUnmapInductive ==
  ASSUME Inductive, TermUnmap
  PROVE  Inductive'
<1>0. HDR \in Nat \ {0} /\ LIMIT \in Nat /\ WORD \in Nat /\ PAGE \in Nat \ {0}
      /\ MINCAP \in Nat \ {0} /\ LIMIT + HDR + PAGE + MINCAP <= WORD
      /\ HEAPSTART \in Nat
  BY LayoutAssumption
<1> DEFINE run  == len + HDR + hdr[cur].cap
           size == round_pages(run)
           gone == Extent(start, size)
           left == IF hdr[cur].next = NULL THEN {} ELSE DOMAIN hdr \ gone
<1>1. /\ pc = "term" /\ cur \in DOMAIN hdr
      /\ mapped' = mapped \ gone
      /\ hdr' = [x \in left |-> hdr[x]]
      /\ listed' = listed \cap left
      /\ pc' = (IF hdr[cur].next = NULL THEN "off" ELSE "term")
      /\ cur' = hdr[cur].next /\ start' = hdr[cur].next /\ len' = 0
      /\ owned' = owned /\ last' = last /\ req' = req /\ epoch' = epoch
      /\ before' = before
  BY DEF TermUnmap
<1>2. /\ start \in Nat /\ len \in Nat /\ cur \in Nat /\ start + len = cur
      /\ hdr[cur].cap \in Nat /\ hdr[cur].next \in Nat
      /\ cur + HDR + hdr[cur].cap <= LIMIT
      /\ DOMAIN owned = {}
      /\ start \in DOMAIN hdr
      /\ start = HEAPSTART \/ HEAPSTART \notin mapped
      /\ TypeOK /\ BlocksMapped /\ BlocksDisjoint
  <2>1. TypeOK /\ BlocksMapped /\ BlocksDisjoint /\ TermRuns
    BY DEF Inductive
  <2>2. cur \in Nat /\ hdr[cur].cap \in Nat /\ cur + HDR + hdr[cur].cap <= LIMIT
    BY <1>1, <2>1, BlockBelowLimit
  <2> QED
    BY <1>1, <2>1, <2>2 DEF TypeOK, TermRuns, Header
<1>3. run \in Nat /\ run >= 1 /\ size \in Nat /\ size >= 1
  <2>1. run \in Nat /\ run >= 1 /\ run + PAGE < WORD
    BY <1>0, <1>2
  <2> HIDE DEF run
  <2>2. size \in Nat /\ size >= run
    BY <2>1, RoundPages
  <2> QED
    BY <2>1, <2>2
<1> HIDE DEF size, run
<1>4. start \in gone /\ \A x \in Nat : x \in gone <=> start <= x /\ x < start + size
  BY <1>2, <1>3 DEF Extent
<1> HIDE DEF gone
<1>5. /\ DOMAIN hdr' = left /\ left \subseteq DOMAIN hdr
      /\ \A x \in left : x \notin gone
      /\ \A x \in left : hdr'[x] = hdr[x]
  BY <1>1
<1> HIDE DEF left
<1>6. TypeOK'
  <2>1. mapped' \subseteq 1 .. (LIMIT - 1)
    BY <1>1, <1>2 DEF TypeOK
  <2>2. DOMAIN hdr' \subseteq Nat \ {NULL} /\ hdr' \in [DOMAIN hdr' -> Header]
    <3>1. \A x \in left : hdr'[x] \in Header
      BY <1>2, <1>5 DEF TypeOK
    <3> QED
      BY <3>1, <1>1, <1>2, <1>5 DEF TypeOK
  <2>3. listed' \subseteq DOMAIN hdr'
    BY <1>1, <1>5
  <2> QED
    BY <2>1, <2>2, <2>3, <1>1, <1>2 DEF TypeOK, PCs
<1>7. BlocksDisjoint'
  BY <1>2, <1>5 DEF BlocksDisjoint, Disjoint, block_after
<1>8. BlocksMapped'
  <2> SUFFICES ASSUME NEW x \in left, NEW y \in Bytes(hdr', x)
               PROVE  y \in mapped'
    BY <1>5 DEF BlocksMapped
  <2>1. x \in DOMAIN hdr /\ x \notin gone /\ hdr'[x] = hdr[x]
    BY <1>5
  <2>2. /\ x \in Nat /\ hdr[x].cap \in Nat
        /\ \A z \in Nat : x <= z /\ z < x + HDR + hdr[x].cap => z \in mapped
    BY <1>2, <2>1, BlockBelowLimit
  <2>3. y \in Nat /\ x <= y /\ y < x + HDR + hdr[x].cap
    BY <1>0, <2>1, <2>2 DEF Bytes, block_after
  <2>4. y \notin gone
    <3>1. CASE x < start
      <4>1. x + HDR + hdr[x].cap <= start
        BY <1>2, <2>1, <3>1 DEF BlocksDisjoint, Disjoint, block_after
      <4> QED
        BY <4>1, <1>0, <1>2, <1>4, <2>2, <2>3
    <3>2. CASE x >= start
      BY <3>2, <1>2, <1>3, <1>4, <2>1, <2>2, <2>3
    <3> QED
      BY <3>1, <3>2, <1>2, <2>2
  <2> QED
    BY <1>1, <2>2, <2>3, <2>4
<1>9. HEAPSTART \notin mapped'
  BY <1>1, <1>2, <1>4
<1>10. TermRuns'
  <2> SUFFICES ASSUME hdr[cur].next # NULL PROVE TermRuns'
    BY <1>1 DEF TermRuns
  <2>1. left = DOMAIN hdr \ gone
    BY DEF left
  <2>2. \A a \in DOMAIN hdr : \/ hdr[a].next = NULL
                              \/ hdr[a].next \in DOMAIN hdr
                              \/ hdr[a].next \notin mapped
    BY <1>1 DEF Inductive, TermRuns
  <2>3. \A a \in DOMAIN hdr : \/ hdr[a].next = NULL
                              \/ hdr[a].next \in left
                              \/ hdr[a].next \notin mapped'
    BY <2>1, <2>2, <1>1
  <2>4. cur' \in left \/ cur' \notin mapped'
    BY <2>3, <1>1
  <2>5. start' + len' = cur'
    BY <1>1, <1>2
  <2> QED
    BY <2>3, <2>4, <2>5, <1>1, <1>2, <1>5, <1>9 DEF TermRuns
<1>11. HeapGone'
  BY <1>1, <1>2, <1>5, <1>9 DEF HeapGone, left
<1>12. OwnedIsTaken'
  BY <1>1, <1>2 DEF OwnedIsTaken
<1> QED
  BY <1>1, <1>6, <1>7, <1>8, <1>10, <1>11, <1>12
     DEF Inductive, LiveHeap, Live, Cursors, SearchOnList, GoodAhead

(* The heap grows by a block that is large enough, on the list.            *)
LEMMA GrowInductive ==
  ASSUME Inductive, Grow
  PROVE  Inductive'
<1>0. /\ HDR \in Nat \ {0} /\ PAGE \in Nat /\ WORD \in Nat /\ LIMIT \in Nat
      /\ HEAPSTART \in Nat \ {0}
  BY LayoutAssumption
<1>1. /\ pc = "grow" /\ pc' = "refind" /\ cur' = HEAPSTART /\ last' = HEAPSTART
      /\ owned' = owned /\ req' = req /\ start' = start /\ len' = len
      /\ epoch' = epoch /\ before' = before
  BY DEF Grow
<1>2. PICK r \in alloc_region(block_after(hdr, last), SizeFromCapacity(Query)) :
        /\ mapped' = mapped \cup Extent(r.addr, r.size)
        /\ IF r.extends /\ CanMerge(Linked(hdr, last, r), last)
           THEN /\ hdr' = Merged(Linked(hdr, last, r), last)
                /\ listed' = UpTo(hdr, listed, last)
           ELSE /\ hdr' = Linked(hdr, last, r)
                /\ listed' = UpTo(hdr, listed, last) \cup {r.addr}
  BY DEF Grow
<1>3. /\ Heap(hdr, listed, mapped) /\ last \in listed /\ last \in DOMAIN hdr
      /\ Fits(req) /\ req \in Nat
      /\ \A x \in DOMAIN hdr : hdr[x].free \/ x \in DOMAIN owned
  BY <1>1 DEF Inductive, LiveHeap, Live, Cursors, Heap, TypeOK
<1>4. Query \in Nat /\ Query + HDR + HDR + PAGE < WORD
  BY <1>3, QueryFits DEF Fits
<1>5. SizeFromCapacity(Query) = Query + HDR
  BY <1>0, <1>4 DEF SizeFromCapacity, Wrap
<1>6. block_after(hdr, last) \in Nat
  BY <1>0, <1>3 DEF Heap, Header, block_after
<1>7. /\ r.addr \in Nat \ {NULL} /\ r.size \in Nat
      /\ r.size >= Query + HDR + HDR
      /\ r.addr + r.size <= LIMIT
      /\ Extent(r.addr, r.size) \cap mapped = {}
  <2>1. Query + HDR \in Nat /\ (Query + HDR) + HDR + PAGE < WORD
    BY <1>0, <1>4
  <2>2. r \in alloc_region(block_after(hdr, last), Query + HDR)
    BY <1>2, <1>5
  <2>3. r.size >= (Query + HDR) + HDR
    BY <2>1, <2>2, <1>6, AllocRegion
  <2> QED
    BY <2>1, <2>2, <2>3, <1>6, AllocRegion
<1> DEFINE b == r.addr
           g == Linked(hdr, last, r)
           U == UpTo(hdr, listed, last)
           T == mapped \cup Extent(b, r.size)
<1>8. r.size >= HDR
  BY <1>0, <1>4, <1>7
<1>9. /\ Heap(g, U \cup {b}, T)
      /\ b \notin DOMAIN hdr
      /\ DOMAIN g = DOMAIN hdr \cup {b}
      /\ g[b] = Fresh(r.size, hdr[last].reg + 1)
      /\ g[last] = [hdr[last] EXCEPT !.next = b]
      /\ \A x \in DOMAIN hdr \ {last} : g[x] = hdr[x]
      /\ HEAPSTART \in U
  BY <1>3, <1>7, <1>8, GrowKeepsHeap
<1> HIDE DEF g, U, T
<1>10. /\ g[b].free /\ g[b].cap >= Query /\ g[b].cap \in Nat
       /\ g[last].next = b /\ g[last].free = hdr[last].free
       /\ g[last].cap = hdr[last].cap
       /\ last \in DOMAIN g /\ last # b /\ last \in U
  <2>1. g[b].free /\ g[b].cap = r.size - HDR
    BY <1>9 DEF Fresh
  <2>2. hdr[last] \in Header
    BY <1>3 DEF Heap
  <2>3. last \in U
    BY <1>3 DEF U, UpTo
  <2> QED
    BY <2>1, <2>2, <2>3, <1>0, <1>3, <1>4, <1>7, <1>9 DEF Header
<1>11. U \subseteq DOMAIN hdr
  BY <1>3 DEF U, UpTo, Heap
<1>12. T \subseteq 1 .. (LIMIT - 1) /\ mapped' = T
  BY <1>0, <1>2, <1>7 DEF Inductive, TypeOK, Extent, NULL, T
<1>13. /\ Heap(hdr', listed', mapped')
       /\ HEAPSTART \in listed'
       /\ \E t \in listed' : hdr'[t].free /\ hdr'[t].cap >= Query
       /\ \A x \in DOMAIN hdr' : hdr'[x].free \/ x \in DOMAIN owned
       /\ OwnedIsTaken'
  <2>1. CASE r.extends /\ CanMerge(g, last)
    <3>1. hdr' = Merged(g, last) /\ listed' = U
      BY <1>2, <2>1 DEF g, U
    <3>2. (U \cup {b}) \ {g[last].next} = U
      BY <1>9, <1>10, <1>11
    <3>3. Heap(Merged(g, last), (U \cup {b}) \ {g[last].next}, T)
      BY <1>9, <1>10, <2>1, MergeKeepsHeap
    <3>4. Heap(hdr', listed', mapped')
      BY <3>1, <3>2, <3>3, <1>12
    <3>5. /\ DOMAIN hdr' = DOMAIN hdr
          /\ hdr'[last].free /\ hdr'[last].cap >= g[b].cap
          /\ hdr[last].free
          /\ \A x \in DOMAIN hdr \ {last} : hdr'[x] = hdr[x]
      <4>1. g[g[last].next].free /\ g[last].free
            /\ hdr'[last].free /\ hdr'[last].cap >= g[g[last].next].cap
        BY <3>1, <1>9, <1>10, <2>1, MergeFacts
      <4>2. DOMAIN hdr' = DOMAIN hdr
        BY <3>1, <1>9, <1>10 DEF Merged, MergedInto
      <4>3. \A x \in DOMAIN hdr' \ {last} : hdr'[x] = g[x]
        BY <3>1 DEF Merged, MergedInto
      <4> QED
        BY <4>1, <4>2, <4>3, <1>9, <1>10
    <3>6. hdr'[last].cap >= Query
      <4>1. hdr'[last].cap \in Nat
        BY <3>4, <3>5, <1>3 DEF Heap, Header
      <4> QED
        BY <4>1, <3>5, <1>4, <1>10
    <3>7. OwnedIsTaken'
      BY <3>5, <1>1 DEF Inductive, OwnedIsTaken
    <3> QED
      BY <3>1, <3>4, <3>5, <3>6, <3>7, <1>3, <1>9, <1>10
  <2>2. CASE ~(r.extends /\ CanMerge(g, last))
    <3>1. hdr' = g /\ listed' = U \cup {b}
      BY <1>2, <2>2 DEF g, U
    <3>2. OwnedIsTaken'
      BY <3>1, <1>1, <1>3, <1>9, <1>10 DEF Inductive, OwnedIsTaken
    <3>3. \A x \in DOMAIN hdr' : hdr'[x].free \/ x \in DOMAIN owned
      BY <3>1, <1>3, <1>9, <1>10
    <3> QED
      BY <3>1, <3>2, <3>3, <1>9, <1>10, <1>12
  <2> QED
    BY <2>1, <2>2
<1>14. TypeOK'
  BY <1>0, <1>1, <1>12, <1>13 DEF Inductive, TypeOK, PCs, Heap
<1>15. BlocksDisjoint' /\ BlocksMapped'
  BY <1>13 DEF Heap, BlocksDisjoint, BlocksMapped
<1>16. LiveHeap'
  BY <1>1, <1>13 DEF LiveHeap
<1>17. SearchOnList' /\ GoodAhead'
  <2>1. PICK t \in listed' : hdr'[t].free /\ hdr'[t].cap >= Query
    BY <1>13
  <2>2. t = HEAPSTART \/ Precedes(hdr', HEAPSTART, t)
    BY <1>13 DEF Heap, Chain
  <2> QED
    BY <2>1, <2>2, <1>1, <1>3, <1>13 DEF SearchOnList, GoodAhead, Query
<1> QED
  BY <1>1, <1>13, <1>14, <1>15, <1>16, <1>17
     DEF Inductive, Cursors, TermRuns, HeapGone

-----------------------------------------------------------------------------
LEMMA StepInductive ==
  ASSUME Inductive, ArgumentsFit, [Next]_vars
  PROVE  Inductive'
<1>1. ASSUME NEW n \in Initials, HeapInit(n) PROVE Inductive'
  BY <1>1, HeapInitInductive
<1>2. CASE HeapInitFails
  BY <1>2, HeapInitFailsInductive
<1>3. ASSUME NEW q \in Queries, Malloc(q) PROVE Inductive'
  BY <1>3, MallocInductive
<1>4. ASSUME NEW a \in DOMAIN owned, Free(a) PROVE Inductive'
  BY <1>4, FreeInductive
<1>5. CASE HeapTerm
  BY <1>5, HeapTermInductive
<1>6. CASE FindTaken
  BY <1>6, FindTakenInductive
<1>7. CASE FindMerge
  BY <1>7, FindMergeInductive
<1>8. CASE FindTooSmall
  BY <1>8, FindTooSmallInductive
<1>9. CASE FindGood
  BY <1>9, FindGoodInductive
<1>10. CASE FindEnd
  BY <1>10, FindEndInductive
<1>11. CASE Grow
  BY <1>11, GrowInductive
<1>12. CASE GrowFails
  BY <1>12, GrowFailsInductive
<1>13. CASE RefindEnd
  BY <1>13, RefindEndImpossible
<1>14. CASE CoalesceMerge
  BY <1>14, CoalesceMergeInductive
<1>15. CASE CoalesceEnd
  BY <1>15, CoalesceEndInductive
<1>16. CASE TermScan
  BY <1>16, TermScanInductive
<1>17. CASE TermUnmap
  BY <1>17, TermUnmapInductive
<1>18. CASE ForeignHeader
  BY <1>18, ForeignHeaderImpossible
<1>19. CASE Segv
  BY <1>19, SegvInductive
<1>21. CASE NoHeapInit
  BY <1>21, NoHeapInitInductive
<1>20. CASE UNCHANGED vars
  BY <1>20
     DEF vars, Inductive, TypeOK, BlocksDisjoint, BlocksMapped, OwnedIsTaken,
         LiveHeap, Live, Cursors, SearchOnList, GoodAhead, Query, TermRuns,
         HeapGone
<1> QED
  BY <1>1, <1>2, <1>3, <1>4, <1>5, <1>6, <1>7, <1>8, <1>9, <1>10, <1>11, <1>12,
     <1>13, <1>14, <1>15, <1>16, <1>17, <1>18, <1>19, <1>20, <1>21
     DEF Next, Call, Internal

(* The inductive invariant holds of mem.c if nobody else maps HEAP_START   *)
(* and no size wraps around.                                               *)
THEOREM InductiveHolds ==
  ASSUME HeapStartIsFree, ArgumentsFit
  PROVE  Spec => []Inductive
<1>1. Init => Inductive
  BY InitInductive
<1>2. Inductive /\ [Next]_vars => Inductive'
  BY StepInductive
<1> QED
  BY <1>1, <1>2, PTL DEF Spec

(* The variables keep their types.                                         *)
THEOREM TypeCorrect ==
  ASSUME HeapStartIsFree, ArgumentsFit
  PROVE  Spec => []TypeOK
<1>1. Inductive => TypeOK
  BY DEF Inductive
<1> QED
  BY <1>1, InductiveHolds, PTL

(* No two blocks overlap and every block lies in mapped memory, whatever   *)
(* is split, merged, linked and unmapped (mem.c:72-129, 173-185, 220-240). *)
THEOREM HeapStaysWhole ==
  ASSUME HeapStartIsFree, ArgumentsFit
  PROVE  Spec => []HeapWhole
<1>1. Inductive => HeapWhole
  BY DEF Inductive, HeapWhole
<1> QED
  BY <1>1, InductiveHolds, PTL

(* What _malloc has handed out is a taken block with room for the request  *)
(* until it is freed (mem.c:188-206, 242-249).                             *)
THEOREM OwnedStaysTaken ==
  ASSUME HeapStartIsFree, ArgumentsFit
  PROVE  Spec => []OwnedIsTaken
<1>1. Inductive => OwnedIsTaken
  BY DEF Inductive
<1> QED
  BY <1>1, InductiveHolds, PTL

(* After grow_heap the second search finds a block, so that memalloc       *)
(* (mem.c:205) need not look at the type of its result.                    *)
THEOREM SecondSearchFinds ==
  ASSUME HeapStartIsFree, ArgumentsFit
  PROVE  Spec => []GrowSuffices
<1>1. Inductive => GrowSuffices
  BY DEF Inductive, Cursors, GoodAhead, GrowSuffices, TypeOK, NULL
<1> QED
  BY <1>1, InductiveHolds, PTL

(* The list of HEAP_START is a chain without a cycle (mem.c:141-157).      *)
THEOREM ListStaysChain ==
  ASSUME HeapStartIsFree, ArgumentsFit
  PROVE  Spec => []ListIsChain
<1>1. Inductive => ListIsChain
  BY DEF Inductive, LiveHeap, Live, Heap, ListIsChain, TypeOK, PCs
<1> QED
  BY <1>1, InductiveHolds, PTL

-----------------------------------------------------------------------------
(* Blocks fill the regions: no step leaves a byte between two blocks.      *)

Filled(h, B) == \A x \in B : \E a \in DOMAIN h : x \in Bytes(h, a)

(* A merged block covers the two it was made of, and the rest stays.       *)
LEMMA MergeFills ==
  ASSUME NEW h, NEW L, NEW M, Heap(h, L, M), NEW a \in DOMAIN h,
         CanMerge(h, a), NEW B, Filled(h, B)
  PROVE  Filled(Merged(h, a), B)
<1> DEFINE b == h[a].next
           g == Merged(h, a)
<1>0. HDR \in Nat \ {0}
  BY LayoutAssumption
<1>1. /\ b \in DOMAIN h /\ b # a /\ b = a + HDR + h[a].cap
      /\ h[a] \in Header /\ h[b] \in Header /\ a \in Nat /\ b \in Nat
  BY MergeFacts DEF Heap, CanMerge, mergeable, blocks_continuous, block_after
<1>2. /\ DOMAIN g = DOMAIN h \ {b}
      /\ g[a].cap = h[a].cap + HDR + h[b].cap
      /\ \A x \in DOMAIN g \ {a} : g[x] = h[x]
  BY <1>1 DEF Merged, MergedInto
<1> HIDE DEF g
<1>3. Bytes(h, a) \subseteq Bytes(g, a) /\ Bytes(h, b) \subseteq Bytes(g, a)
  BY <1>0, <1>1, <1>2 DEF Bytes, block_after, Header
<1>4. \A x \in DOMAIN h \ {a, b} : Bytes(g, x) = Bytes(h, x)
  BY <1>2 DEF Bytes, block_after
<1> QED
  BY <1>1, <1>2, <1>3, <1>4 DEF Filled, g

(* A block that is split covers with its remainder what it covered.        *)
LEMMA TakeFills ==
  ASSUME NEW h, NEW L, NEW M, Heap(h, L, M), NEW a \in L,
         NEW q \in Nat, h[a].cap >= q, q + HDR + MINCAP < WORD,
         NEW B, Filled(h, B)
  PROVE  Filled(Taken(h, a, q), B)
<1> DEFINE b == a + HDR + q
           g == Taken(h, a, q)
<1>0. HDR \in Nat \ {0} /\ MINCAP \in Nat \ {0} /\ WORD \in Nat
  BY LayoutAssumption
<1>1. a \in DOMAIN h /\ a \in Nat /\ h[a] \in Header
  BY DEF Heap
<1>2. /\ DOMAIN h \subseteq DOMAIN Taken(h, a, q)
      /\ \A x \in DOMAIN h \ {a} : Taken(h, a, q)[x] = h[x]
  <2>1. /\ Heap(Taken(h, a, q), L \cup (DOMAIN Taken(h, a, q) \ DOMAIN h), M)
        /\ DOMAIN h \subseteq DOMAIN Taken(h, a, q)
        /\ ~Taken(h, a, q)[a].free /\ Taken(h, a, q)[a].cap >= q
        /\ \A x \in DOMAIN h \ {a} : Taken(h, a, q)[x] = h[x]
        /\ \A x \in DOMAIN Taken(h, a, q) \ DOMAIN h : Taken(h, a, q)[x].free
    BY TakeKeepsHeap
  <2> QED
    BY <2>1
<1>3. \A x \in DOMAIN h \ {a} : Bytes(g, x) = Bytes(h, x)
  BY <1>2 DEF Bytes, block_after
<1>4. CASE ~block_splittable(h, a, q)
  <2>1. g[a].cap = h[a].cap
    BY <1>1, <1>4 DEF Taken, Header
  <2>2. Bytes(g, a) = Bytes(h, a)
    BY <2>1 DEF Bytes, block_after
  <2> QED
    BY <2>2, <1>1, <1>2, <1>3 DEF Filled
<1>5. CASE block_splittable(h, a, q)
  <2>1. /\ b \in DOMAIN g /\ b # a
        /\ g[a].cap = q /\ g[b].cap = h[a].cap - q - HDR
    BY <1>0, <1>1, <1>5 DEF Taken
  <2>2. Bytes(h, a) \subseteq Bytes(g, a) \cup Bytes(g, b)
    BY <2>1, <1>0, <1>1 DEF Bytes, block_after, Header
  <2> HIDE DEF b
  <2> QED
    BY <2>1, <2>2, <1>1, <1>2, <1>3 DEF Filled
<1> QED
  BY <1>4, <1>5

(* The region that is linked is one block.                                 *)
LEMMA LinkFills ==
  ASSUME NEW h, NEW L, NEW M, Heap(h, L, M), NEW a \in L, NEW r,
         r.addr \in Nat \ {NULL}, r.size \in Nat, r.size >= HDR,
         Extent(r.addr, r.size) \cap M = {},
         NEW B, Filled(h, B)
  PROVE  Filled(Linked(h, a, r), B \cup Extent(r.addr, r.size))
<1> DEFINE g == Linked(h, a, r)
<1>0. HDR \in Nat \ {0}
  BY LayoutAssumption
<1>1. /\ DOMAIN g = DOMAIN h \cup {r.addr} /\ r.addr \notin DOMAIN h
      /\ g[r.addr] = Fresh(r.size, h[a].reg + 1)
      /\ g[a] = [h[a] EXCEPT !.next = r.addr]
      /\ \A x \in DOMAIN h \ {a} : g[x] = h[x]
  <2>1. /\ Heap(g, UpTo(h, L, a) \cup {r.addr}, M \cup Extent(r.addr, r.size))
        /\ r.addr \notin DOMAIN h
        /\ DOMAIN g = DOMAIN h \cup {r.addr}
        /\ g[r.addr] = Fresh(r.size, h[a].reg + 1)
        /\ g[a] = [h[a] EXCEPT !.next = r.addr]
        /\ \A x \in DOMAIN h \ {a} : g[x] = h[x]
        /\ HEAPSTART \in UpTo(h, L, a)
    BY GrowKeepsHeap
  <2> HIDE DEF g
  <2> QED
    BY <2>1
<1>2. g[r.addr].cap = r.size - HDR /\ g[a].cap = h[a].cap
  <2>1. a \in DOMAIN h /\ h[a] \in Header
    BY DEF Heap
  <2> QED
    BY <2>1, <1>1 DEF Fresh, Header
<1> HIDE DEF g
<1>3. Bytes(g, r.addr) = Extent(r.addr, r.size)
  BY <1>0, <1>2 DEF Bytes, block_after, Extent
<1>4. \A x \in DOMAIN h : Bytes(g, x) = Bytes(h, x)
  BY <1>1, <1>2 DEF Bytes, block_after
<1> QED
  BY <1>1, <1>3, <1>4 DEF Filled, g

LEMMA GrowFills ==
  ASSUME Inductive, Grow, BlocksFillRegions
  PROVE  BlocksFillRegions'
<1>0. /\ HDR \in Nat \ {0} /\ PAGE \in Nat /\ WORD \in Nat
      /\ Heap(hdr, listed, mapped) /\ last \in listed /\ last \in DOMAIN hdr
      /\ Fits(req) /\ req \in Nat /\ pc = "grow" /\ before' = before
  BY LayoutAssumption DEF Grow, Inductive, LiveHeap, Live, Cursors, Heap, TypeOK
<1>1. Query \in Nat /\ Query + HDR + HDR + PAGE < WORD
  BY <1>0, QueryFits DEF Fits
<1>2. SizeFromCapacity(Query) = Query + HDR
  BY <1>0, <1>1 DEF SizeFromCapacity, Wrap
<1>3. PICK r \in alloc_region(block_after(hdr, last), Query + HDR) :
        /\ mapped' = mapped \cup Extent(r.addr, r.size)
        /\ hdr' = (IF r.extends /\ CanMerge(Linked(hdr, last, r), last)
                   THEN Merged(Linked(hdr, last, r), last)
                   ELSE Linked(hdr, last, r))
  BY <1>2 DEF Grow
<1>4. block_after(hdr, last) \in Nat
  BY <1>0 DEF Heap, Header, block_after
<1>5. /\ r.addr \in Nat \ {NULL} /\ r.size \in Nat /\ r.size >= HDR
      /\ Extent(r.addr, r.size) \cap mapped = {}
  <2>1. Query + HDR \in Nat /\ (Query + HDR) + HDR + PAGE < WORD
    BY <1>0, <1>1
  <2>2. /\ r.addr \in Nat \ {NULL} /\ r.size \in Nat
        /\ r.size >= (Query + HDR) + HDR
        /\ Extent(r.addr, r.size) \cap mapped = {}
    BY <2>1, <1>3, <1>4, AllocRegion
  <2> QED
    BY <2>2, <1>0, <1>1
<1> DEFINE g == Linked(hdr, last, r)
           T == mapped \cup Extent(r.addr, r.size)
           B == mapped \ before
<1>6. Filled(hdr, B)
  BY <1>0 DEF BlocksFillRegions, Filled
<1>7. /\ Heap(g, UpTo(hdr, listed, last) \cup {r.addr}, T)
      /\ last \in DOMAIN g
  <2>1. /\ Heap(g, UpTo(hdr, listed, last) \cup {r.addr}, T)
        /\ r.addr \notin DOMAIN hdr
        /\ DOMAIN g = DOMAIN hdr \cup {r.addr}
        /\ g[r.addr] = Fresh(r.size, hdr[last].reg + 1)
        /\ g[last] = [hdr[last] EXCEPT !.next = r.addr]
        /\ \A x \in DOMAIN hdr \ {last} : g[x] = hdr[x]
        /\ HEAPSTART \in UpTo(hdr, listed, last)
    BY <1>0, <1>5, GrowKeepsHeap
  <2> QED
    BY <2>1, <1>0
<1>8. Filled(g, B \cup Extent(r.addr, r.size))
  BY <1>0, <1>5, <1>6, LinkFills
<1>9. CanMerge(g, last) => Filled(Merged(g, last), B \cup Extent(r.addr, r.size))
  BY <1>7, <1>8, MergeFills
<1>10. Filled(hdr', B \cup Extent(r.addr, r.size))
  BY <1>3, <1>8, <1>9
<1> QED
  BY <1>0, <1>3, <1>10 DEF BlocksFillRegions, Filled

LEMMA StepFills ==
  ASSUME Inductive, ArgumentsFit, [Next]_vars, BlocksFillRegions
  PROVE  BlocksFillRegions'
<1>1. ASSUME NEW n \in Initials, HeapInit(n) PROVE BlocksFillRegions'
  <2>1. PICK r \in alloc_region(HEAPSTART, n) :
          /\ mapped' = mapped \cup Extent(r.addr, r.size)
          /\ hdr' = [x \in {r.addr} |-> Fresh(r.size, 0)]
    BY <1>1 DEF HeapInit
  <2>2. before' = mapped
    BY <1>1 DEF HeapInit
  <2>3. HDR \in Nat /\ PAGE \in Nat /\ WORD \in Nat /\ HEAPSTART \in Nat
    BY LayoutAssumption
  <2>4. n \in Nat /\ n + HDR + PAGE < WORD
    BY <2>3, InputAssumption DEF ArgumentsFit, Fits
  <2>5. r.addr \in Nat /\ r.size \in Nat
    BY <2>1, <2>3, <2>4, AllocRegion
  <2>6. Bytes(hdr', r.addr) = Extent(r.addr, r.size) /\ r.addr \in DOMAIN hdr'
    BY <2>1, <2>3, <2>5 DEF Bytes, block_after, Extent, Fresh
  <2> QED
    BY <2>1, <2>2, <2>6 DEF BlocksFillRegions
<1>2. CASE HeapInitFails
  BY <1>2 DEF HeapInitFails, BlocksFillRegions
<1>21. CASE NoHeapInit
  <2>1. mapped' = mapped /\ before' = mapped
    BY <1>21 DEF NoHeapInit
  <2> QED
    BY <2>1 DEF BlocksFillRegions
<1>3. ASSUME NEW q \in Queries, Malloc(q) PROVE BlocksFillRegions'
  BY <1>3 DEF Malloc, BlocksFillRegions, Bytes, block_after
<1>4. ASSUME NEW a \in DOMAIN owned, Free(a) PROVE BlocksFillRegions'
  <2>1. /\ hdr' = [hdr EXCEPT ![a].free = TRUE] /\ pc = "idle"
        /\ a \in DOMAIN hdr /\ mapped' = mapped /\ before' = before
    BY <1>4 DEF Free
  <2>2. hdr \in [DOMAIN hdr -> Header]
    BY DEF Inductive, TypeOK
  <2>3. DOMAIN hdr' = DOMAIN hdr /\ \A x \in DOMAIN hdr : hdr'[x].cap = hdr[x].cap
    BY <2>1, <2>2 DEF Header
  <2> QED
    BY <2>1, <2>3 DEF BlocksFillRegions, Bytes, block_after
<1>5. CASE HeapTerm
  BY <1>5 DEF HeapTerm, BlocksFillRegions
<1>6. CASE FindTaken
  BY <1>6 DEF FindTaken, Searching, BlocksFillRegions, Bytes, block_after
<1>7. CASE FindMerge
  <2>1. Heap(hdr, listed, mapped)
    BY <1>7, SearchingOnList DEF FindMerge
  <2>2. /\ hdr' = Merged(hdr, cur) /\ mapped' = mapped /\ before' = before
        /\ CanMerge(hdr, cur) /\ cur \in DOMAIN hdr /\ pc \in {"find", "refind"}
    BY <1>7 DEF FindMerge, Searching
  <2>3. Filled(hdr, mapped \ before)
    BY <2>2 DEF BlocksFillRegions, Filled
  <2> QED
    BY <2>1, <2>2, <2>3, MergeFills DEF BlocksFillRegions, Filled
<1>8. CASE FindTooSmall
  BY <1>8 DEF FindTooSmall, Searching, BlocksFillRegions, Bytes, block_after
<1>9. CASE FindGood
  <2>1. /\ Heap(hdr, listed, mapped) /\ cur \in listed
        /\ Fits(req) /\ req \in Nat
    BY <1>9, SearchingOnList DEF FindGood
  <2>2. /\ hdr' = Taken(hdr, cur, Query) /\ mapped' = mapped /\ before' = before
        /\ hdr[cur].cap >= Query /\ pc \in {"find", "refind"}
    BY <1>9 DEF FindGood, Searching
  <2>3. Query \in Nat /\ Query + HDR + MINCAP < WORD
    <3>1. Query \in Nat /\ Fits(Query)
      BY <2>1, QueryFits
    <3>2. hdr[cur].cap \in Nat /\ cur + HDR + hdr[cur].cap <= LIMIT /\ cur \in Nat
      BY <2>1, BlockBelowLimit DEF Inductive, Heap
    <3> QED
      BY <3>1, <3>2, <2>2, LayoutAssumption DEF Fits
  <2>4. Filled(hdr, mapped \ before)
    BY <2>2 DEF BlocksFillRegions, Filled
  <2> QED
    BY <2>1, <2>2, <2>3, <2>4, TakeFills DEF BlocksFillRegions, Filled
<1>10. CASE FindEnd
  BY <1>10 DEF FindEnd, BlocksFillRegions, Bytes, block_after
<1>11. CASE Grow
  BY <1>11, GrowFills
<1>12. CASE GrowFails
  BY <1>12 DEF GrowFails, BlocksFillRegions, Bytes, block_after
<1>13. CASE RefindEnd
  BY <1>13, RefindEndImpossible
<1>14. CASE CoalesceMerge
  <2>1. /\ hdr' = Merged(hdr, cur) /\ mapped' = mapped /\ before' = before
        /\ CanMerge(hdr, cur) /\ pc = "coalesce"
    BY <1>14 DEF CoalesceMerge
  <2>2. Heap(hdr, listed, mapped) /\ cur \in DOMAIN hdr
    BY <2>1 DEF Inductive, LiveHeap, Live, Cursors
  <2>3. Filled(hdr, mapped \ before)
    BY <2>1 DEF BlocksFillRegions, Filled
  <2> QED
    BY <2>1, <2>2, <2>3, MergeFills DEF BlocksFillRegions, Filled
<1>15. CASE CoalesceEnd
  BY <1>15 DEF CoalesceEnd, BlocksFillRegions, Bytes, block_after
<1>16. CASE TermScan
  BY <1>16 DEF TermScan, BlocksFillRegions
<1>17. CASE TermUnmap
  BY <1>17 DEF TermUnmap, BlocksFillRegions
<1>18. CASE ForeignHeader
  BY <1>18, ForeignHeaderImpossible
<1>19. CASE Segv
  BY <1>19 DEF Segv, BlocksFillRegions
<1>20. CASE UNCHANGED vars
  BY <1>20 DEF vars, BlocksFillRegions, Bytes, block_after
<1> QED
  BY <1>1, <1>2, <1>3, <1>4, <1>5, <1>6, <1>7, <1>8, <1>9, <1>10, <1>11, <1>12,
     <1>13, <1>14, <1>15, <1>16, <1>17, <1>18, <1>19, <1>20, <1>21
     DEF Next, Call, Internal

(* README.md:42 of the allocator: no byte of a region of the heap falls    *)
(* between two blocks, however often they are split (mem.c:72-95), merged  *)
(* (112-129) and linked (173-185).                                         *)
THEOREM BlocksKeepRegionsFull ==
  ASSUME HeapStartIsFree, ArgumentsFit
  PROVE  Spec => []BlocksFillRegions
<1>1. Init => BlocksFillRegions
  BY DEF Init, BlocksFillRegions
<1>2. Inductive /\ BlocksFillRegions /\ [Next]_vars => BlocksFillRegions'
  BY StepFills
<1> QED
  BY <1>1, <1>2, InductiveHolds, PTL DEF Spec

-----------------------------------------------------------------------------
(* The heap grows only when it must: what a search has passed is no good.  *)

Passed(h, c) ==
  \A a \in listed :
    h[a].free /\ (c = NULL \/ Precedes(h, a, c))
      => h[a].cap < Query /\ ~CanMerge(h, a)

PassedIsNoGood ==
  /\ pc = "find" => Passed(hdr, cur)
  /\ pc = "grow" => Passed(hdr, NULL)

(* A search that moves on from a block that is taken, or free and no good. *)
LEMMA MoveOn ==
  ASSUME Heap(hdr, listed, mapped), cur \in listed, Passed(hdr, cur),
         hdr[cur].free => hdr[cur].cap < Query /\ ~CanMerge(hdr, cur)
  PROVE  Passed(hdr, hdr[cur].next)
<1> SUFFICES ASSUME NEW a \in listed, hdr[a].free,
                    \/ hdr[cur].next = NULL
                    \/ Precedes(hdr, a, hdr[cur].next)
             PROVE  hdr[a].cap < Query /\ ~CanMerge(hdr, a)
  BY DEF Passed
<1>1. ~Precedes(hdr, cur, a)
  BY ChainStep
<1>2. a = cur \/ Precedes(hdr, a, cur)
  BY <1>1, Order
<1> QED
  BY <1>2 DEF Passed

LEMMA FindMergePasses ==
  ASSUME Inductive, FindMerge, Passed(hdr, cur)
  PROVE  Passed(hdr, cur)'
<1> DEFINE b == hdr[cur].next
<1>1. Heap(hdr, listed, mapped) /\ cur \in listed
  BY SearchingOnList DEF FindMerge
<1>2. /\ hdr' = Merged(hdr, cur) /\ listed' = listed \ {b}
      /\ cur' = cur /\ req' = req
      /\ CanMerge(hdr, cur) /\ cur \in DOMAIN hdr
  BY DEF FindMerge, Searching
<1>3. /\ DOMAIN hdr' = DOMAIN hdr \ {b} /\ b # cur /\ b # NULL
      /\ hdr[cur].free /\ hdr'[cur].free
      /\ \A x \in DOMAIN hdr' \ {cur} : hdr'[x] = hdr[x]
      /\ \A x, y \in DOMAIN hdr' : Precedes(hdr', x, y) <=> Precedes(hdr, x, y)
  <2>1. /\ DOMAIN hdr' = DOMAIN hdr \ {b} /\ b # cur
        /\ hdr[cur].free /\ hdr'[cur].free
        /\ \A x \in DOMAIN hdr' \ {cur} : hdr'[x] = hdr[x]
    BY <1>1, <1>2, MergeFacts
  <2>2. \A x, y \in DOMAIN hdr' : Precedes(hdr', x, y) <=> Precedes(hdr, x, y)
    BY <1>1, <1>2, MergeOrder
  <2> QED
    BY <2>1, <2>2, <1>2 DEF CanMerge
<1>4. listed \subseteq DOMAIN hdr /\ cur # NULL
  BY <1>1 DEF Heap
<1> SUFFICES ASSUME NEW a \in listed', hdr'[a].free,
                    cur = NULL \/ Precedes(hdr', a, cur)
             PROVE  hdr'[a].cap < Query' /\ ~CanMerge(hdr', a)
  BY <1>2 DEF Passed
<1>5. a \in listed /\ a \in DOMAIN hdr' /\ cur \in DOMAIN hdr' /\ a # b
  BY <1>2, <1>3, <1>4
<1>6. Precedes(hdr, a, cur)
  BY <1>3, <1>4, <1>5
<1>7. a # cur
  BY <1>1, <1>6, Order
<1>8. hdr'[a] = hdr[a]
  BY <1>3, <1>5, <1>7
<1>9. hdr[a].cap < Query /\ ~CanMerge(hdr, a)
  BY <1>5, <1>6, <1>8 DEF Passed
<1>10. ~CanMerge(hdr', a)
  <2> SUFFICES ASSUME hdr[a].next # NULL, hdr'[hdr[a].next].free,
                      hdr[a].next = block_after(hdr, a)
               PROVE  FALSE
    BY <1>8 DEF CanMerge, mergeable, blocks_continuous, block_after
  <2>1. hdr[a].next \in DOMAIN hdr /\ hdr[a].next # b
    BY <1>1, <1>3, <1>4, <1>5, <1>7 DEF Heap
  <2>2. hdr[hdr[a].next].free
    BY <2>1, <1>3
  <2> QED
    BY <2>2, <1>8, <1>9 DEF CanMerge, mergeable, blocks_continuous
<1> QED
  BY <1>2, <1>8, <1>9, <1>10 DEF Query

LEMMA StepPasses ==
  ASSUME Inductive, [Next]_vars, PassedIsNoGood
  PROVE  PassedIsNoGood'
<1>1. ASSUME NEW n \in Initials, HeapInit(n) PROVE PassedIsNoGood'
  BY <1>1 DEF HeapInit, PassedIsNoGood
<1>2. CASE HeapInitFails
  BY <1>2 DEF HeapInitFails, PassedIsNoGood
<1>3. ASSUME NEW q \in Queries, Malloc(q) PROVE PassedIsNoGood'
  <2>1. /\ pc = "idle" /\ pc' = "find" /\ cur' = HEAPSTART
        /\ hdr' = hdr /\ listed' = listed
    BY <1>3 DEF Malloc
  <2>2. Heap(hdr, listed, mapped)
    BY <2>1 DEF Inductive, LiveHeap, Live
  <2>3. \A a \in listed : ~Precedes(hdr, a, HEAPSTART)
    <3> SUFFICES ASSUME NEW a \in listed PROVE ~Precedes(hdr, a, HEAPSTART)
      OBVIOUS
    <3>1. HEAPSTART \in listed
      BY <2>2 DEF Heap, Chain
    <3>2. a = HEAPSTART \/ Precedes(hdr, HEAPSTART, a)
      BY <2>2 DEF Heap, Chain
    <3> QED
      BY <2>2, <3>1, <3>2, Order
  <2>4. HEAPSTART # NULL
    BY LayoutAssumption DEF NULL
  <2> QED
    BY <2>1, <2>3, <2>4 DEF PassedIsNoGood, Passed
<1>4. ASSUME NEW a \in DOMAIN owned, Free(a) PROVE PassedIsNoGood'
  BY <1>4 DEF Free, PassedIsNoGood
<1>5. CASE HeapTerm
  BY <1>5 DEF HeapTerm, PassedIsNoGood
<1>6. CASE FindTaken
  <2>1. /\ Searching /\ ~hdr[cur].free /\ cur' = hdr[cur].next /\ pc' = pc
        /\ hdr' = hdr /\ listed' = listed /\ req' = req /\ pc # "grow"
    BY <1>6 DEF FindTaken, Searching
  <2>2. pc = "find" => Passed(hdr, cur')
    BY <2>1, SearchingOnList, MoveOn DEF PassedIsNoGood
  <2> QED
    BY <2>1, <2>2 DEF PassedIsNoGood, Passed, Query
<1>7. CASE FindMerge
  <2>1. pc' = pc /\ cur' = cur /\ pc # "grow"
    BY <1>7 DEF FindMerge, Searching
  <2>2. pc = "find" => Passed(hdr, cur)'
    BY <1>7, FindMergePasses DEF PassedIsNoGood
  <2> QED
    BY <2>1, <2>2 DEF PassedIsNoGood, Passed
<1>8. CASE FindTooSmall
  <2>1. /\ Searching /\ cur' = hdr[cur].next /\ pc' = pc
        /\ ~CanMerge(hdr, cur) /\ hdr[cur].cap < Query
        /\ hdr' = hdr /\ listed' = listed /\ req' = req /\ pc # "grow"
    BY <1>8 DEF FindTooSmall, Searching
  <2>2. pc = "find" => Passed(hdr, cur')
    BY <2>1, SearchingOnList, MoveOn DEF PassedIsNoGood
  <2> QED
    BY <2>1, <2>2 DEF PassedIsNoGood, Passed, Query
<1>9. CASE FindGood
  BY <1>9 DEF FindGood, Return, PassedIsNoGood
<1>10. CASE FindEnd
  BY <1>10 DEF FindEnd, PassedIsNoGood, Passed, Query
<1>11. CASE Grow
  BY <1>11 DEF Grow, PassedIsNoGood
<1>12. CASE GrowFails
  BY <1>12 DEF GrowFails, Return, PassedIsNoGood
<1>13. CASE RefindEnd
  BY <1>13, RefindEndImpossible
<1>14. CASE CoalesceMerge
  BY <1>14 DEF CoalesceMerge, PassedIsNoGood
<1>15. CASE CoalesceEnd
  BY <1>15 DEF CoalesceEnd, Return, PassedIsNoGood
<1>16. CASE TermScan
  BY <1>16 DEF TermScan, PassedIsNoGood
<1>17. CASE TermUnmap
  BY <1>17 DEF TermUnmap, PassedIsNoGood
<1>18. CASE ForeignHeader
  BY <1>18, ForeignHeaderImpossible
<1>19. CASE Segv
  BY <1>19 DEF Segv, PassedIsNoGood
<1>20. CASE UNCHANGED vars
  BY <1>20 DEF vars, PassedIsNoGood, Passed, Query
<1>21. CASE NoHeapInit
  BY <1>21 DEF NoHeapInit, PassedIsNoGood
<1> QED
  BY <1>1, <1>2, <1>3, <1>4, <1>5, <1>6, <1>7, <1>8, <1>9, <1>10, <1>11, <1>12,
     <1>13, <1>14, <1>15, <1>16, <1>17, <1>18, <1>19, <1>20, <1>21
     DEF Next, Call, Internal

(* When mem.c:202 grows the heap, no listed free block can hold the        *)
(* request, not even merged with the block behind it.                      *)
THEOREM GrowsOnlyWhenNeeded ==
  ASSUME HeapStartIsFree, ArgumentsFit
  PROVE  Spec => []GrowOnlyWhenNeeded
<1>1. Init => PassedIsNoGood
  BY DEF Init, PassedIsNoGood
<1>2. Inductive /\ PassedIsNoGood /\ [Next]_vars => PassedIsNoGood'
  BY StepPasses
<1>3. PassedIsNoGood => GrowOnlyWhenNeeded
  BY DEF PassedIsNoGood, Passed, GrowOnlyWhenNeeded
<1> QED
  BY <1>1, <1>2, <1>3, InductiveHolds, PTL DEF Spec

-----------------------------------------------------------------------------
(* Pages: munmap in whole pages takes nothing but pages of the heap.       *)

LEMMA PageOf ==
  ASSUME NEW x \in Nat
  PROVE  /\ x \div PAGE \in Nat
         /\ PAGE * (x \div PAGE) <= x /\ x < PAGE * (x \div PAGE) + PAGE
         /\ x % PAGE = 0 => x = PAGE * (x \div PAGE)
<1> DEFINE d == x \div PAGE
           m == x % PAGE
<1>1. PAGE \in Nat /\ PAGE > 0
  BY LayoutAssumption
<1>2. d \in Int /\ m \in 0 .. (PAGE - 1) /\ x = PAGE * d + m
  BY <1>1
<1>3. d >= 0
  BY <1>1
<1> HIDE DEF d, m
<1>4. PAGE * d \in Int
  BY <1>1, <1>2
<1>5. PAGE * d <= x /\ x < PAGE * d + PAGE /\ (m = 0 => x = PAGE * d)
  BY <1>1, <1>2, <1>4
<1> QED
  BY <1>2, <1>3, <1>5 DEF d, m

LEMMA PagesInOrder ==
  ASSUME NEW j \in Nat, NEW k \in Nat, j < k
  PROVE  PAGE * j + PAGE <= PAGE * k /\ PAGE * j \in Nat /\ PAGE * k \in Nat
<1>1. PAGE \in Nat
  BY LayoutAssumption
<1>2. PICK i \in Nat : k = (j + 1) + i
  <2>1. k - (j + 1) \in Nat
    OBVIOUS
  <2> QED
    BY <2>1
<1>3. PAGE * k = (PAGE * j + PAGE) + PAGE * i
  BY <1>1, <1>2
<1>4. PAGE * i \in Nat /\ PAGE * j \in Nat
  BY <1>1
<1> QED
  BY <1>1, <1>3, <1>4

LEMMA PageIs ==
  ASSUME NEW x \in Nat, NEW e \in Nat, PAGE * e <= x, x < PAGE * e + PAGE
  PROVE  x \div PAGE = e
<1> DEFINE d == x \div PAGE
<1>1. d \in Nat /\ PAGE * d <= x /\ x < PAGE * d + PAGE
  BY PageOf
<1> HIDE DEF d
<1>2. PAGE \in Nat /\ PAGE * d \in Int /\ PAGE * e \in Int
  BY <1>1, LayoutAssumption
<1>3. ~(d < e)
  BY <1>1, <1>2, PagesInOrder
<1>4. ~(e < d)
  BY <1>1, <1>2, PagesInOrder
<1> QED
  BY <1>1, <1>3, <1>4 DEF d

(* A range of whole pages holds the whole page of each of its addresses.   *)
LEMMA WholePages ==
  ASSUME NEW a \in Nat, a % PAGE = 0, NEW m \in Nat,
         NEW x \in Extent(a, PAGE * m),
         NEW z \in Nat, z \div PAGE = x \div PAGE
  PROVE  z \in Extent(a, PAGE * m)
<1> DEFINE k == a \div PAGE
           j == x \div PAGE
<1>0. PAGE \in Nat /\ PAGE * m \in Nat
  BY LayoutAssumption
<1>1. x \in Nat /\ a <= x /\ x < a + PAGE * m
  BY <1>0 DEF Extent
<1>2. /\ k \in Nat /\ a = PAGE * k
      /\ j \in Nat /\ PAGE * j <= x /\ x < PAGE * j + PAGE
      /\ PAGE * j <= z /\ z < PAGE * j + PAGE
  BY <1>1, PageOf
<1> HIDE DEF k, j
<1>3. PAGE * (k + m) = PAGE * k + PAGE * m /\ k + m \in Nat
  BY <1>0, <1>2
<1>4. PAGE * j \in Nat /\ PAGE * k \in Nat
  BY <1>0, <1>2
<1>5. ~(j < k)
  BY <1>0, <1>1, <1>2, <1>4, PagesInOrder
<1>6. PAGE * k <= PAGE * j
  <2>1. j = k \/ k < j
    BY <1>2, <1>5
  <2> QED
    BY <2>1, <1>0, <1>2, <1>4, PagesInOrder
<1>7. ~(k + m < j) /\ j # k + m
  BY <1>0, <1>1, <1>2, <1>3, <1>4, PagesInOrder
<1>8. PAGE * j + PAGE <= PAGE * (k + m)
  BY <1>2, <1>3, <1>7, PagesInOrder
<1> QED
  BY <1>0, <1>2, <1>3, <1>4, <1>6, <1>8 DEF Extent

(* Every page that munmap takes of a run holds a byte of the run.          *)
LEMMA PagesOfRun ==
  ASSUME NEW a \in Nat, a % PAGE = 0, NEW n \in Nat \ {0}, n + PAGE < WORD,
         NEW x \in Extent(a, round_pages(n))
  PROVE  \E y \in Extent(a, n) : y \div PAGE = x \div PAGE
<1> DEFINE k == a \div PAGE
           c == pages_count(n)
<1>0. PAGE \in Nat \ {0}
  BY LayoutAssumption
<1>1. /\ c \in Nat /\ round_pages(n) = PAGE * c /\ PAGE * c < n + PAGE /\ c > 0
      /\ PAGE * c \in Nat
  BY <1>0, RoundedPages
<1>2. k \in Nat /\ a = PAGE * k /\ PAGE * k \in Nat
  BY <1>0, PageOf
<1>3. x \in Nat /\ a <= x /\ x < a + PAGE * c
  BY <1>1 DEF Extent
<1> HIDE DEF k, c
<1>4. CASE x < a + n
  BY <1>3, <1>4 DEF Extent
<1>5. CASE x >= a + n
  <2> DEFINE e == k + c - 1
             y == a + n - 1
  <2>1. e \in Nat /\ y \in Nat /\ y \in Extent(a, n)
    BY <1>1, <1>2 DEF Extent
  <2>2. PAGE * e = PAGE * k + PAGE * c - PAGE
    BY <1>0, <1>1, <1>2
  <2> HIDE DEF e
  <2>3. /\ PAGE * e <= y /\ y < PAGE * e + PAGE
        /\ PAGE * e <= x /\ x < PAGE * e + PAGE
    BY <2>1, <2>2, <1>0, <1>1, <1>2, <1>3, <1>5
  <2> HIDE DEF y
  <2>4. y \div PAGE = e /\ x \div PAGE = e
    BY <2>1, <2>3, <1>3, PageIs
  <2> QED
    BY <2>1, <2>4
<1> QED
  BY <1>3, <1>4, <1>5

(* A region is a range of whole pages.                                     *)
LEMMA RegionWhole ==
  ASSUME RegionsAreWhole, NEW at \in Nat, NEW q \in Nat, q + HDR + PAGE < WORD,
         NEW r \in alloc_region(at, q)
  PROVE  r.addr % PAGE = 0 /\ \E m \in Nat : r.size = PAGE * m
<1> DEFINE n == region_actual_size(Wrap(q + HDR))
           p == round_pages(q + HDR)
<1>0. /\ HDR \in Nat \ {0} /\ PAGE \in Nat \ {0} /\ REGIONMIN \in Nat
      /\ WORD \in Nat
  BY LayoutAssumption
<1>1. Wrap(q + HDR) = q + HDR
  BY <1>0 DEF Wrap
<1>2. PICK k \in Nat : p = PAGE * k /\ k > 0
  <2>1. q + HDR \in Nat /\ q + HDR > 0
    BY <1>0
  <2> QED
    BY <2>1, RoundedPages
<1>3. n = IF p < REGIONMIN THEN REGIONMIN ELSE p
  BY <1>1 DEF region_actual_size, AtLeast
<1> HIDE DEF n, p
<1>4. \E m \in Nat : n = PAGE * m
  <2>1. CASE REGIONMIN % PAGE = 0
    <3>1. REGIONMIN = PAGE * (REGIONMIN \div PAGE) /\ REGIONMIN \div PAGE \in Nat
      BY <2>1, <1>0, PageOf
    <3> QED
      BY <3>1, <1>2, <1>3
  <2>2. CASE REGIONMIN <= PAGE
    <3>1. PAGE * k >= PAGE
      <4>1. PAGE * 0 + PAGE <= PAGE * k
        BY <1>2, PagesInOrder
      <4> QED
        BY <4>1, <1>0
    <3>2. PAGE * k \in Nat
      BY <1>0
    <3> QED
      BY <3>1, <3>2, <2>2, <1>0, <1>2, <1>3
  <2> QED
    BY <2>1, <2>2 DEF RegionsAreWhole
<1>5. r.addr % PAGE = 0 /\ r.size = n
  <2>1. CASE Mappable(at, n)
    BY <2>1 DEF alloc_region, n, Mappable
  <2>2. CASE ~Mappable(at, n)
    <3>1. PICK a \in {x \in HEAPSTART .. LIMIT : Mappable(x, n)} :
            r = [addr |-> a, size |-> n, extends |-> FALSE]
      BY <2>2 DEF alloc_region, n
    <3> QED
      BY <3>1 DEF Mappable
  <2> QED
    BY <2>1, <2>2
<1> QED
  BY <1>4, <1>5

(* Addresses whose page nobody had mapped when heap_init was called.       *)
Apart ==
  {y \in 1 .. (LIMIT - 1) : \A z \in before : z \div PAGE # y \div PAGE}

(* A link leads to the adjacent block, to a region, or nowhere.            *)
LinksWhole(h) ==
  \A a \in DOMAIN h : h[a].next = block_after(h, a) \/ h[a].next % PAGE = 0

OthersApart ==
  /\ before \subseteq mapped
  /\ \A a \in DOMAIN hdr : Bytes(hdr, a) \subseteq Apart
  /\ LinksWhole(hdr)
  /\ pc = "term" => start % PAGE = 0 /\ start .. (cur - 1) \subseteq Apart

LEMMA NullIsWhole == NULL % PAGE = 0
<1>1. PAGE \in Nat /\ PAGE > 0
  BY LayoutAssumption
<1> QED
  BY <1>1 DEF NULL

LEMMA MergeLinks ==
  ASSUME NEW h, NEW L, NEW M, Heap(h, L, M), NEW a \in DOMAIN h,
         CanMerge(h, a), LinksWhole(h)
  PROVE  LinksWhole(Merged(h, a))
<1> DEFINE b == h[a].next
           g == Merged(h, a)
<1>0. HDR \in Nat \ {0}
  BY LayoutAssumption
<1>1. /\ b \in DOMAIN h /\ b # a /\ b = a + HDR + h[a].cap
      /\ h[a] \in Header /\ h[b] \in Header /\ a \in Nat /\ b \in Nat
  BY MergeFacts DEF Heap, CanMerge, mergeable, blocks_continuous, block_after
<1>2. /\ DOMAIN g = DOMAIN h \ {b}
      /\ g[a].cap = h[a].cap + HDR + h[b].cap /\ g[a].next = h[b].next
      /\ \A x \in DOMAIN g \ {a} : g[x] = h[x]
  BY <1>1 DEF Merged, MergedInto
<1> HIDE DEF g
<1>3. block_after(g, a) = block_after(h, b)
  BY <1>0, <1>1, <1>2 DEF block_after, Header
<1> HIDE DEF b
<1>4. \A x \in DOMAIN g : g[x].next = block_after(g, x) \/ g[x].next % PAGE = 0
  <2> SUFFICES ASSUME NEW x \in DOMAIN g
               PROVE  g[x].next = block_after(g, x) \/ g[x].next % PAGE = 0
    OBVIOUS
  <2>1. CASE x = a
    BY <2>1, <1>1, <1>2, <1>3 DEF LinksWhole
  <2>2. CASE x # a
    BY <2>2, <1>2 DEF LinksWhole, block_after
  <2> QED
    BY <2>1, <2>2
<1> QED
  BY <1>4 DEF LinksWhole, g

LEMMA TakeLinks ==
  ASSUME NEW h, NEW L, NEW M, Heap(h, L, M), NEW a \in L,
         NEW q \in Nat, h[a].cap >= q, q + HDR + MINCAP < WORD, LinksWhole(h)
  PROVE  LinksWhole(Taken(h, a, q))
<1> DEFINE b == a + HDR + q
           g == Taken(h, a, q)
<1>0. HDR \in Nat \ {0} /\ MINCAP \in Nat \ {0} /\ WORD \in Nat
  BY LayoutAssumption
<1>1. a \in DOMAIN h /\ a \in Nat /\ h[a] \in Header
  BY DEF Heap
<1>2. CASE ~block_splittable(h, a, q)
  <2>1. /\ g[a].cap = h[a].cap /\ g[a].next = h[a].next
        /\ DOMAIN g = DOMAIN h /\ \A x \in DOMAIN h \ {a} : g[x] = h[x]
    BY <1>1, <1>2 DEF Taken, Header
  <2> HIDE DEF g
  <2>2. \A x \in DOMAIN g : /\ g[x].next = h[x].next
                            /\ block_after(g, x) = block_after(h, x)
    BY <2>1 DEF block_after
  <2>3. LinksWhole(g)
    BY <2>1, <2>2 DEF LinksWhole
  <2> QED
    BY <2>3 DEF g
<1>3. CASE block_splittable(h, a, q)
  <2>1. /\ DOMAIN g = DOMAIN h \cup {b} /\ b # a
        /\ g[a].next = b /\ g[a].cap = q
        /\ g[b].next = h[a].next /\ g[b].cap = h[a].cap - q - HDR
        /\ \A x \in DOMAIN h \ {a, b} : g[x] = h[x]
    BY <1>0, <1>1, <1>3 DEF Taken
  <2> HIDE DEF g
  <2>2. block_after(g, a) = b /\ block_after(g, b) = block_after(h, a)
    BY <2>1, <1>0, <1>1 DEF block_after, Header
  <2> HIDE DEF b
  <2>3. \A x \in DOMAIN g : g[x].next = block_after(g, x) \/ g[x].next % PAGE = 0
    <3> SUFFICES ASSUME NEW x \in DOMAIN g
                 PROVE  g[x].next = block_after(g, x) \/ g[x].next % PAGE = 0
      OBVIOUS
    <3>1. CASE x = a
      BY <3>1, <2>1, <2>2
    <3>2. CASE x = b
      BY <3>2, <2>1, <2>2, <1>1 DEF LinksWhole
    <3>3. CASE x # a /\ x # b
      BY <3>3, <2>1 DEF LinksWhole, block_after
    <3> QED
      BY <3>1, <3>2, <3>3
  <2> QED
    BY <2>3 DEF LinksWhole, g
<1> QED
  BY <1>2, <1>3

LEMMA LinkLinks ==
  ASSUME NEW h, NEW L, NEW M, Heap(h, L, M), NEW a \in L, NEW r,
         r.addr \in Nat \ {NULL}, r.size \in Nat, r.size >= HDR,
         Extent(r.addr, r.size) \cap M = {},
         r.addr % PAGE = 0, LinksWhole(h)
  PROVE  LinksWhole(Linked(h, a, r))
<1> DEFINE g == Linked(h, a, r)
<1>1. /\ Heap(g, UpTo(h, L, a) \cup {r.addr}, M \cup Extent(r.addr, r.size))
      /\ r.addr \notin DOMAIN h
      /\ DOMAIN g = DOMAIN h \cup {r.addr}
      /\ g[r.addr] = Fresh(r.size, h[a].reg + 1)
      /\ g[a] = [h[a] EXCEPT !.next = r.addr]
      /\ \A x \in DOMAIN h \ {a} : g[x] = h[x]
      /\ HEAPSTART \in UpTo(h, L, a)
  BY GrowKeepsHeap
<1> HIDE DEF g
<1>2. a \in DOMAIN h /\ h[a] \in Header
  BY DEF Heap
<1>3. g[r.addr].next = NULL /\ g[a].next = r.addr
  BY <1>1, <1>2 DEF Fresh, Header
<1>4. \A x \in DOMAIN g : g[x].next = block_after(g, x) \/ g[x].next % PAGE = 0
  <2> SUFFICES ASSUME NEW x \in DOMAIN g
               PROVE  g[x].next = block_after(g, x) \/ g[x].next % PAGE = 0
    OBVIOUS
  <2>1. CASE x = a
    BY <2>1, <1>3
  <2>2. CASE x = r.addr
    BY <2>2, <1>3, NullIsWhole
  <2>3. CASE x # a /\ x # r.addr
    BY <2>3, <1>1 DEF LinksWhole, block_after
  <2> QED
    BY <2>1, <2>2, <2>3
<1> QED
  BY <1>4 DEF LinksWhole, g

(* A range of whole pages that is free of B has no page of B.              *)
LEMMA RegionApart ==
  ASSUME NEW a \in Nat \ {NULL}, a % PAGE = 0, NEW n, NEW m \in Nat, n = PAGE * m,
         a + n <= LIMIT, NEW B \in SUBSET Nat, Extent(a, n) \cap B = {},
         NEW y \in Extent(a, n)
  PROVE  y \in 1 .. (LIMIT - 1) /\ \A z \in B : z \div PAGE # y \div PAGE
<1>1. PAGE \in Nat /\ LIMIT \in Nat /\ n \in Nat
  BY LayoutAssumption
<1>2. y \in 1 .. (LIMIT - 1)
  BY <1>1 DEF Extent, NULL
<1>3. \A z \in B : z \div PAGE = y \div PAGE => z \in Extent(a, n)
  BY WholePages
<1> QED
  BY <1>2, <1>3

LEMMA GrowApart ==
  ASSUME Inductive, Grow, OthersApart, RegionsAreWhole
  PROVE  OthersApart'
<1>0. /\ HDR \in Nat \ {0} /\ PAGE \in Nat /\ WORD \in Nat /\ LIMIT \in Nat
      /\ Heap(hdr, listed, mapped) /\ last \in listed /\ last \in DOMAIN hdr
      /\ Fits(req) /\ req \in Nat /\ pc = "grow" /\ pc' = "refind"
      /\ before' = before /\ before \subseteq mapped /\ before \subseteq Nat
  BY LayoutAssumption
     DEF Grow, Inductive, LiveHeap, Live, Cursors, Heap, TypeOK, OthersApart
<1>1. Query \in Nat /\ Query + HDR + HDR + PAGE < WORD
  BY <1>0, QueryFits DEF Fits
<1>2. SizeFromCapacity(Query) = Query + HDR
  BY <1>0, <1>1 DEF SizeFromCapacity, Wrap
<1>3. PICK r \in alloc_region(block_after(hdr, last), Query + HDR) :
        /\ mapped' = mapped \cup Extent(r.addr, r.size)
        /\ hdr' = (IF r.extends /\ CanMerge(Linked(hdr, last, r), last)
                   THEN Merged(Linked(hdr, last, r), last)
                   ELSE Linked(hdr, last, r))
  BY <1>2 DEF Grow
<1>4. block_after(hdr, last) \in Nat
  BY <1>0 DEF Heap, Header, block_after
<1>5. /\ r.addr \in Nat \ {NULL} /\ r.size \in Nat /\ r.size >= HDR
      /\ r.addr + r.size <= LIMIT
      /\ Extent(r.addr, r.size) \cap mapped = {}
      /\ r.addr % PAGE = 0 /\ \E m \in Nat : r.size = PAGE * m
  <2>1. Query + HDR \in Nat /\ (Query + HDR) + HDR + PAGE < WORD
    BY <1>0, <1>1
  <2>2. /\ r.addr \in Nat \ {NULL} /\ r.size \in Nat
        /\ r.size >= (Query + HDR) + HDR
        /\ r.addr + r.size <= LIMIT
        /\ Extent(r.addr, r.size) \cap mapped = {}
    BY <2>1, <1>3, <1>4, AllocRegion
  <2>3. r.addr % PAGE = 0 /\ \E m \in Nat : r.size = PAGE * m
    BY <2>1, <1>3, <1>4, RegionWhole
  <2>4. r.size >= HDR
    BY <2>2, <1>0, <1>1
  <2> QED
    BY <2>2, <2>3, <2>4
<1> DEFINE g == Linked(hdr, last, r)
           E == Extent(r.addr, r.size)
           M == mapped \cap Apart
           U == UpTo(hdr, listed, last) \cup {r.addr}
<1>6. E \subseteq Apart
  <2>1. PICK m \in Nat : r.size = PAGE * m
    BY <1>5
  <2>2. E \cap before = {}
    BY <1>0, <1>5
  <2> QED
    BY <2>1, <2>2, <1>0, <1>5, RegionApart DEF Apart
<1>7. Heap(hdr, listed, M)
  BY <1>0 DEF Heap, OthersApart
<1>8. E \cap M = {}
  BY <1>5
<1>9. Heap(g, U, M \cup E) /\ last \in DOMAIN g
  <2>0. /\ r.addr \in Nat \ {NULL} /\ r.size \in Nat /\ r.size >= HDR
        /\ Extent(r.addr, r.size) \cap M = {} /\ last \in listed
    BY <1>0, <1>5, <1>8
  <2> HIDE DEF M
  <2>1. /\ Heap(g, U, M \cup E)
        /\ r.addr \notin DOMAIN hdr
        /\ DOMAIN g = DOMAIN hdr \cup {r.addr}
        /\ g[r.addr] = Fresh(r.size, hdr[last].reg + 1)
        /\ g[last] = [hdr[last] EXCEPT !.next = r.addr]
        /\ \A x \in DOMAIN hdr \ {last} : g[x] = hdr[x]
        /\ HEAPSTART \in UpTo(hdr, listed, last)
    BY <2>0, <1>7, GrowKeepsHeap
  <2> QED
    BY <2>1, <1>0
<1>10. LinksWhole(g)
  BY <1>0, <1>5, LinkLinks DEF OthersApart
<1> HIDE DEF g, M, U
<1>11. CanMerge(g, last) => /\ Heap(Merged(g, last), U \ {g[last].next}, M \cup E)
                            /\ LinksWhole(Merged(g, last))
  BY <1>9, <1>10, MergeKeepsHeap, MergeLinks
<1>12. LinksWhole(hdr') /\ \A a \in DOMAIN hdr' : Bytes(hdr', a) \subseteq M \cup E
  BY <1>3, <1>9, <1>10, <1>11 DEF Heap, g
<1>13. Apart' = Apart
  BY <1>0 DEF Apart
<1> QED
  BY <1>0, <1>3, <1>6, <1>12, <1>13 DEF OthersApart, LinksWhole, block_after, M

LEMMA TermUnmapApart ==
  ASSUME Inductive, TermUnmap, OthersApart
  PROVE  OthersApart'
<1>0. HDR \in Nat \ {0} /\ LIMIT \in Nat /\ WORD \in Nat /\ PAGE \in Nat \ {0}
      /\ MINCAP \in Nat \ {0} /\ LIMIT + HDR + PAGE + MINCAP <= WORD
  BY LayoutAssumption
<1> DEFINE run  == len + HDR + hdr[cur].cap
           gone == Extent(start, round_pages(run))
           left == IF hdr[cur].next = NULL THEN {} ELSE DOMAIN hdr \ gone
<1>1. /\ pc = "term" /\ cur \in DOMAIN hdr /\ ~RunGoesOn
      /\ mapped' = mapped \ gone
      /\ hdr' = [x \in left |-> hdr[x]]
      /\ pc' = (IF hdr[cur].next = NULL THEN "off" ELSE "term")
      /\ cur' = hdr[cur].next /\ start' = hdr[cur].next
      /\ before' = before
  BY DEF TermUnmap
<1>2. /\ start \in Nat /\ len \in Nat /\ cur \in Nat /\ start + len = cur
      /\ hdr[cur].cap \in Nat /\ hdr[cur].next \in Nat
      /\ cur + HDR + hdr[cur].cap <= LIMIT
  <2>1. TypeOK /\ BlocksMapped /\ TermRuns
    BY DEF Inductive
  <2>2. cur \in Nat /\ hdr[cur].cap \in Nat /\ cur + HDR + hdr[cur].cap <= LIMIT
    BY <1>1, <2>1, BlockBelowLimit
  <2> QED
    BY <1>1, <2>1, <2>2 DEF TypeOK, TermRuns, Header
<1>3. start % PAGE = 0 /\ start .. (cur - 1) \subseteq Apart
      /\ Bytes(hdr, cur) \subseteq Apart /\ before \subseteq mapped
  BY <1>1 DEF OthersApart
<1>4. run \in Nat \ {0} /\ run + PAGE < WORD
  BY <1>0, <1>2
<1>5. Extent(start, run) \subseteq Apart
  <2> SUFFICES ASSUME NEW y \in Extent(start, run) PROVE y \in Apart
    OBVIOUS
  <2>1. y \in Int /\ start <= y /\ y < cur + HDR + hdr[cur].cap
    BY <1>0, <1>2 DEF Extent
  <2>2. CASE y < cur
    BY <2>1, <2>2, <1>2, <1>3
  <2>3. CASE y >= cur
    <3>1. y \in Bytes(hdr, cur)
      BY <2>1, <2>3, <1>0, <1>2 DEF Bytes, block_after
    <3> QED
      BY <3>1, <1>3
  <2> QED
    BY <2>1, <2>2, <2>3, <1>2
<1> HIDE DEF run
<1>6. gone \cap before = {}
  <2> SUFFICES ASSUME NEW x \in gone, x \in before PROVE FALSE
    OBVIOUS
  <2>1. PICK y \in Extent(start, run) : y \div PAGE = x \div PAGE
    BY <1>2, <1>3, <1>4, PagesOfRun
  <2> QED
    BY <2>1, <1>5 DEF Apart
<1> HIDE DEF gone
<1>7. DOMAIN hdr' \subseteq DOMAIN hdr /\ \A x \in DOMAIN hdr' : hdr'[x] = hdr[x]
  BY <1>1
<1>8. LinksWhole(hdr') /\ \A a \in DOMAIN hdr' : Bytes(hdr', a) \subseteq Apart
  BY <1>7 DEF OthersApart, LinksWhole, Bytes, block_after
<1>9. hdr[cur].next # NULL => hdr[cur].next % PAGE = 0
  BY <1>1 DEF OthersApart, LinksWhole, RunGoesOn, blocks_continuous
<1>10. pc' = "term" => start' % PAGE = 0 /\ start' .. (cur' - 1) \subseteq Apart
  <2> SUFFICES ASSUME pc' = "term"
               PROVE  start' % PAGE = 0 /\ start' .. (cur' - 1) = {}
    OBVIOUS
  <2>1. hdr[cur].next # NULL
    BY <1>1
  <2>2. start' .. (cur' - 1) = {}
    BY <1>1, <1>2
  <2> QED
    BY <2>1, <2>2, <1>1, <1>9
<1>11. Apart' = Apart
  BY <1>1 DEF Apart
<1>12. before' \subseteq mapped'
  BY <1>1, <1>3, <1>6
<1> QED
  BY <1>8, <1>10, <1>11, <1>12 DEF OthersApart, LinksWhole, block_after

(* What a step leaves alone.                                               *)
LEMMA SameApart ==
  ASSUME OthersApart, mapped' = mapped, hdr' = hdr, before' = before,
         pc' # "term"
  PROVE  OthersApart'
<1>1. Apart' = Apart
  BY DEF Apart
<1> QED
  BY <1>1 DEF OthersApart, LinksWhole, Bytes, block_after

LEMMA MergeApart ==
  ASSUME OthersApart, Heap(hdr, listed, mapped), NEW a \in DOMAIN hdr,
         CanMerge(hdr, a), hdr' = Merged(hdr, a), mapped' = mapped,
         before' = before, pc' # "term"
  PROVE  OthersApart'
<1>1. Heap(hdr, listed, Apart)
  BY DEF Heap, OthersApart
<1>2. Heap(Merged(hdr, a), listed \ {hdr[a].next}, Apart)
  BY <1>1, MergeKeepsHeap
<1>3. LinksWhole(Merged(hdr, a))
  BY MergeLinks DEF OthersApart
<1>4. LinksWhole(hdr') /\ \A x \in DOMAIN hdr' : Bytes(hdr', x) \subseteq Apart
  BY <1>2, <1>3 DEF Heap
<1>5. Apart' = Apart
  BY DEF Apart
<1> QED
  BY <1>4, <1>5 DEF OthersApart, LinksWhole, block_after

LEMMA StepApart ==
  ASSUME Inductive, ArgumentsFit, RegionsAreWhole, [Next]_vars, OthersApart
  PROVE  OthersApart'
<1>1. ASSUME NEW n \in Initials, HeapInit(n) PROVE OthersApart'
  <2>0. /\ HDR \in Nat /\ PAGE \in Nat /\ WORD \in Nat /\ HEAPSTART \in Nat
        /\ mapped \in SUBSET Nat
    BY LayoutAssumption DEF Inductive, TypeOK
  <2>1. PICK r \in alloc_region(HEAPSTART, n) :
          /\ mapped' = mapped \cup Extent(r.addr, r.size)
          /\ hdr' = [x \in {r.addr} |-> Fresh(r.size, 0)]
    BY <1>1 DEF HeapInit
  <2>2. before' = mapped /\ pc' = "idle"
    BY <1>1 DEF HeapInit
  <2>3. n \in Nat /\ n + HDR + PAGE < WORD
    BY <2>0, InputAssumption DEF ArgumentsFit, Fits
  <2>4. /\ r.addr \in Nat \ {NULL} /\ r.size \in Nat /\ r.addr + r.size <= LIMIT
        /\ Extent(r.addr, r.size) \cap mapped = {}
    BY <2>0, <2>3, AllocRegion
  <2>5. r.addr % PAGE = 0 /\ \E m \in Nat : r.size = PAGE * m
    BY <2>0, <2>3, RegionWhole
  <2>6. \A y \in Extent(r.addr, r.size) :
          y \in 1 .. (LIMIT - 1) /\ \A z \in mapped : z \div PAGE # y \div PAGE
    BY <2>0, <2>4, <2>5, RegionApart
  <2>7. Extent(r.addr, r.size) \subseteq Apart'
    BY <2>2, <2>6 DEF Apart
  <2>8. /\ DOMAIN hdr' = {r.addr} /\ hdr'[r.addr].next = NULL
        /\ Bytes(hdr', r.addr) = Extent(r.addr, r.size)
    BY <2>0, <2>1, <2>4 DEF Bytes, block_after, Extent, Fresh
  <2> QED
    BY <2>1, <2>2, <2>7, <2>8, NullIsWhole DEF OthersApart, LinksWhole
<1>2. CASE HeapInitFails
  <2>1. Apart' = Apart
    BY <1>2 DEF HeapInitFails, Apart
  <2> QED
    BY <1>2, <2>1
       DEF HeapInitFails, OthersApart, LinksWhole, Bytes, block_after
<1>3. ASSUME NEW q \in Queries, Malloc(q) PROVE OthersApart'
  BY <1>3, SameApart DEF Malloc
<1>4. ASSUME NEW a \in DOMAIN owned, Free(a) PROVE OthersApart'
  <2>1. /\ hdr' = [hdr EXCEPT ![a].free = TRUE] /\ a \in DOMAIN hdr
        /\ mapped' = mapped /\ before' = before /\ pc' # "term"
    BY <1>4 DEF Free
  <2>2. hdr \in [DOMAIN hdr -> Header]
    BY DEF Inductive, TypeOK
  <2>3. /\ DOMAIN hdr' = DOMAIN hdr
        /\ \A x \in DOMAIN hdr : hdr'[x].cap = hdr[x].cap /\ hdr'[x].next = hdr[x].next
    BY <2>1, <2>2 DEF Header
  <2>4. \A x \in DOMAIN hdr : block_after(hdr', x) = block_after(hdr, x)
    BY <2>3 DEF block_after
  <2>5. Apart' = Apart
    BY <2>1 DEF Apart
  <2> QED
    BY <2>1, <2>3, <2>4, <2>5 DEF OthersApart, LinksWhole, Bytes
<1>5. CASE HeapTerm
  <2>1. /\ cur' = HEAPSTART /\ start' = HEAPSTART /\ HEAPSTART % PAGE = 0
        /\ HEAPSTART .. (HEAPSTART - 1) = {}
    BY <1>5, LayoutAssumption DEF HeapTerm
  <2>2. Apart' = Apart
    BY <1>5 DEF HeapTerm, Apart
  <2> QED
    BY <1>5, <2>1, <2>2 DEF HeapTerm, OthersApart, LinksWhole, Bytes, block_after
<1>6. CASE FindTaken
  BY <1>6, SameApart DEF FindTaken, Searching
<1>7. CASE FindMerge
  <2>1. Heap(hdr, listed, mapped)
    BY <1>7, SearchingOnList DEF FindMerge
  <2> QED
    BY <1>7, <2>1, MergeApart DEF FindMerge, Searching
<1>8. CASE FindTooSmall
  BY <1>8, SameApart DEF FindTooSmall, Searching
<1>9. CASE FindGood
  <2>1. /\ Heap(hdr, listed, mapped) /\ cur \in listed
        /\ Fits(req) /\ req \in Nat
    BY <1>9, SearchingOnList DEF FindGood
  <2>2. /\ hdr' = Taken(hdr, cur, Query) /\ mapped' = mapped /\ before' = before
        /\ hdr[cur].cap >= Query /\ pc' = "idle"
    BY <1>9 DEF FindGood, Searching, Return
  <2>3. Query \in Nat /\ Query + HDR + MINCAP < WORD
    <3>1. Query \in Nat /\ Fits(Query)
      BY <2>1, QueryFits
    <3>2. hdr[cur].cap \in Nat /\ cur + HDR + hdr[cur].cap <= LIMIT /\ cur \in Nat
      BY <2>1, BlockBelowLimit DEF Inductive, Heap
    <3> QED
      BY <3>1, <3>2, <2>2, LayoutAssumption DEF Fits
  <2>4. Heap(hdr, listed, Apart) /\ LinksWhole(hdr)
    BY <2>1 DEF Heap, OthersApart
  <2> DEFINE g == Taken(hdr, cur, Query)
  <2>5. /\ Heap(g, listed \cup (DOMAIN g \ DOMAIN hdr), Apart)
        /\ DOMAIN hdr \subseteq DOMAIN g
        /\ ~g[cur].free /\ g[cur].cap >= Query
        /\ \A x \in DOMAIN hdr \ {cur} : g[x] = hdr[x]
        /\ \A x \in DOMAIN g \ DOMAIN hdr : g[x].free
    BY <2>1, <2>2, <2>3, <2>4, TakeKeepsHeap
  <2>6. LinksWhole(g)
    BY <2>1, <2>2, <2>3, <2>4, TakeLinks
  <2> HIDE DEF g
  <2>7. hdr' = g /\ \A x \in DOMAIN g : Bytes(g, x) \subseteq Apart
    BY <2>2, <2>5 DEF Heap, g
  <2>8. Apart' = Apart
    BY <2>2 DEF Apart
  <2> QED
    BY <2>2, <2>6, <2>7, <2>8 DEF OthersApart, LinksWhole, block_after
<1>10. CASE FindEnd
  BY <1>10, SameApart DEF FindEnd
<1>11. CASE Grow
  BY <1>11, GrowApart
<1>12. CASE GrowFails
  BY <1>12, SameApart DEF GrowFails, Return
<1>13. CASE RefindEnd
  BY <1>13, RefindEndImpossible
<1>14. CASE CoalesceMerge
  <2>1. Heap(hdr, listed, mapped) /\ cur \in DOMAIN hdr
    BY <1>14 DEF CoalesceMerge, Inductive, LiveHeap, Live, Cursors
  <2> QED
    BY <1>14, <2>1, MergeApart DEF CoalesceMerge
<1>15. CASE CoalesceEnd
  BY <1>15, SameApart DEF CoalesceEnd, Return
<1>16. CASE TermScan
  <2>1. /\ pc = "term" /\ cur \in DOMAIN hdr /\ hdr' = hdr /\ mapped' = mapped
        /\ before' = before /\ start' = start /\ cur' = block_after(hdr, cur)
    BY <1>16 DEF TermScan, RunGoesOn, blocks_continuous
  <2>2. start \in Nat /\ cur \in Nat /\ block_after(hdr, cur) \in Nat
    BY <2>1, LayoutAssumption DEF Inductive, TypeOK, Header, block_after
  <2>3. start .. (cur' - 1) \subseteq (start .. (cur - 1)) \cup Bytes(hdr, cur)
    BY <2>1, <2>2 DEF Bytes
  <2>4. start' .. (cur' - 1) \subseteq Apart /\ start' % PAGE = 0
    BY <2>1, <2>3 DEF OthersApart
  <2>5. Apart' = Apart
    BY <2>1 DEF Apart
  <2> QED
    BY <2>1, <2>4, <2>5 DEF OthersApart, LinksWhole, Bytes, block_after
<1>17. CASE TermUnmap
  BY <1>17, TermUnmapApart
<1>18. CASE ForeignHeader
  BY <1>18, ForeignHeaderImpossible
<1>19. CASE Segv
  BY <1>19, SameApart DEF Segv
<1>20. CASE UNCHANGED vars
  <2>1. Apart' = Apart
    BY <1>20 DEF vars, Apart
  <2> QED
    BY <1>20, <2>1 DEF vars, OthersApart, LinksWhole, Bytes, block_after
<1>21. CASE NoHeapInit
  <2>1. /\ DOMAIN hdr = {} /\ hdr' = hdr /\ mapped' = mapped /\ before' = mapped
        /\ pc' = "idle"
    BY <1>21 DEF NoHeapInit, Inductive, HeapGone
  <2> QED
    BY <2>1 DEF OthersApart, LinksWhole
<1> QED
  BY <1>1, <1>2, <1>3, <1>4, <1>5, <1>6, <1>7, <1>8, <1>9, <1>10, <1>11, <1>12,
     <1>13, <1>14, <1>15, <1>16, <1>17, <1>18, <1>19, <1>20, <1>21
     DEF Next, Call, Internal

(* heap_term unmaps whole pages (mem.c:220-240).  If nobody else has       *)
(* mapped HEAP_START it takes no page that was mapped when the life of     *)
(* the heap began: the runs it measures begin on pages of their own and    *)
(* end in pages of their own.  (With a foreign page at HEAP_START          *)
(* OthersStayMapped is for TLC alone.)                                     *)
THEOREM OthersKeepTheirPages ==
  ASSUME HeapStartIsFree, ArgumentsFit, RegionsAreWhole
  PROVE  Spec => [](OthersStayMapped /\ before \subseteq mapped)
<1>1. Init => OthersApart
  BY DEF Init, OthersApart, LinksWhole
<1>2. Inductive /\ OthersApart /\ [Next]_vars => OthersApart'
  BY StepApart
<1>3. OthersApart => OthersStayMapped /\ before \subseteq mapped
  BY DEF OthersApart, OthersStayMapped
<1> QED
  BY <1>1, <1>2, <1>3, InductiveHolds, PTL DEF Spec

-----------------------------------------------------------------------------
(* The promise: every step of mem.c is a step of Allocator, or none.       *)

Phase ==
  CASE pc \in {"off", "term"}               -> "off"
    [] pc \in {"idle", "coalesce"}          -> "ready"
    [] pc \in {"find", "refind", "grow"}    -> "busy"
    [] pc = "segv" -> (IF start = NULL THEN "busy" ELSE "off")

Contents(D) == {a + HDR : a \in D}

Given == [c \in Contents(DOMAIN owned) |-> owned[c - HDR]]

(* Only heap_term has a `start', only _malloc a request.                   *)
Locals ==
  /\ pc # "segv" => (start = NULL <=> pc # "term")
  /\ pc \in {"off", "idle", "coalesce", "term"} => req = 0

LEMMA PromiseInit ==
  ASSUME Phase = "off", req = 0, Given = [a \in {} |-> 0]
  PROVE  Promise!Init
BY DEF Promise!Init, Promise!Nothing, Phase, Given, Contents

LEMMA PromiseStutter ==
  ASSUME Phase' = Phase, req' = req, Given' = Given
  PROVE  UNCHANGED Promise!vars
BY DEF Promise!vars, Phase, Given, Contents

LEMMA PromiseOpen ==
  ASSUME Phase = "off", Phase' = "ready", req' = req, Given' = Given
  PROVE  Promise!Open
BY DEF Promise!Open, Phase, Given, Contents

LEMMA PromiseRequest ==
  ASSUME Phase = "ready", Phase' = "busy", Given' = Given, NEW n \in Queries,
         req' = n
  PROVE  Promise!Request(n)
BY DEF Promise!Request, Phase, Given, Contents

LEMMA PromiseRefuse ==
  ASSUME Phase = "busy", Phase' = "ready", req' = 0, Given' = Given
  PROVE  Promise!Refuse
BY DEF Promise!Refuse, Promise!Answer, Phase, Given, Contents

LEMMA PromiseGrant ==
  ASSUME Phase = "busy", Phase' = "ready", req' = 0, NEW a,
         a \notin DOMAIN Given,
         \A b \in DOMAIN Given :
           Promise!Part(a, req) \cap Promise!Part(b, Given[b]) = {},
         Given' = [b \in DOMAIN Given \cup {a} |-> IF b = a THEN req ELSE Given[b]]
  PROVE  Promise!Grant(a)
BY DEF Promise!Grant, Promise!Answer, Phase, Given, Contents

LEMMA PromiseRelease ==
  ASSUME Phase = "ready", Phase' = Phase, req' = req, NEW a \in DOMAIN Given,
         Given' = [b \in DOMAIN Given \ {a} |-> Given[b]]
  PROVE  Promise!Release(a)
BY DEF Promise!Release, Phase, Given, Contents

LEMMA PromiseClose ==
  ASSUME Phase = "ready", Phase' = "off", req' = req, Given' = [a \in {} |-> 0]
  PROVE  Promise!Close
BY DEF Promise!Close, Promise!Nothing, Phase, Given, Contents

LEMMA SameGiven ==
  ASSUME owned' = owned
  PROVE  Given' = Given
BY DEF Given, Contents

LEMMA NothingGiven ==
  ASSUME DOMAIN owned = {}
  PROVE  Given = [a \in {} |-> 0]
BY DEF Given, Contents

LEMMA GivenOf ==
  ASSUME TypeOK
  PROVE  /\ DOMAIN Given = Contents(DOMAIN owned)
         /\ \A a \in DOMAIN owned : a + HDR \in DOMAIN Given
                                    /\ Given[a + HDR] = owned[a]
         /\ \A a \in Nat : a + HDR \in DOMAIN Given => a \in DOMAIN owned
<1>1. HDR \in Nat /\ DOMAIN owned \subseteq Nat
  BY LayoutAssumption DEF TypeOK
<1>2. \A a \in Nat : (a + HDR) - HDR = a
  BY <1>1
<1>3. DOMAIN Given = Contents(DOMAIN owned)
  BY DEF Given
<1>4. \A a \in DOMAIN owned : a + HDR \in DOMAIN Given
                              /\ Given[a + HDR] = owned[a]
  <2> SUFFICES ASSUME NEW a \in DOMAIN owned
               PROVE  a + HDR \in DOMAIN Given /\ Given[a + HDR] = owned[a]
    OBVIOUS
  <2>1. a + HDR \in Contents(DOMAIN owned)
    BY DEF Contents
  <2>2. Given[a + HDR] = owned[(a + HDR) - HDR]
    BY <2>1 DEF Given
  <2> QED
    BY <2>1, <2>2, <1>1, <1>2, <1>3
<1>5. \A a \in Nat : a + HDR \in DOMAIN Given => a \in DOMAIN owned
  <2> SUFFICES ASSUME NEW a \in Nat, NEW b \in DOMAIN owned, a + HDR = b + HDR
               PROVE  a \in DOMAIN owned
    BY <1>3 DEF Contents
  <2>1. b \in Nat
    BY <1>1
  <2>2. a = b
    BY <2>1, <1>1
  <2> QED
    BY <2>2
<1> QED
  BY <1>3, <1>4, <1>5

(* The block that is taken is one nobody holds, and its contents overlap   *)
(* none that somebody does.                                                *)
LEMMA GoodGranted ==
  ASSUME Inductive, Inductive', FindGood
  PROVE  \E a \in 1 .. LIMIT : Promise!Grant(a)
<1>0. HDR \in Nat \ {0} /\ LIMIT \in Nat /\ MINCAP \in Nat
  BY LayoutAssumption
<1>1. /\ Searching /\ hdr[cur].free /\ hdr[cur].cap >= Query
      /\ owned' = [x \in DOMAIN owned \cup {cur} |->
                     IF x = cur THEN req ELSE owned[x]]
      /\ pc' = "idle" /\ req' = 0 /\ pc \in {"find", "refind"}
      /\ cur \in DOMAIN hdr
  BY DEF FindGood, Return, Searching
<1>2. Fits(req) /\ req \in Nat /\ Query >= req /\ Query \in Nat
  BY <1>1, SearchingOnList, QueryFits
<1>3. /\ cur \in Nat /\ hdr[cur].cap \in Nat
      /\ cur + HDR + hdr[cur].cap <= LIMIT
      /\ \A b \in DOMAIN hdr : b \in Nat /\ hdr[b].cap \in Nat
  BY <1>1, BlockBelowLimit DEF Inductive
<1>4. cur \notin DOMAIN owned
  BY <1>1 DEF Inductive, OwnedIsTaken
<1>5. /\ DOMAIN Given = Contents(DOMAIN owned)
      /\ \A a \in DOMAIN owned : a + HDR \in DOMAIN Given
                                 /\ Given[a + HDR] = owned[a]
      /\ \A a \in Nat : a + HDR \in DOMAIN Given => a \in DOMAIN owned
  BY GivenOf DEF Inductive
<1>6. cur + HDR \notin DOMAIN Given
  BY <1>3, <1>4, <1>5
<1>7. ASSUME NEW c \in DOMAIN Given
      PROVE  ((cur + HDR) .. (cur + HDR + req - 1)) \cap (c .. (c + Given[c] - 1)) = {}
  <2>1. PICK b \in DOMAIN owned : c = b + HDR
    BY <1>5 DEF Contents
  <2>2. /\ b \in DOMAIN hdr /\ b # cur /\ hdr[b].cap >= owned[b]
        /\ owned[b] \in Nat /\ Given[c] = owned[b]
    <3>1. /\ b \in DOMAIN hdr /\ hdr[b].cap >= AtLeast(owned[b], MINCAP)
          /\ owned[b] \in Nat
      BY DEF Inductive, OwnedIsTaken, TypeOK
    <3>2. AtLeast(owned[b], MINCAP) >= owned[b] /\ AtLeast(owned[b], MINCAP) \in Nat
      BY <3>1, <1>0 DEF AtLeast
    <3> QED
      BY <3>1, <3>2, <2>1, <1>3, <1>4, <1>5
  <2>3. \/ cur + HDR + hdr[cur].cap <= b
        \/ b + HDR + hdr[b].cap <= cur
    <3>1. cur < b \/ b < cur
      BY <2>2, <1>3
    <3> QED
      BY <3>1, <2>2, <1>1 DEF Inductive, BlocksDisjoint, Disjoint, block_after
  <2> QED
    BY <2>1, <2>2, <2>3, <1>0, <1>1, <1>2, <1>3
<1>8. Given' = [c \in DOMAIN Given \cup {cur + HDR} |->
                  IF c = cur + HDR THEN req ELSE Given[c]]
  <2>1. DOMAIN owned' = DOMAIN owned \cup {cur}
    BY <1>1
  <2>2. Contents(DOMAIN owned') = DOMAIN Given \cup {cur + HDR}
    BY <2>1, <1>5 DEF Contents
  <2>3. ASSUME NEW c \in Contents(DOMAIN owned')
        PROVE  owned'[c - HDR] = (IF c = cur + HDR THEN req ELSE Given[c])
    <3>1. PICK b \in DOMAIN owned' : c = b + HDR
      BY DEF Contents
    <3>2. b \in Nat /\ c - HDR = b
      BY <3>1, <1>0 DEF Inductive, TypeOK
    <3>3. CASE b = cur
      BY <3>1, <3>2, <3>3, <1>1
    <3>4. CASE b # cur
      <4>1. c # cur + HDR
        BY <3>1, <3>2, <3>4, <1>0, <1>3
      <4> QED
        BY <4>1, <3>1, <3>2, <3>4, <2>1, <1>1, <1>5
    <3> QED
      BY <3>3, <3>4
  <2> QED
    BY <2>2, <2>3 DEF Given
<1>9. Phase = "busy" /\ Phase' = "ready"
  BY <1>1 DEF Phase
<1>10. PICK a \in 1 .. LIMIT : a = cur + HDR
  <2>1. cur + HDR \in 1 .. LIMIT
    BY <1>0, <1>3
  <2> QED
    BY <2>1
<1>11. a \notin DOMAIN Given
  BY <1>6, <1>10
<1>12. \A b \in DOMAIN Given :
         Promise!Part(a, req) \cap Promise!Part(b, Given[b]) = {}
  BY <1>7, <1>10 DEF Promise!Part
<1>13. Given' = [b \in DOMAIN Given \cup {a} |-> IF b = a THEN req ELSE Given[b]]
  BY <1>8, <1>10
<1>14. Promise!Grant(a)
  BY <1>1, <1>9, <1>11, <1>12, <1>13, PromiseGrant
<1> QED
  BY <1>14

LEMMA FreeReleases ==
  ASSUME Inductive, NEW a \in DOMAIN owned, Free(a)
  PROVE  Promise!Release(a + HDR) /\ a + HDR \in DOMAIN Given
<1>0. HDR \in Nat \ {0}
  BY LayoutAssumption
<1>1. /\ pc = "idle" /\ pc' = "coalesce" /\ req' = req
      /\ owned' = [x \in DOMAIN owned \ {a} |-> owned[x]]
  BY DEF Free
<1>2. /\ DOMAIN Given = Contents(DOMAIN owned)
      /\ \A b \in DOMAIN owned : b + HDR \in DOMAIN Given
                                 /\ Given[b + HDR] = owned[b]
      /\ DOMAIN owned \subseteq Nat
  BY GivenOf DEF Inductive, TypeOK
<1>3. Given' = [c \in DOMAIN Given \ {a + HDR} |-> Given[c]]
  <2>1. DOMAIN owned' = DOMAIN owned \ {a}
    BY <1>1
  <2>2. \A b \in DOMAIN owned : b + HDR = a + HDR => b = a
    BY <1>0, <1>2
  <2>3. Contents(DOMAIN owned') = DOMAIN Given \ {a + HDR}
    BY <2>1, <2>2, <1>2 DEF Contents
  <2>4. ASSUME NEW c \in Contents(DOMAIN owned')
        PROVE  owned'[c - HDR] = Given[c]
    <3>1. PICK b \in DOMAIN owned' : c = b + HDR
      BY DEF Contents
    <3>2. c - HDR = b
      BY <3>1, <2>1, <1>0, <1>2
    <3> QED
      BY <3>1, <3>2, <2>1, <1>1, <1>2
  <2> QED
    BY <2>3, <2>4 DEF Given
<1>4. Phase = "ready" /\ Phase' = Phase
  BY <1>1 DEF Phase
<1> QED
  BY <1>1, <1>2, <1>3, <1>4, PromiseRelease

LEMMA StepKeepsLocals ==
  ASSUME Inductive, Locals, [Next]_vars
  PROVE  Locals'
<1>1. CASE HeapTerm
  BY <1>1, LayoutAssumption DEF HeapTerm, Locals, NULL
<1>2. CASE TermScan
  BY <1>2 DEF TermScan, Locals
<1>3. CASE TermUnmap
  <2>1. /\ pc' = (IF hdr[cur].next = NULL THEN "off" ELSE "term")
        /\ start' = hdr[cur].next /\ pc = "term" /\ req' = req
    BY <1>3 DEF TermUnmap
  <2> QED
    BY <2>1 DEF Locals
<1>4. CASE /\ pc # "term" /\ pc' # "term" /\ start' = start /\ pc # "segv"
           /\ \/ req' = 0
              \/ req' = req /\ (pc' = pc \/ pc \in {"off", "idle"})
              \/ pc' \in {"find", "grow", "refind"}
  BY <1>4 DEF Locals
<1>5. CASE pc' = "segv"
  BY <1>5 DEF Locals
<1>6. CASE UNCHANGED vars
  BY <1>6 DEF vars, Locals
<1>7. \/ pc' = "segv" \/ TermScan \/ TermUnmap \/ HeapTerm \/ UNCHANGED vars
      \/ /\ pc # "term" /\ pc' # "term" /\ start' = start /\ pc # "segv"
         /\ \/ req' = 0
            \/ req' = req /\ (pc' = pc \/ pc \in {"off", "idle"})
            \/ pc' \in {"find", "grow", "refind"}
  BY ForeignHeaderImpossible
     DEF Next, Call, Internal, HeapInit, HeapInitFails, NoHeapInit, Malloc, Free, Searching,
         FindTaken, FindMerge, FindTooSmall, FindGood, FindEnd, Grow, GrowFails,
         RefindEnd, CoalesceMerge, CoalesceEnd, Segv, Return
<1> QED
  BY <1>1, <1>2, <1>3, <1>4, <1>5, <1>6, <1>7

(* A step that changes neither what is held nor the phase.                 *)
LEMMA QuietStep ==
  ASSUME owned' = owned, req' = req, Phase' = Phase
  PROVE  [Promise!Next]_(Promise!vars)
BY SameGiven, PromiseStutter

LEMMA StepKeepsPromise ==
  ASSUME Inductive, Inductive', Locals, ArgumentsFit, [Next]_vars
  PROVE  [Promise!Next]_(Promise!vars)
<1>1. ASSUME NEW n \in Initials, HeapInit(n)
      PROVE  [Promise!Next]_(Promise!vars)
  <2>1. pc = "off" /\ pc' = "idle" /\ owned' = owned /\ req' = req
    BY <1>1 DEF HeapInit
  <2>2. Phase = "off" /\ Phase' = "ready"
    BY <2>1 DEF Phase
  <2> QED
    BY <2>1, <2>2, SameGiven, PromiseOpen DEF Promise!Next
<1>2. CASE HeapInitFails
  BY <1>2, QuietStep DEF HeapInitFails, Phase
<1>3. ASSUME NEW q \in Queries, Malloc(q)
      PROVE  [Promise!Next]_(Promise!vars)
  <2>1. pc = "idle" /\ pc' = "find" /\ owned' = owned /\ req' = q
    BY <1>3 DEF Malloc
  <2>2. Phase = "ready" /\ Phase' = "busy"
    BY <2>1 DEF Phase
  <2> QED
    BY <2>1, <2>2, SameGiven, PromiseRequest DEF Promise!Next
<1>4. ASSUME NEW a \in DOMAIN owned, Free(a)
      PROVE  [Promise!Next]_(Promise!vars)
  <2>1. PICK c \in DOMAIN Given : Promise!Release(c)
    <3>1. Promise!Release(a + HDR) /\ a + HDR \in DOMAIN Given
      BY <1>4, FreeReleases
    <3> QED
      BY <3>1
  <2> QED
    BY <2>1 DEF Promise!Next, Given, Contents
<1>5. CASE HeapTerm
  <2>1. pc = "idle" /\ pc' = "term" /\ DOMAIN owned' = {} /\ req' = req
    BY <1>5 DEF HeapTerm
  <2>2. Phase = "ready" /\ Phase' = "off"
    BY <2>1 DEF Phase
  <2>3. Given' = [a \in {} |-> 0]
    BY <2>1 DEF Given, Contents
  <2> QED
    BY <2>1, <2>2, <2>3, PromiseClose DEF Promise!Next
<1>6. CASE FindTaken
  BY <1>6, QuietStep DEF FindTaken, Searching, Phase
<1>7. CASE FindMerge
  BY <1>7, QuietStep DEF FindMerge, Searching, Phase
<1>8. CASE FindTooSmall
  BY <1>8, QuietStep DEF FindTooSmall, Searching, Phase
<1>9. CASE FindGood
  BY <1>9, GoodGranted DEF Promise!Next
<1>10. CASE FindEnd
  BY <1>10, QuietStep DEF FindEnd, Phase
<1>11. CASE Grow
  BY <1>11, QuietStep DEF Grow, Phase
<1>12. CASE GrowFails
  <2>1. pc = "grow" /\ pc' = "idle" /\ owned' = owned /\ req' = 0
    BY <1>12 DEF GrowFails, Return
  <2>2. Phase = "busy" /\ Phase' = "ready"
    BY <2>1 DEF Phase
  <2> QED
    BY <2>1, <2>2, SameGiven, PromiseRefuse DEF Promise!Next
<1>13. CASE RefindEnd
  BY <1>13, RefindEndImpossible
<1>14. CASE CoalesceMerge
  BY <1>14, QuietStep DEF CoalesceMerge, Phase
<1>15. CASE CoalesceEnd
  <2>1. req = 0 /\ req' = 0 /\ pc = "coalesce" /\ pc' = "idle" /\ owned' = owned
    BY <1>15 DEF CoalesceEnd, Return, Locals
  <2> QED
    BY <2>1, QuietStep DEF Phase
<1>16. CASE TermScan
  BY <1>16, QuietStep DEF TermScan, Phase
<1>17. CASE TermUnmap
  <2>1. pc = "term" /\ pc' \in {"off", "term"} /\ owned' = owned /\ req' = req
    BY <1>17 DEF TermUnmap
  <2> QED
    BY <2>1, QuietStep DEF Phase
<1>18. CASE ForeignHeader
  BY <1>18, ForeignHeaderImpossible
<1>19. CASE Segv
  <2>1. /\ pc \in {"find", "refind", "term"} /\ pc' = "segv" /\ start' = start
        /\ owned' = owned /\ req' = req
    BY <1>19 DEF Segv, NoHeader
  <2>2. Phase' = Phase
    BY <2>1 DEF Phase, Locals
  <2> QED
    BY <2>1, <2>2, QuietStep
<1>20. CASE UNCHANGED vars
  BY <1>20, QuietStep DEF vars, Phase
<1>21. CASE NoHeapInit
  <2>1. pc = "off" /\ pc' = "idle" /\ owned' = owned /\ req' = req
    BY <1>21 DEF NoHeapInit
  <2>2. Phase = "off" /\ Phase' = "ready"
    BY <2>1 DEF Phase
  <2> QED
    BY <2>1, <2>2, SameGiven, PromiseOpen DEF Promise!Next
<1> QED
  BY <1>1, <1>2, <1>3, <1>4, <1>5, <1>6, <1>7, <1>8, <1>9, <1>10, <1>11, <1>12,
     <1>13, <1>14, <1>15, <1>16, <1>17, <1>18, <1>19, <1>20, <1>21
     DEF Next, Call, Internal

(* mem.c implements Allocator: what _malloc hands out is large enough and  *)
(* overlaps nothing a client holds, and what is held stays as it is until  *)
(* it is freed (mem.c:188-249).                                            *)
THEOREM PromiseKept ==
  ASSUME HeapStartIsFree, ArgumentsFit
  PROVE  Spec => KeepsPromise
<1>1. Init => Promise!Init
  BY PromiseInit, NothingGiven DEF Init, Phase
<1>2. Init => Locals
  BY DEF Init, Locals
<1>3. Inductive /\ Locals /\ [Next]_vars => Locals'
  BY StepKeepsLocals
<1>4. Inductive /\ Inductive' /\ Locals /\ [Next]_vars
        => [Promise!Next]_(Promise!vars)
  BY StepKeepsPromise
<1> QED
  BY <1>1, <1>2, <1>3, <1>4, InductiveHolds, PTL DEF Spec, KeepsPromise, Promise!Spec

(* Two parts of memory that clients hold at the same time share no byte.   *)
THEOREM HeldStayApart ==
  ASSUME HeapStartIsFree, ArgumentsFit
  PROVE  Spec => []Promise!HeldApart
<1>1. ASSUME Inductive PROVE Promise!HeldApart
  <2>0. HDR \in Nat \ {0} /\ MINCAP \in Nat
    BY LayoutAssumption
  <2>1. /\ DOMAIN Given = Contents(DOMAIN owned)
        /\ \A a \in DOMAIN owned : a + HDR \in DOMAIN Given
                                   /\ Given[a + HDR] = owned[a]
    BY <1>1, GivenOf DEF Inductive
  <2>2. ASSUME NEW a \in DOMAIN owned
        PROVE  /\ a \in DOMAIN hdr /\ a \in Nat /\ owned[a] \in Nat
               /\ hdr[a].cap \in Nat /\ hdr[a].cap >= owned[a]
    <3>1. /\ a \in DOMAIN hdr /\ hdr[a].cap >= AtLeast(owned[a], MINCAP)
          /\ owned[a] \in Nat
      BY <1>1 DEF Inductive, OwnedIsTaken, TypeOK
    <3>2. AtLeast(owned[a], MINCAP) >= owned[a] /\ AtLeast(owned[a], MINCAP) \in Nat
      BY <3>1, <2>0 DEF AtLeast
    <3>3. a \in Nat /\ hdr[a].cap \in Nat
      BY <1>1, <3>1, BlockBelowLimit DEF Inductive
    <3> QED
      BY <3>1, <3>2, <3>3
  <2>3. ASSUME NEW c \in DOMAIN Given, NEW d \in DOMAIN Given, c # d
        PROVE  (c .. (c + Given[c] - 1)) \cap (d .. (d + Given[d] - 1)) = {}
    <3>1. PICK a \in DOMAIN owned, b \in DOMAIN owned : c = a + HDR /\ d = b + HDR
      BY <2>1 DEF Contents
    <3>2. a # b /\ Given[c] = owned[a] /\ Given[d] = owned[b]
      BY <2>1, <2>3, <3>1
    <3>3. \/ a + HDR + hdr[a].cap <= b
          \/ b + HDR + hdr[b].cap <= a
      <4>1. a < b \/ b < a
        BY <2>2, <3>2
      <4> QED
        BY <4>1, <2>2, <1>1 DEF Inductive, BlocksDisjoint, Disjoint, block_after
    <3> QED
      BY <2>0, <2>2, <3>1, <3>2, <3>3
  <2> QED
    BY <2>3 DEF Promise!HeldApart, Promise!Part, Given, Contents
<1> QED
  BY <1>1, InductiveHolds, PTL

=============================================================================
