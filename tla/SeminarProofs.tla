---------------------------- MODULE SeminarProofs -----------------------------
(***************************************************************************)
(* The proofs about two programs of the seminars that work on arrays of    *)
(* any size: the heap of blocks of BlockHeap, for any requests, and the    *)
(* pipe of Pipes, of any capacity.                                         *)
(***************************************************************************)
EXTENDS BlockHeap, Pipes, SequenceTheorems, TLAPS

-----------------------------------------------------------------------------
(* The safety of heap-1.c for a heap of any size and any requests.         *)
(* Block k belongs to the client.                                          *)
Kept(k) == \E b \in held : k \in Run(b[1], b[2])

(* What is left of the run that is being freed ends at e.                  *)
Rest(e) ==
  /\ curr_id <= e /\ status[e] = "BLK_LAST"
  /\ \A k \in curr_id .. e : ~Kept(k)
  /\ \A k \in curr_id .. e - 1 : status[k] # "BLK_LAST"
  /\ \A k \in Blocks : k \notin curr_id .. e => status[k] = "BLK_FREE" \/ Kept(k)

Freeing == heap_pc = "free" => \E e \in Blocks : Rest(e)

Covered == heap_pc # "free" => \A k \in Blocks : status[k] = "BLK_FREE" \/ Kept(k)

(* Nothing that ends before i fits.  The run that counter counts is free   *)
(* and begins behind a block that is taken.                                *)
Searched ==
  heap_pc = "scan" =>
    /\ max_free < size /\ counter <= max_free
    /\ started => /\ start_id < heap_i /\ counter = heap_i - start_id
                  /\ \A k \in start_id .. heap_i - 1 : status[k] = "BLK_FREE"
                  /\ start_id > 0 => status[start_id - 1] # "BLK_FREE"
    /\ ~started => /\ counter = 0
                   /\ heap_i > 0 => status[heap_i - 1] # "BLK_FREE"
    /\ \A v \in Nat : v + size <= heap_i => ~Fits(v, size)

Asked == heap_pc \in {"scan", "mark", "refused"} => size > 0

HeapInv == /\ HeapTypeOK /\ HeldApart /\ HeldMarked
        /\ Freeing /\ Covered /\ Searched /\ Asked
        /\ FirstFit /\ RefusedRightly

-----------------------------------------------------------------------------
(* The blocks of a run have marks that are not free; only its last one can *)
(* be BLK_LAST, and is, unless the run is a single block.                  *)
LEMMA MarkFacts ==
  ASSUME NEW v \in Nat, NEW n \in Nat \ {0}, NEW k \in Run(v, n)
  PROVE  /\ Mark(v, n, k) \in Marks /\ Mark(v, n, k) # "BLK_FREE"
         /\ Mark(v, n, k) = "BLK_ONE" <=> n = 1
         /\ n # 1 => (Mark(v, n, k) = "BLK_LAST" <=> k = v + n - 1)
<1>1. CASE n = 1
  BY <1>1 DEF Mark, Marks
<1>2. CASE n > 1 /\ k = v
  BY <1>2 DEF Mark, Marks
<1>3. CASE n > 1 /\ k = v + n - 1
  BY <1>3 DEF Mark, Marks, Run
<1>4. CASE n > 1 /\ k # v /\ k # v + n - 1
  BY <1>4 DEF Mark, Marks, Run
<1> QED
  BY <1>1, <1>2, <1>3, <1>4

LEMMA HeapInitInv == HeapInit => HeapInv
<1> USE BlockHeapAssumption DEF HeapInit
<1>0. 0 \in Blocks /\ 0 \in 0 .. HEAP_BLOCKS
  BY DEF Blocks
<1>1. HeapInit => HeapTypeOK
  <2> SUFFICES ASSUME HeapInit PROVE HeapTypeOK
    OBVIOUS
  <2>1. status \in [Blocks -> Marks] /\ held \subseteq Blocks \X (Nat \ {0})
    BY DEF Marks
  <2>2. started \in BOOLEAN
    OBVIOUS
  <2> QED
    BY <1>0, <2>1, <2>2 DEF HeapTypeOK
<1>2. HeapInit => HeldApart /\ HeldMarked
  BY DEF HeldApart, HeldMarked
<1>3. HeapInit => Covered
  BY DEF Covered
<1>4. HeapInit => Freeing /\ Searched /\ Asked /\ FirstFit /\ RefusedRightly
  BY DEF Freeing, Searched, Asked, FirstFit, RefusedRightly
<1> QED
  BY <1>1, <1>2, <1>3, <1>4 DEF HeapInv

(* A request begins a search that has seen nothing yet.                    *)
LEMMA AllocateInv ==
  ASSUME HeapInv, block_allocate
  PROVE  HeapInv'
<1> USE BlockHeapAssumption DEF block_allocate, HeapInv
<1>0. size' \in Nat /\ size' > 0
  OBVIOUS
<1>1. HeapTypeOK' /\ HeldApart' /\ HeldMarked'
  <2>1. HeapTypeOK'
    <3>1. 0 \in Blocks /\ 0 \in 0 .. HEAP_BLOCKS
      BY DEF Blocks
    <3> QED
      BY <1>0, <3>1 DEF HeapTypeOK
  <2>2. HeldApart' /\ HeldMarked'
    BY DEF HeldApart, HeldMarked
  <2> QED
    BY <2>1, <2>2
<1>2. Freeing' /\ Covered' /\ Asked' /\ FirstFit' /\ RefusedRightly'
  BY DEF Freeing, Covered, Kept, Asked, FirstFit, RefusedRightly
<1>3. Searched'
  <2>1. \A v \in Nat : ~(v + size' <= heap_i')
    <3>1. heap_i' = 0
      OBVIOUS
    <3>2. \A v, n \in Nat : n > 0 => ~(v + n <= 0)
      OBVIOUS
    <3> QED
      BY <1>0, <3>1, <3>2
  <2>2. max_free' < size' /\ counter' <= max_free' /\ counter' = 0 /\ ~(heap_i' > 0)
    BY <1>0
  <2>3. started' = FALSE
    OBVIOUS
  <2> QED
    BY <2>1, <2>2, <2>3 DEF Searched
<1> QED
  BY <1>1, <1>2, <1>3

(* A taken block ends the run that was counted: no run that ends at i is   *)
(* free.                                                                   *)
LEMMA ScanTakenInv ==
  ASSUME HeapInv, ScanTaken
  PROVE  HeapInv'
<1> USE BlockHeapAssumption DEF ScanTaken, HeapInv
<1>1. HeapTypeOK' /\ HeldApart' /\ HeldMarked'
  <2>0. started \in BOOLEAN /\ counter \in 0 .. HEAP_BLOCKS
    BY DEF HeapTypeOK
  <2>1. heap_i' \in 0 .. HEAP_BLOCKS
    BY DEF HeapTypeOK, Blocks
  <2>4. counter' \in 0 .. HEAP_BLOCKS /\ started' \in BOOLEAN
    <3>1. CASE started
      <4>1. counter' = 0
        BY <3>1
      <4>2. started' = FALSE
        BY <3>1, Zenon
      <4>3. counter' \in 0 .. HEAP_BLOCKS
        BY <4>1
      <4> QED
        BY <4>2, <4>3, Zenon
    <3>2. CASE ~started
      <4>1. counter' = counter /\ started' = started
        BY <3>2
      <4> QED
        BY <2>0, <4>1
    <3> QED
      BY <3>1, <3>2
  <2>2. HeapTypeOK'
    BY <2>1, <2>4 DEF HeapTypeOK
  <2>3. HeldApart' /\ HeldMarked'
    BY DEF HeldApart, HeldMarked
  <2> QED
    BY <2>2, <2>3
<1>2. Freeing' /\ Covered' /\ Asked' /\ FirstFit' /\ RefusedRightly'
  BY DEF Freeing, Covered, Kept, Asked, FirstFit, RefusedRightly
<1>3. Searched'
  <2>1. ASSUME NEW v \in Nat, v + size <= heap_i + 1
        PROVE  ~Fits(v, size)
    <3>1. CASE v + size <= heap_i
      BY <3>1 DEF Searched
    <3>2. CASE v + size = heap_i + 1
      <4>1. heap_i \in Run(v, size)
        BY <3>2 DEF Run, HeapTypeOK, Asked, Blocks
      <4> QED
        BY <4>1 DEF Fits
    <3> QED
      BY <2>1, <3>1, <3>2 DEF HeapTypeOK, Blocks
  <2>2. started' = FALSE /\ counter' = 0
    BY DEF Searched, HeapTypeOK
  <2>3. heap_i' > 0 => status'[heap_i' - 1] # "BLK_FREE"
    BY DEF HeapTypeOK, Blocks
  <2>4. \A v \in Nat : v + size' <= heap_i' => ~Fits(v, size)'
    BY <2>1 DEF Fits
  <2> QED
    BY <2>2, <2>3, <2>4 DEF Searched, HeapTypeOK
<1> QED
  BY <1>1, <1>2, <1>3

(* A free block is counted.  When the run is long enough it is the first   *)
(* one; else no run that ends at i fits, since the block before this run   *)
(* is taken.                                                               *)
LEMMA ScanFreeInv ==
  ASSUME HeapInv, ScanFree
  PROVE  HeapInv'
<1> USE BlockHeapAssumption DEF ScanFree, HeapInv, Begin, Count, Enough
<1> DEFINE s == IF started THEN start_id ELSE heap_i
           c == counter + 1
<1>1. /\ s \in Nat /\ s <= heap_i /\ c = heap_i + 1 - s
      /\ \A k \in s .. heap_i : status[k] = "BLK_FREE"
      /\ s > 0 => status[s - 1] # "BLK_FREE"
  <2>1. CASE started
    BY <2>1 DEF Searched, HeapTypeOK, Blocks
  <2>2. CASE ~started
    BY <2>2 DEF Searched, HeapTypeOK, Blocks
  <2> QED
    BY <2>1, <2>2 DEF HeapTypeOK
<1>2. /\ start_id' = s /\ counter' = c /\ started' = TRUE
      /\ max_free' = IF c >= max_free THEN c ELSE max_free
  BY DEF new_max
<1>3. heap_i \in Nat /\ heap_i < HEAP_BLOCKS /\ max_free \in Nat /\ max_free < size
      /\ size \in Nat /\ size > 0
  BY DEF HeapTypeOK, Blocks, Searched, Asked
<1>4. max_free' >= size <=> c >= size
  BY <1>1, <1>2, <1>3
<1> HIDE DEF s, c
<1>5. HeapTypeOK' /\ HeldApart' /\ HeldMarked'
  <2>1. HeldApart' /\ HeldMarked'
    BY DEF HeldApart, HeldMarked, Blocks
  <2>2. counter' \in 0 .. HEAP_BLOCKS /\ start_id' \in Blocks /\ max_free' \in 0 .. HEAP_BLOCKS
    BY <1>1, <1>2, <1>3 DEF Blocks, HeapTypeOK
  <2>3. heap_i' \in 0 .. HEAP_BLOCKS /\ started' \in BOOLEAN
    BY <1>2, <1>3
  <2> QED
    BY <2>1, <2>2, <2>3 DEF HeapTypeOK
<1>6. Freeing' /\ Covered' /\ Asked' /\ RefusedRightly'
  BY DEF Freeing, Covered, Kept, Asked, RefusedRightly
<1>7. \A v \in Nat : v + size <= heap_i => ~Fits(v, size)
  BY DEF Searched
<1>8. CASE c >= size
  <2>1. c = size
    <3>1. counter <= max_free /\ counter \in Nat
      BY DEF Searched, HeapTypeOK
    <3> QED
      BY <1>3, <1>8, <3>1 DEF c
  <2>2. Fits(s, size)
    <3>1. s + size = heap_i + 1
      BY <1>1, <1>3, <2>1
    <3> QED
      BY <1>1, <1>3, <3>1 DEF Fits, Run
  <2>3. \A v \in 0 .. s - 1 : ~Fits(v, size)
    BY <1>1, <1>3, <1>7, <2>1
  <2>4. heap_pc' = "mark"
    BY <1>4, <1>8
  <2>5. FirstFit'
    BY <1>2, <2>2, <2>3 DEF FirstFit, Fits
  <2>6. Searched'
    BY <2>4 DEF Searched
  <2> QED
    BY <1>5, <1>6, <2>5, <2>6
<1>9. CASE ~(c >= size)
  <2>1. heap_pc' = "scan" /\ heap_i' = heap_i + 1
    BY <1>4, <1>9
  <2>2. ASSUME NEW v \in Nat, v + size <= heap_i + 1
        PROVE  ~Fits(v, size)
    <3>1. CASE v + size <= heap_i
      BY <1>7, <3>1
    <3>2. CASE v + size = heap_i + 1
      <4>1. v < s
        BY <1>1, <1>3, <1>9, <3>2
      <4>2. s - 1 \in Run(v, size) /\ status[s - 1] # "BLK_FREE"
        BY <1>1, <1>3, <3>2, <4>1 DEF Run
      <4> QED
        BY <4>2 DEF Fits
    <3> QED
      BY <1>3, <2>2, <3>1, <3>2
  <2>3. \A v \in Nat : v + size' <= heap_i' => ~Fits(v, size)'
    BY <2>1, <2>2 DEF Fits
  <2>4. max_free' < size' /\ counter' <= max_free'
    <3>1. c \in Nat
      BY DEF c, HeapTypeOK
    <3> QED
      BY <1>2, <1>3, <1>9, <3>1
  <2>5. /\ start_id' < heap_i' /\ counter' = heap_i' - start_id'
        /\ \A k \in start_id' .. heap_i' - 1 : status'[k] = "BLK_FREE"
        /\ start_id' > 0 => status'[start_id' - 1] # "BLK_FREE"
    BY <1>1, <1>2, <1>3, <2>1
  <2>6. Searched'
    BY <1>2, <2>3, <2>4, <2>5 DEF Searched
  <2>7. FirstFit'
    BY <2>1 DEF FirstFit
  <2> QED
    BY <1>5, <1>6, <2>6, <2>7
<1> QED
  BY <1>8, <1>9

(* At the end of the heap nothing at all fits.                             *)
LEMMA ScanEndInv ==
  ASSUME HeapInv, ScanEnd \/ Refuse
  PROVE  HeapInv'
<1> USE BlockHeapAssumption DEF ScanEnd, Refuse, HeapInv, locals
<1>1. HeapTypeOK' /\ HeldApart' /\ HeldMarked'
  BY DEF HeapTypeOK, HeldApart, HeldMarked, Blocks
<1>2. Freeing' /\ Covered' /\ Asked' /\ Searched'
  BY DEF Freeing, Covered, Kept, Asked, Searched, HeapTypeOK
<1>3. FirstFit'
  BY DEF FirstFit, Searched
<1>4. RefusedRightly'
  <2>1. CASE ScanEnd
    <3>1. \A v \in Nat : v + size <= HEAP_BLOCKS => ~Fits(v, size)
      BY <2>1 DEF Searched
    <3>2. \A v \in Blocks : ~Fits(v, size)
      BY <3>1 DEF Fits, Blocks
    <3> QED
      BY <2>1, <3>2 DEF RefusedRightly, Fits
  <2>2. CASE Refuse
    BY <2>2 DEF RefusedRightly
  <2> QED
    BY <2>1, <2>2
<1> QED
  BY <1>1, <1>2, <1>3, <1>4

(* Marking a free run takes nothing from anybody.                          *)
LEMMA MarkRunInv ==
  ASSUME HeapInv, MarkRun
  PROVE  HeapInv'
<1> USE BlockHeapAssumption DEF MarkRun, HeapInv, locals
<1> DEFINE new == Run(start_id, size)
<1>1. /\ start_id \in Nat /\ size \in Nat \ {0} /\ new \subseteq Blocks
      /\ \A k \in new : status[k] = "BLK_FREE"
  BY DEF FirstFit, Fits, Run, Blocks, HeapTypeOK, Asked
<1>2. ASSUME NEW b \in held, NEW k \in Run(b[1], b[2])
      PROVE  k \notin new /\ k \in Blocks
  <2>1. b[1] \in Nat /\ b[2] \in Nat \ {0}
    BY DEF HeapTypeOK, Blocks
  <2>2. status[k] = Mark(b[1], b[2], k) /\ k \in Blocks
    BY DEF HeldMarked, HeldApart
  <2> QED
    BY <1>1, <2>1, <2>2, MarkFacts
<1>3. held' = held \cup {<<start_id, size>>}
  OBVIOUS
<1>4. \A k \in new : status'[k] = Mark(start_id, size, k)
  BY <1>1
<1>5. \A k \in Blocks : k \notin new => status'[k] = status[k]
  OBVIOUS
<1>6. HeapTypeOK'
  <2>1. \A k \in new : Mark(start_id, size, k) \in Marks
    BY <1>1, MarkFacts
  <2>2. status' \in [Blocks -> Marks]
    BY <2>1 DEF HeapTypeOK
  <2>3. held' \subseteq Blocks \X (Nat \ {0})
    BY <1>1 DEF HeapTypeOK
  <2> QED
    BY <2>2, <2>3 DEF HeapTypeOK
<1> HIDE DEF new
<1>7. HeldApart'
  <2>1. \A b \in held' : b \in held \/ (b[1] = start_id /\ b[2] = size)
    BY <1>3
  <2>2. \A b \in held' : Run(b[1], b[2]) \subseteq Blocks
    BY <1>1, <1>2, <2>1 DEF new
  <2>3. \A b, c \in held' : b # c => Run(b[1], b[2]) \cap Run(c[1], c[2]) = {}
    <3> SUFFICES ASSUME NEW b \in held', NEW c \in held', b # c
                 PROVE  Run(b[1], b[2]) \cap Run(c[1], c[2]) = {}
      OBVIOUS
    <3>1. CASE b \in held /\ c \in held
      BY <3>1 DEF HeldApart
    <3>2. CASE b \in held /\ c = <<start_id, size>>
      BY <1>2, <3>2 DEF new
    <3>3. CASE c \in held /\ b = <<start_id, size>>
      BY <1>2, <3>3 DEF new
    <3> QED
      BY <1>3, <3>1, <3>2, <3>3
  <2> QED
    BY <2>2, <2>3 DEF HeldApart, Blocks
<1>8. HeldMarked'
  <2> SUFFICES ASSUME NEW b \in held', NEW k \in Run(b[1], b[2])
               PROVE  status'[k] = Mark(b[1], b[2], k)
    BY DEF HeldMarked
  <2>1. CASE b \in held
    BY <1>2, <1>5, <2>1 DEF HeldMarked
  <2>2. CASE b = <<start_id, size>>
    BY <1>4, <2>2 DEF new
  <2> QED
    BY <1>3, <2>1, <2>2
<1>9. Covered'
  <2>1. \A k \in Blocks : Kept(k) => Kept(k)'
    BY <1>3 DEF Kept
  <2>2. \A k \in new : Kept(k)'
    <3>1. <<start_id, size>> \in held'
      BY <1>3
    <3>2. new = Run(<<start_id, size>>[1], <<start_id, size>>[2])
      BY DEF new
    <3> QED
      BY <3>1, <3>2 DEF Kept
  <2> QED
    BY <1>5, <2>1, <2>2 DEF Covered, Blocks
<1>10. Freeing' /\ Searched' /\ Asked' /\ FirstFit' /\ RefusedRightly'
  BY DEF Freeing, Searched, Asked, FirstFit, RefusedRightly
<1> QED
  BY <1>6, <1>7, <1>8, <1>9, <1>10

(* A single block is cleared at once; of a run the search for the last     *)
(* mark begins.                                                            *)
LEMMA BlockFreeInv ==
  ASSUME HeapInv, block_free
  PROVE  HeapInv'
<1> USE BlockHeapAssumption DEF HeapInv
<1> PICK b \in held :
       /\ held' = held \ {b} /\ curr_id' = b[1]
       /\ IF status[b[1]] = "BLK_ONE"
          THEN status' = [status EXCEPT ![b[1]] = "BLK_FREE"] /\ UNCHANGED heap_pc
          ELSE heap_pc' = "free" /\ UNCHANGED status
  BY DEF block_free
<1>1. heap_pc = "idle" /\ UNCHANGED locals
  BY DEF block_free
<1> DEFINE v == b[1]
           n == b[2]
<1>2. v \in Blocks /\ v \in Nat /\ n \in Nat \ {0} /\ v \in Run(v, n)
  BY DEF HeapTypeOK, Blocks, Run
<1>3. Run(v, n) \subseteq Blocks /\ \A k \in Run(v, n) : status[k] = Mark(v, n, k)
  BY DEF HeldApart, HeldMarked
<1>4. \A c \in held' : c \in held /\ Run(c[1], c[2]) \cap Run(v, n) = {}
  BY DEF HeldApart
<1>5. \A k \in Run(v, n) : ~Kept(k)'
  BY <1>4 DEF Kept
<1>6. \A k \in Blocks : k \notin Run(v, n) => status[k] = "BLK_FREE" \/ Kept(k)'
  BY <1>1 DEF Covered, Kept
<1>7. status[v] = "BLK_ONE" <=> n = 1
  BY <1>2, <1>3, MarkFacts
<1> HIDE DEF v, n
<1>8. HeapTypeOK' /\ HeldApart'
  <2>1. status' \in [Blocks -> Marks] /\ held' \subseteq held
    BY <1>2 DEF HeapTypeOK, Marks
  <2>2. curr_id' \in Blocks /\ heap_pc' \in {"idle", "free"}
    BY <1>1, <1>2 DEF v
  <2> QED
    BY <1>1, <2>1, <2>2 DEF HeapTypeOK, HeldApart, locals
<1>9. Asked' /\ Searched' /\ FirstFit' /\ RefusedRightly'
  <2>1. heap_pc' \in {"idle", "free"}
    BY <1>1
  <2> QED
    BY <2>1 DEF Asked, Searched, FirstFit, RefusedRightly
<1>10. CASE n = 1
  <2>1. status' = [status EXCEPT ![v] = "BLK_FREE"] /\ heap_pc' = "idle"
    BY <1>1, <1>7, <1>10 DEF v
  <2>2. Run(v, n) = {v}
    BY <1>2, <1>10 DEF Run
  <2>3. HeldMarked'
    BY <1>4, <2>1, <2>2 DEF HeldMarked, HeapTypeOK, HeldApart
  <2>4. Covered'
    BY <1>2, <1>6, <2>1, <2>2 DEF Covered, HeapTypeOK
  <2>5. Freeing'
    BY <2>1 DEF Freeing
  <2> QED
    BY <1>8, <1>9, <2>3, <2>4, <2>5
<1>11. CASE n # 1
  <2>1. UNCHANGED status /\ heap_pc' = "free" /\ curr_id' = v
    BY <1>7, <1>11 DEF v
  <2>2. HeldMarked' /\ Covered'
    BY <1>4, <2>1 DEF HeldMarked, Covered
  <2>3. v + n - 1 \in Run(v, n) /\ v .. v + n - 1 = Run(v, n)
    BY <1>2 DEF Run
  <2>4. status[v + n - 1] = "BLK_LAST"
    BY <1>2, <1>3, <1>11, <2>3, MarkFacts
  <2>5. ASSUME NEW k \in v .. v + n - 1 - 1
        PROVE  status[k] # "BLK_LAST"
    <3>1. k \in Run(v, n) /\ k # v + n - 1
      BY <1>2 DEF Run
    <3> QED
      BY <1>2, <1>3, <1>11, <3>1, MarkFacts
  <2>6. Rest(v + n - 1)'
    BY <1>2, <1>5, <1>6, <2>1, <2>3, <2>4, <2>5 DEF Rest
  <2>7. Freeing'
    BY <1>3, <2>3, <2>6 DEF Freeing, Blocks
  <2> QED
    BY <1>8, <1>9, <2>2, <2>7
<1> QED
  BY <1>10, <1>11

(* A block of the run that is freed is cleared, and the last one ends it.  *)
LEMMA FreeStepInv ==
  ASSUME HeapInv, FreeNext \/ FreeLast
  PROVE  HeapInv'
<1> USE BlockHeapAssumption DEF HeapInv
<1>1. /\ heap_pc = "free" /\ curr_id \in Blocks /\ held' = held /\ UNCHANGED locals
      /\ status' = [status EXCEPT ![curr_id] = "BLK_FREE"]
  BY DEF FreeNext, FreeLast
<1>2. PICK e \in Blocks : Rest(e)
  BY <1>1 DEF Freeing
<1>3. curr_id \in Nat /\ e \in Nat /\ curr_id <= e /\ ~Kept(curr_id)
  BY <1>1, <1>2 DEF Rest, Blocks
<1>4. \A k : Kept(k)' <=> Kept(k)
  BY <1>1 DEF Kept
<1>5. HeldApart' /\ HeldMarked'
  <2>1. \A c \in held : curr_id \notin Run(c[1], c[2])
    BY <1>3 DEF Kept
  <2>2. HeldMarked'
    BY <1>1, <2>1 DEF HeldMarked, HeldApart, HeapTypeOK
  <2> QED
    BY <1>1, <2>2 DEF HeldApart
<1>6. CASE FreeNext
  <2>1. curr_id' = curr_id + 1 /\ heap_pc' = "free" /\ curr_id # e
    BY <1>2, <1>6 DEF FreeNext, Rest
  <2>2. Rest(e)'
    BY <1>1, <1>2, <1>3, <1>4, <2>1 DEF Rest, HeapTypeOK, Blocks
  <2>3. HeapTypeOK'
    <3>1. curr_id' \in Blocks /\ status' \in [Blocks -> Marks]
      BY <1>1, <1>3, <2>1 DEF HeapTypeOK, Blocks, Marks
    <3> QED
      BY <1>1, <2>1, <3>1 DEF HeapTypeOK, locals
  <2>4. Freeing' /\ Covered'
    BY <2>1, <2>2 DEF Freeing, Covered, Blocks
  <2>5. Asked' /\ Searched' /\ FirstFit' /\ RefusedRightly'
    BY <2>1 DEF Asked, Searched, FirstFit, RefusedRightly
  <2> QED
    BY <1>5, <2>3, <2>4, <2>5
<1>7. CASE FreeLast
  <2>1. curr_id' = curr_id /\ heap_pc' = "idle" /\ curr_id = e
    BY <1>2, <1>3, <1>7 DEF FreeLast, Rest
  <2>2. Covered'
    BY <1>1, <1>2, <1>3, <1>4, <2>1 DEF Rest, Covered, HeapTypeOK
  <2>3. HeapTypeOK'
    <3>1. status' \in [Blocks -> Marks]
      BY <1>1 DEF HeapTypeOK, Marks
    <3> QED
      BY <1>1, <2>1, <3>1 DEF HeapTypeOK, locals
  <2>4. Freeing' /\ Asked' /\ Searched' /\ FirstFit' /\ RefusedRightly'
    BY <2>1 DEF Freeing, Asked, Searched, FirstFit, RefusedRightly
  <2> QED
    BY <1>5, <2>2, <2>3, <2>4
<1> QED
  BY <1>6, <1>7

LEMMA HeapStepInv == HeapInv /\ [HeapNext]_heap_vars => HeapInv'
<1> SUFFICES ASSUME HeapInv, [HeapNext]_heap_vars
             PROVE  HeapInv'
  OBVIOUS
<1>1. CASE UNCHANGED heap_vars
  BY <1>1 DEF heap_vars, locals, HeapInv, HeapTypeOK, HeldApart, HeldMarked, Freeing, Rest, Kept,
     Covered, Searched, Asked, FirstFit, RefusedRightly, Fits
<1> QED
  BY <1>1, AllocateInv, BlockFreeInv, ScanTakenInv, ScanFreeInv, ScanEndInv,
     MarkRunInv, FreeStepInv DEF HeapNext, Internal

-----------------------------------------------------------------------------
(* The invariant holds for a heap of any size.                             *)
THEOREM HeapInvariantHolds == HeapSpec => []HeapInv
BY HeapInitInv, HeapStepInv, PTL DEF HeapSpec

(* The variables have their types, and no loop leaves the array: the loop  *)
(* of line 90 always meets a BLK_LAST.                                     *)
THEOREM TypeCorrect == HeapSpec => []HeapTypeOK
BY HeapInvariantHolds, PTL DEF HeapInv

(* What the client holds stays apart and keeps its marks (lines 71-80 and  *)
(* 84-96).                                                                 *)
THEOREM HeldStaysWhole == HeapSpec => []HeldWhole
<1>1. HeapInv => HeldWhole
  BY DEF HeapInv, HeldWhole
<1> QED
  BY <1>1, HeapInvariantHolds, PTL

(* Between calls every block that nobody holds is free.                    *)
THEOREM FreeingIsComplete == HeapSpec => []NothingLost
<1>1. HeapInv => NothingLost
  BY DEF HeapInv, Covered, Kept, NothingLost
<1> QED
  BY <1>1, HeapInvariantHolds, PTL

(* The search finds the first run that fits, if there is one (lines 53-70).*)
THEOREM SearchIsRight == HeapSpec => []SearchRight
<1>1. HeapInv => SearchRight
  BY DEF HeapInv, SearchRight
<1> QED
  BY <1>1, HeapInvariantHolds, PTL

-----------------------------------------------------------------------------
(* The pipe, whichever process is killed: what the parent has printed,     *)
(* what it holds, what is in the pipe and what the child has in hand are   *)
(* together, and in order, the changes the child has made.                 *)
Messages == [finished : BOOLEAN, arr : [Places -> Nat]]

TypeOK ==
  /\ queue \in Seq(Messages) /\ msg \in Messages
  /\ ends \in [{"child", "parent"} -> SUBSET Ends]
  /\ writer \in {"close_00", "close_11", "scan", "write", "write_last", "close_01",
                 "close_10", "gone"}
  /\ reader \in {"close_01", "close_10", "read", "print", "close_11", "close_00",
                 "ended", "gone"}
  /\ child_arr \in [Places -> Nat]
  /\ changes \in Seq([Places -> Nat]) /\ prints \in Seq([Places -> Nat])

(* The child has closed its end, or is about to.                           *)
Finishing == writer \in {"close_01", "close_10", "gone"}

Number(b) == IF b THEN 1 ELSE 0

(* How many arrays the parent has read.                                    *)
Taken == Len(prints) + Number(reader = "print")

(* The parent has shown what was made, in order.                           *)
Printed ==
  /\ Len(prints) <= Len(changes) /\ \A k \in 1 .. Len(prints) : prints[k] = changes[k]
  /\ reader = "print" => Len(prints) < Len(changes) /\ msg.arr = changes[Len(prints) + 1]

(* In the pipe are the arrays that come next, and behind them at most one  *)
(* message that the child has finished.  What a parent that is gone has    *)
(* not printed does not count.                                             *)
Piped ==
  reader # "gone" =>
    \A k \in 1 .. Len(queue) :
      IF queue[k].finished THEN k = Len(queue) /\ Finishing
      ELSE Taken + k <= Len(changes) /\ queue[k].arr = changes[Taken + k]

(* How many arrays are on their way: all that the parent has not read, but *)
(* for one the child has not written, or was killed before it could.       *)
Arrays == Len(queue) - Number(queue # <<>> /\ queue[Len(queue)].finished)

Missing == Len(changes) - Taken - Arrays

NoneMissing ==
  reader # "gone" =>
    /\ writer = "write" => Missing = 1
    /\ writer = "gone" => Missing \in {0, 1}
    /\ writer \notin {"write", "gone"} => Missing = 0

(* The pipe cannot end before the child ends.                              *)
ChildHolds ==
  /\ writer = "write" => changes # <<>> /\ child_arr = changes[Len(changes)]
  /\ writer \notin {"close_10", "gone"} => <<0, WRITE>> \in ends["child"]
  /\ reader \in {"close_11", "close_00", "ended"} => queue = <<>> /\ Finishing

IInv == TypeOK /\ Printed /\ Piped /\ NoneMissing /\ ChildHolds

(* Sequences grow at their end.                                            *)
LEMMA AppendFront ==
  ASSUME NEW T, NEW q \in Seq(T), NEW e \in T
  PROVE  /\ Append(q, e) \in Seq(T) /\ Append(q, e) # <<>>
         /\ Len(Append(q, e)) = Len(q) + 1 /\ Append(q, e)[Len(q) + 1] = e
         /\ \A k \in 1 .. Len(q) : Append(q, e)[k] = q[k]
         /\ SubSeq(Append(q, e), 1, Len(Append(q, e)) - 1) = q
<1>1. /\ Append(q, e) \in Seq(T) /\ Append(q, e) # <<>>
      /\ Len(Append(q, e)) = Len(q) + 1 /\ Append(q, e)[Len(q) + 1] = e
      /\ \A k \in 1 .. Len(q) : Append(q, e)[k] = q[k]
  BY AppendProperties
<1>2. Len(q) \in Nat
  BY LenProperties
<1> DEFINE f == SubSeq(Append(q, e), 1, Len(q))
<1>3. /\ f \in Seq(T) /\ Len(f) = Len(q)
      /\ \A k \in 1 .. Len(q) : f[k] = q[k]
  <2>1. \A k \in 1 .. Len(q) : Append(q, e)[k] \in T
    BY <1>1, ElementOfSeq
  <2>2. 1 \in Int /\ Len(q) \in Int
    BY <1>2
  <2> HIDE DEF f
  <2>3. /\ f \in Seq(T) /\ Len(f) = IF 1 <= Len(q) THEN Len(q) - 1 + 1 ELSE 0
        /\ \A k \in 1 .. Len(q) - 1 + 1 : f[k] = Append(q, e)[1 + k - 1]
    BY <2>1, <2>2, SubSeqProperties DEF f
  <2> QED
    BY <1>1, <1>2, <2>3
<1>4. f = q
  BY <1>2, <1>3, SeqEqual
<1> QED
  BY <1>1, <1>2, <1>4


-----------------------------------------------------------------------------
(* Each step keeps the invariant.                                          *)

LEMMA Lengths ==
  ASSUME TypeOK
  PROVE  /\ Len(queue) \in Nat /\ Len(changes) \in Nat /\ Len(prints) \in Nat
         /\ Taken \in Nat /\ Arrays \in Int /\ (queue = <<>> <=> Len(queue) = 0)
<1>1. Len(queue) \in Nat /\ Len(changes) \in Nat /\ Len(prints) \in Nat
  BY LenProperties DEF TypeOK
<1>2. queue = <<>> <=> Len(queue) = 0
  BY EmptySeq DEF TypeOK
<1> QED
  BY <1>1, <1>2 DEF Taken, Arrays, Number

LEMMA InitInv ==
  ASSUME PipeInit
  PROVE  IInv
<1>1. TypeOK
  BY PipesAssumption DEF PipeInit, TypeOK, Messages, Places, Ends
<1>2. /\ Len(queue) = 0 /\ Len(changes) = 0 /\ Len(prints) = 0
      /\ Taken = 0 /\ Arrays = 0 /\ reader = "close_01" /\ writer \in {"close_00", "gone"}
  BY EmptySeq DEF PipeInit, Taken, Arrays, Number
<1>3. Printed /\ Piped /\ NoneMissing
  BY <1>2 DEF Printed, Piped, NoneMissing, Missing
<1>4. ChildHolds
  BY DEF PipeInit, ChildHolds, Ends, READ, WRITE
<1> QED
  BY <1>1, <1>3, <1>4 DEF IInv

(* A step of the child that changes no array and writes no message.        *)
LEMMA ChildStays ==
  ASSUME IInv, UNCHANGED <<queue, reader, child_arr, msg, changes, prints>>,
         \/ writer' = writer /\ ends' = ends
         \/ ChildCloses
         \/ writer = "scan" /\ writer' = "write_last" /\ UNCHANGED ends
         \/ writer = "close_01" /\ writer' = "close_10" /\ Close("child", <<0, WRITE>>)
         \/ writer' = "gone" /\ Gone("child")
  PROVE  IInv'
<1>1. TypeOK'
  BY DEF IInv, TypeOK, ChildCloses, Close, Gone
<1>2. Printed'
  BY DEF IInv, Printed
<1>3. Taken' = Taken /\ Arrays' = Arrays /\ Missing' = Missing
  BY DEF Taken, Arrays, Missing, Number
<1>4. Finishing => Finishing'
  BY DEF Finishing, ChildCloses
<1>5. Piped'
  BY <1>3, <1>4 DEF IInv, Piped
<1>6. NoneMissing'
  BY <1>3 DEF IInv, NoneMissing, ChildCloses
<1>7. ChildHolds'
  <2>1. writer' \notin {"close_10", "gone"} => <<0, WRITE>> \in ends'["child"]
    BY DEF IInv, TypeOK, ChildHolds, ChildCloses, Close, READ, WRITE
  <2>2. writer' = "write" => writer = "write"
    BY DEF ChildCloses
  <2> QED
    BY <1>4, <2>1, <2>2 DEF IInv, ChildHolds
<1> QED
  BY <1>1, <1>2, <1>5, <1>6, <1>7 DEF IInv

LEMMA ScanInv ==
  ASSUME IInv, ScanIndex
  PROVE  IInv'
<1>1. /\ writer = "scan" /\ writer' = "write" /\ changes' = Append(changes, child_arr')
      /\ UNCHANGED <<queue, ends, reader, msg, prints>>
  BY DEF ScanIndex
<1>2. child_arr' \in [Places -> Nat]
  BY DEF ScanIndex, IInv, TypeOK
<1>3. /\ Len(changes') = Len(changes) + 1 /\ changes'[Len(changes) + 1] = child_arr'
      /\ changes' \in Seq([Places -> Nat]) /\ changes' # <<>>
      /\ \A k \in 1 .. Len(changes) : changes'[k] = changes[k]
  <2>1. changes \in Seq([Places -> Nat])
    BY DEF IInv, TypeOK
  <2> QED
    BY <1>1, <1>2, <2>1, AppendFront
<1>4. TypeOK'
  BY <1>1, <1>2, <1>3 DEF IInv, TypeOK
<1>5. /\ Len(queue) \in Nat /\ Len(changes) \in Nat /\ Len(prints) \in Nat
      /\ Taken \in Nat /\ Arrays \in Int
  BY Lengths DEF IInv
<1>6. Taken' = Taken /\ Arrays' = Arrays /\ ~Finishing
  BY <1>1 DEF Taken, Arrays, Number, Finishing
<1>7. Printed'
  BY <1>1, <1>3, <1>5 DEF IInv, Printed
<1>8. Piped'
  BY <1>1, <1>3, <1>5, <1>6 DEF IInv, Piped
<1>9. NoneMissing'
  <2>1. Missing' = Missing + 1
    BY <1>3, <1>5, <1>6 DEF Missing
  <2>2. reader # "gone" => Missing = 0
    BY <1>1 DEF IInv, NoneMissing
  <2> QED
    BY <1>1, <2>1, <2>2 DEF NoneMissing
<1>10. ChildHolds'
  BY <1>1, <1>3, <1>6 DEF IInv, ChildHolds
<1> QED
  BY <1>4, <1>7, <1>8, <1>9, <1>10 DEF IInv

LEMMA WriteInv ==
  ASSUME IInv, Write
  PROVE  IInv'
<1> DEFINE m == IF writer = "write" THEN data ELSE break_data
<1>1. /\ writer \in {"write", "write_last"} /\ queue' = Append(queue, m)
      /\ writer' = (IF writer = "write" THEN "scan" ELSE "close_01")
      /\ UNCHANGED <<ends, reader, child_arr, msg, changes, prints>>
  BY DEF Write
<1>2. m \in Messages /\ (m.finished <=> writer = "write_last") /\ (writer = "write" => m.arr = child_arr)
  BY <1>1 DEF IInv, TypeOK, Messages, data, break_data
<1> HIDE DEF m
<1>3. /\ queue' \in Seq(Messages) /\ Len(queue') = Len(queue) + 1 /\ queue' # <<>>
      /\ queue'[Len(queue) + 1] = m /\ \A k \in 1 .. Len(queue) : queue'[k] = queue[k]
  <2>1. queue \in Seq(Messages)
    BY DEF IInv, TypeOK
  <2> QED
    BY <1>1, <1>2, <2>1, AppendFront
<1>4. /\ Len(queue) \in Nat /\ Len(changes) \in Nat /\ Len(prints) \in Nat
      /\ Taken \in Nat /\ Arrays \in Int /\ (queue = <<>> <=> Len(queue) = 0)
  BY Lengths DEF IInv
<1>5. TypeOK'
  BY <1>1, <1>3 DEF IInv, TypeOK
<1>6. Printed'
  BY <1>1 DEF IInv, Printed
<1>7. Taken' = Taken /\ ~Finishing
  BY <1>1 DEF Taken, Number, Finishing
<1>8. reader # "gone" => Arrays = Len(queue)
  BY <1>4, <1>7 DEF IInv, Piped, Arrays, Number
<1>9. Arrays' = Len(queue) + Number(writer = "write")
  <2>1. queue'[Len(queue')].finished <=> writer = "write_last"
    BY <1>2, <1>3
  <2>2. Arrays' = Len(queue') - Number(queue' # <<>> /\ queue'[Len(queue')].finished)
    BY DEF Arrays, Number
  <2>3. CASE writer = "write"
    <3>1. Arrays' = Len(queue') - 0 /\ Number(writer = "write") = 1
      BY <2>1, <2>2, <2>3 DEF Number
    <3> QED
      BY <1>3, <1>4, <3>1
  <2>4. CASE writer = "write_last"
    <3>1. Arrays' = Len(queue') - 1 /\ Number(writer = "write") = 0
      BY <1>3, <2>1, <2>2, <2>4 DEF Number
    <3> QED
      BY <1>3, <1>4, <3>1
  <2> QED
    BY <1>1, <2>3, <2>4
<1>10. Piped'
  <2> SUFFICES ASSUME reader # "gone", NEW k \in 1 .. Len(queue')
               PROVE  IF queue'[k].finished THEN k = Len(queue') /\ Finishing'
                      ELSE Taken' + k <= Len(changes') /\ queue'[k].arr = changes'[Taken' + k]
    BY <1>1 DEF Piped
  <2>1. CASE k \in 1 .. Len(queue)
    BY <1>1, <1>3, <1>7, <2>1 DEF IInv, Piped
  <2>2. CASE k = Len(queue) + 1 /\ writer = "write"
    <3>1. Len(changes) = Taken + Len(queue) + 1
      BY <1>4, <1>8, <2>2 DEF IInv, NoneMissing, Missing
    <3>2. child_arr = changes[Len(changes)]
      BY <2>2 DEF IInv, ChildHolds
    <3> QED
      BY <1>1, <1>2, <1>3, <1>4, <1>7, <2>2, <3>1, <3>2
  <2>3. CASE k = Len(queue) + 1 /\ writer = "write_last"
    BY <1>1, <1>2, <1>3, <2>3 DEF Finishing
  <2> QED
    BY <1>1, <1>3, <1>4, <2>1, <2>2, <2>3
<1>11. NoneMissing'
  BY <1>1, <1>4, <1>7, <1>8, <1>9 DEF IInv, NoneMissing, Missing, Number
<1>12. ChildHolds'
  BY <1>1, <1>7 DEF IInv, ChildHolds
<1> QED
  BY <1>5, <1>6, <1>10, <1>11, <1>12 DEF IInv
(* A step of the parent that reads and prints nothing.                     *)
LEMMA ParentStays ==
  ASSUME IInv, UNCHANGED <<queue, writer, child_arr, msg, changes, prints>>,
         \A e \in ends["child"] : e \in ends'["child"],
         ends' \in [{"child", "parent"} -> SUBSET Ends],
         \/ reader' = reader
         \/ reader = "close_01" /\ reader' = "close_10"
         \/ reader = "close_10" /\ reader' = "read"
         \/ reader = "close_11" /\ reader' = "close_00"
         \/ reader = "close_00" /\ reader' = "ended"
         \/ reader' = "gone"
  PROVE  IInv'
<1>1. TypeOK'
  BY DEF IInv, TypeOK
<1>2. Printed'
  BY DEF IInv, Printed
<1>3. reader' # "gone" => reader # "gone" \/ reader' = reader
  OBVIOUS
<1>4. reader' # "gone" => Taken' = Taken
  BY DEF Taken, Number
<1>5. Arrays' = Arrays /\ (Finishing' <=> Finishing)
  BY DEF Arrays, Number, Finishing
<1>6. Piped'
  BY <1>3, <1>4, <1>5 DEF IInv, Piped
<1>7. NoneMissing'
  BY <1>3, <1>4, <1>5 DEF IInv, NoneMissing, Missing
<1>8. ChildHolds'
  BY <1>5 DEF IInv, ChildHolds
<1> QED
  BY <1>1, <1>2, <1>6, <1>7, <1>8 DEF IInv

(* The message that is read, and how far the others move up.               *)
LEMMA HeadTail ==
  ASSUME TypeOK, queue # <<>>
  PROVE  /\ Head(queue) = queue[1] /\ queue[1] \in Messages
         /\ Tail(queue) \in Seq(Messages) /\ Len(Tail(queue)) = Len(queue) - 1
         /\ \A k \in 1 .. Len(queue) - 1 : Tail(queue)[k] = queue[k + 1]
         /\ Len(queue) \in Nat \ {0}
<1>1. queue \in Seq(Messages)
  BY DEF TypeOK
<1>2. Len(queue) \in Nat \ {0}
  BY <1>1, EmptySeq
<1>3. Head(queue) = queue[1] /\ queue[1] \in Messages
  BY <1>1, <1>2, ElementOfSeq
<1> QED
  BY <1>1, <1>2, <1>3, HeadTailProperties

LEMMA ReadInv ==
  ASSUME IInv, ReadMessage
  PROVE  IInv'
<1>1. /\ reader = "read" /\ queue # <<>> /\ msg' = Head(queue) /\ queue' = Tail(queue)
      /\ reader' = (IF msg'.finished THEN "close_11" ELSE "print")
      /\ UNCHANGED <<ends, writer, child_arr, changes, prints>>
  BY DEF ReadMessage
<1>2. /\ msg' = queue[1] /\ queue[1] \in Messages
      /\ queue' \in Seq(Messages) /\ Len(queue') = Len(queue) - 1
      /\ \A k \in 1 .. Len(queue) - 1 : queue'[k] = queue[k + 1]
      /\ Len(queue) \in Nat \ {0}
  BY <1>1, HeadTail DEF IInv
<1>3. /\ Len(changes) \in Nat /\ Len(prints) \in Nat /\ Taken \in Nat
      /\ Taken = Len(prints)
  BY <1>1, Lengths DEF IInv, Taken, Number
<1>4. TypeOK'
  BY <1>1, <1>2 DEF IInv, TypeOK
<1>5. \A k \in 1 .. Len(queue) :
        IF queue[k].finished THEN k = Len(queue) /\ Finishing
        ELSE Taken + k <= Len(changes) /\ queue[k].arr = changes[Taken + k]
  BY <1>1 DEF IInv, Piped
<1>6. Finishing' <=> Finishing
  BY <1>1 DEF Finishing
<1>7. Arrays = Len(queue) - Number(queue[Len(queue)].finished)
  BY <1>1 DEF Arrays, Number
<1>8. queue' = <<>> <=> Len(queue') = 0
  BY <1>2, EmptySeq
<1>9. CASE queue[1].finished
  <2>1. reader' = "close_11" /\ Len(queue) = 1 /\ Finishing
    <3>1. reader' = "close_11"
      BY <1>1, <1>2, <1>9
    <3>2. 1 \in 1 .. Len(queue)
      BY <1>2
    <3>3. 1 = Len(queue) /\ Finishing
      BY <1>5, <1>9, <3>2
    <3> QED
      BY <3>1, <3>3
  <2>2. Taken' = Len(prints) /\ Len(queue') = 0 /\ queue' = <<>>
    BY <1>1, <1>2, <1>8, <2>1 DEF Taken, Number
  <2>3. Arrays = 0 /\ Arrays' = 0
    BY <1>7, <1>9, <2>1, <2>2 DEF Arrays, Number
  <2>4. Missing' = Missing
    BY <1>1, <1>3, <2>2, <2>3 DEF Missing
  <2>5. Printed' /\ Piped'
    <3>1. Printed'
      BY <1>1, <2>1 DEF IInv, Printed
    <3>2. 1 .. Len(queue') = {}
      BY <2>2
    <3> QED
      BY <3>1, <3>2 DEF Piped
  <2>6. NoneMissing'
    BY <1>1, <2>4 DEF IInv, NoneMissing
  <2>7. ChildHolds'
    BY <1>1, <1>6, <2>1, <2>2 DEF IInv, ChildHolds
  <2> QED
    BY <1>4, <2>5, <2>6, <2>7 DEF IInv
<1>10. CASE ~queue[1].finished
  <2>1. reader' = "print" /\ Taken' = Len(prints) + 1
    BY <1>1, <1>2, <1>10 DEF Taken, Number
  <2>2. Len(prints) + 1 <= Len(changes) /\ msg'.arr = changes[Len(prints) + 1]
    BY <1>2, <1>3, <1>5, <1>10
  <2>3. Printed'
    BY <1>1, <1>3, <2>1, <2>2 DEF IInv, Printed
  <2>4. Piped'
    <3> SUFFICES ASSUME NEW k \in 1 .. Len(queue')
                 PROVE  IF queue'[k].finished THEN k = Len(queue') /\ Finishing'
                        ELSE Taken' + k <= Len(changes') /\ queue'[k].arr = changes'[Taken' + k]
      BY DEF Piped
    <3>1. queue'[k] = queue[k + 1] /\ k + 1 \in 1 .. Len(queue)
      BY <1>2
    <3>2. k + 1 = Len(queue) => k = Len(queue')
      BY <1>2
    <3>3. Taken + (k + 1) = Taken' + k
      BY <1>2, <1>3, <2>1
    <3> QED
      BY <1>1, <1>5, <1>6, <3>1, <3>2, <3>3
  <2>5. Arrays' = Arrays - 1
    <3>1. CASE Len(queue) = 1
      <4>1. Arrays = 1
        BY <1>7, <1>10, <3>1 DEF Number
      <4>2. Len(queue') = 0 /\ queue' = <<>>
        BY <1>2, <1>8, <3>1
      <4>3. Arrays' = 0
        BY <4>2 DEF Arrays, Number
      <4> QED
        BY <4>1, <4>3
    <3>2. CASE Len(queue) # 1
      <4>1. queue'[Len(queue')] = queue[Len(queue)] /\ queue' # <<>>
        BY <1>2, <1>8, <3>2
      <4>2. Arrays' = Len(queue') - Number(queue[Len(queue)].finished)
        BY <4>1 DEF Arrays, Number
      <4>3. Number(queue[Len(queue)].finished) \in Nat
        BY DEF Number
      <4> QED
        BY <1>2, <1>7, <4>2, <4>3
    <3> QED
      BY <3>1, <3>2
  <2>6. Missing' = Missing
    <3>1. Arrays \in Int
      BY Lengths DEF IInv
    <3> QED
      BY <1>1, <1>3, <2>1, <2>5, <3>1 DEF Missing
  <2>7. NoneMissing'
    BY <1>1, <2>6 DEF IInv, NoneMissing
  <2>8. ChildHolds'
    BY <1>1, <1>6, <2>1 DEF IInv, ChildHolds
  <2> QED
    BY <1>4, <2>3, <2>4, <2>7, <2>8 DEF IInv
<1> QED
  BY <1>9, <1>10

LEMMA ReadEndInv ==
  ASSUME IInv, ReadEnd
  PROVE  IInv'
<1>1. /\ reader = "read" /\ reader' = "close_11" /\ queue = <<>>
      /\ <<0, WRITE>> \notin ends["child"]
      /\ UNCHANGED <<queue, ends, writer, child_arr, msg, changes, prints>>
  BY DEF ReadEnd, AtEnd, Open
<1>2. writer \in {"close_10", "gone"}
  BY <1>1 DEF IInv, ChildHolds
<1>3. TypeOK' /\ Printed'
  BY <1>1 DEF IInv, TypeOK, Printed
<1>4. Taken' = Taken /\ Arrays' = Arrays /\ Missing' = Missing /\ (Finishing' <=> Finishing)
  BY <1>1 DEF Taken, Arrays, Missing, Number, Finishing
<1>5. Piped' /\ NoneMissing'
  BY <1>1, <1>4 DEF IInv, Piped, NoneMissing
<1>6. ChildHolds'
  BY <1>1, <1>2 DEF IInv, ChildHolds, Finishing
<1> QED
  BY <1>3, <1>5, <1>6 DEF IInv

LEMMA PrintInv ==
  ASSUME IInv, PrintArray
  PROVE  IInv' /\ prints' = Append(prints, changes[Len(prints) + 1]) /\ Len(prints) < Len(changes)
<1>1. /\ reader = "print" /\ reader' = "read" /\ prints' = Append(prints, msg.arr)
      /\ UNCHANGED <<queue, ends, writer, child_arr, msg, changes>>
  BY DEF PrintArray
<1>2. msg.arr = changes[Len(prints) + 1] /\ Len(prints) < Len(changes)
  BY <1>1 DEF IInv, Printed
<1>3. prints \in Seq([Places -> Nat]) /\ msg.arr \in [Places -> Nat]
  BY DEF IInv, TypeOK, Messages
<1>4. /\ prints' \in Seq([Places -> Nat]) /\ Len(prints') = Len(prints) + 1
      /\ prints'[Len(prints) + 1] = msg.arr
      /\ \A k \in 1 .. Len(prints) : prints'[k] = prints[k]
  BY <1>1, <1>3, AppendFront
<1>5. Len(changes) \in Nat /\ Len(prints) \in Nat
  BY Lengths DEF IInv
<1>6. TypeOK'
  BY <1>1, <1>4 DEF IInv, TypeOK
<1>7. Printed'
  BY <1>1, <1>2, <1>4, <1>5 DEF IInv, Printed
<1>8. Taken' = Taken
  BY <1>1, <1>4, <1>5 DEF Taken, Number
<1>9. Arrays' = Arrays /\ Missing' = Missing /\ (Finishing' <=> Finishing)
  BY <1>1, <1>8 DEF Arrays, Missing, Number, Finishing
<1>10. Piped' /\ NoneMissing'
  BY <1>1, <1>8, <1>9 DEF IInv, Piped, NoneMissing
<1>11. ChildHolds'
  BY <1>1 DEF IInv, ChildHolds
<1> QED
  BY <1>1, <1>2, <1>6, <1>7, <1>10, <1>11 DEF IInv

LEMMA StepInv ==
  ASSUME IInv, [PipeNext]_pipe_vars
  PROVE  IInv'
<1>1. CASE UNCHANGED pipe_vars
  BY <1>1, ChildStays DEF pipe_vars
<1>2. CASE ChildBegins \/ ScanNegative \/ Sigpipe \/ ChildEnds \/ KillWriter
  BY <1>2, ChildStays
  DEF ChildBegins, ScanNegative, Sigpipe, ChildEnds, KillWriter
<1>3. CASE ParentBegins \/ ParentEnds \/ KillReader
  <2>1. /\ \A e \in ends["child"] : e \in ends'["child"]
        /\ ends' \in [{"child", "parent"} -> SUBSET Ends]
    BY <1>3
    DEF ParentBegins, ParentCloses, ParentEnds, KillReader, Close, Gone, IInv, TypeOK
  <2> QED
    BY <1>3, <2>1, ParentStays DEF ParentBegins, ParentCloses, ParentEnds, KillReader
<1> QED
  BY <1>1, <1>2, <1>3, ScanInv, WriteInv, ReadInv, ReadEndInv, PrintInv
  DEF PipeNext, Writer, Reader

(* The invariant holds whichever process is killed, and when.              *)
THEOREM InvariantHolds == PipeSpec => []IInv
<1>1. PipeInit => IInv
  BY InitInv
<1>2. IInv /\ [PipeNext]_pipe_vars => IInv'
  BY StepInv
<1> QED
  BY <1>1, <1>2, PTL DEF PipeSpec

-----------------------------------------------------------------------------
(* What follows from it.                                                   *)

(* When the parent stops reading it has printed every array that reached   *)
(* the pipe (pipes.c:42-48 and 57).                                        *)
THEOREM NothingIsLeftUnread == PipeSpec => []NothingLeftUnread
<1>1. ASSUME IInv, reader \in {"close_11", "close_00", "ended"}
      PROVE  queue = <<>> /\ (prints = changes \/ (writer = "gone" /\ prints = Front(changes)))
  <2>1. queue = <<>> /\ Finishing
    BY <1>1 DEF IInv, ChildHolds
  <2>2. /\ Len(changes) \in Nat /\ Len(prints) \in Nat /\ Arrays = 0
        /\ Taken = Len(prints)
    BY <1>1, <2>1, Lengths DEF IInv, Arrays, Taken, Number
  <2>3. /\ Len(changes) - Len(prints) \in {0, 1}
        /\ Len(changes) - Len(prints) = 1 => writer = "gone"
    BY <1>1, <2>1, <2>2 DEF IInv, NoneMissing, Missing, Finishing
  <2>4. /\ changes \in Seq([Places -> Nat]) /\ prints \in Seq([Places -> Nat])
        /\ \A k \in 1 .. Len(prints) : prints[k] = changes[k]
    BY <1>1 DEF IInv, TypeOK, Printed
  <2>5. CASE Len(changes) = Len(prints)
    BY <2>1, <2>4, <2>5, SeqEqual
  <2>6. CASE Len(changes) = Len(prints) + 1
    <3> DEFINE f == SubSeq(changes, 1, Len(prints))
    <3>1. \A k \in 1 .. Len(prints) : changes[k] \in [Places -> Nat]
      BY <2>2, <2>4, <2>6, ElementOfSeq
    <3>2. /\ f \in Seq([Places -> Nat])
          /\ Len(f) = IF 1 <= Len(prints) THEN Len(prints) - 1 + 1 ELSE 0
          /\ \A k \in 1 .. Len(prints) - 1 + 1 : f[k] = changes[1 + k - 1]
      <4> HIDE DEF f
      <4>1. 1 \in Int /\ Len(prints) \in Int
        BY <2>2
      <4> QED
        BY <3>1, <4>1, SubSeqProperties DEF f
    <3>3. Len(f) = Len(prints) /\ \A k \in 1 .. Len(prints) : f[k] = prints[k]
      <4> HIDE DEF f
      <4> QED
        BY <2>2, <2>4, <3>2
    <3>4. f = prints
      BY <2>4, <3>2, <3>3, SeqEqual
    <3>5. Front(changes) = f
      BY <2>2, <2>6 DEF Front
    <3> QED
      BY <2>1, <2>2, <2>3, <2>6, <3>4, <3>5
  <2> QED
    BY <2>2, <2>3, <2>5, <2>6
<1>2. IInv => NothingLeftUnread
  BY <1>1 DEF NothingLeftUnread
<1> QED
  BY <1>2, InvariantHolds, PTL

(* Each step of the two processes is a step of Echo, or none: a line is    *)
(* the next change, and nothing else is ever printed.                      *)
THEOREM EchoesChanges == PipeSpec => PipeEchoes
<1>1. PipeInit => PipeEcho!Init
  BY DEF PipeInit, PipeEcho!Init
<1>2. IInv /\ [PipeNext]_pipe_vars => [PipeEcho!Next]_(PipeEcho!vars)
  <2> SUFFICES ASSUME IInv, [PipeNext]_pipe_vars PROVE [PipeEcho!Next]_(PipeEcho!vars)
    OBVIOUS
  <2>1. CASE ScanIndex
    <3>1. changes \in Seq([Places -> Nat]) /\ child_arr' \in [Places -> Nat]
      BY <2>1 DEF ScanIndex, IInv, TypeOK
    <3>2. changes' # <<>> /\ SubSeq(changes', 1, Len(changes') - 1) = changes
      BY <2>1, <3>1, AppendFront DEF ScanIndex
    <3> QED
      BY <2>1, <3>2 DEF ScanIndex, PipeEcho!Next, PipeEcho!Change, PipeEcho!Front
  <2>2. CASE PrintArray
    BY <2>2, PrintInv DEF PrintArray, PipeEcho!Next, PipeEcho!Show
  <2>3. \/ ScanIndex \/ PrintArray \/ UNCHANGED <<changes, prints>>
    BY DEF PipeNext, Writer, Reader, ChildBegins, ScanNegative, Write, Sigpipe, ChildEnds,
           KillWriter, ParentBegins, ReadMessage, ReadEnd, ParentEnds, KillReader, pipe_vars
  <2> QED
    BY <2>1, <2>2, <2>3 DEF PipeEcho!vars
<1> QED
  BY <1>1, <1>2, InvariantHolds, PTL DEF PipeSpec, PipeEchoes, PipeEcho!Spec

=============================================================================
