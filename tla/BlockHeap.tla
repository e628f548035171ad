------------------------------ MODULE BlockHeap ------------------------------
(***************************************************************************)
(* seminar6/heap-1.c.  A heap of HEAP_BLOCKS blocks; block_allocate looks  *)
(* for the first run of free blocks that is long enough and marks it,      *)
(* block_free clears a run from its first mark to its last.  The loops     *)
(* that search go block by block.  The client frees only what it holds,    *)
(* and asks for at least one block.                                        *)
(***************************************************************************)
EXTENDS Integers

CONSTANTS
  HEAP_BLOCKS,   \* 16 in the program
  Sizes          \* the sizes asked for

ASSUME BlockHeapAssumption ==
  HEAP_BLOCKS \in Nat \ {0} /\ Sizes \subseteq Nat \ {0}

VARIABLES
  status,    \* the mark of each block
  held,      \* what the client holds: the first block of a run, and its size
  heap_pc,   \* "idle", or where the running call is
  size, heap_i, max_free, start_id, counter,
  started,   \* locals of block_allocate; heap_i is its i
  curr_id    \* local of block_free

locals == <<size, heap_i, max_free, start_id, counter, started>>

heap_vars == <<status, held, heap_pc, locals, curr_id>>

Blocks == 0 .. HEAP_BLOCKS - 1

Marks == {"BLK_FREE", "BLK_ONE", "BLK_FIRST", "BLK_CONT", "BLK_LAST"}

Run(value, n) == value .. value + n - 1

(* The mark of block k of a run.                                           *)
Mark(value, n, k) ==
  CASE n = 1                          -> "BLK_ONE"
    [] n > 1 /\ k = value             -> "BLK_FIRST"
    [] n > 1 /\ k = value + n - 1     -> "BLK_LAST"
    [] n > 1 /\ k \in Run(value + 1, n - 2) -> "BLK_CONT"

new_max(x, y) == IF x >= y THEN x ELSE y

-----------------------------------------------------------------------------
HeapInit ==
  /\ status = [k \in Blocks |-> "BLK_FREE"]
  /\ held = {} /\ heap_pc = "idle"
  /\ size = 0 /\ heap_i = 0 /\ max_free = 0 /\ start_id = 0 /\ counter = 0
  /\ started = FALSE /\ curr_id = 0

block_allocate ==
  /\ heap_pc = "idle"
  /\ size' \in Sizes
  /\ max_free' = 0 /\ start_id' = 0 /\ counter' = 0 /\ started' = FALSE
  /\ heap_i' = 0
  /\ heap_pc' = "scan"
  /\ UNCHANGED <<status, held, curr_id>>

ScanTaken ==
  /\ heap_pc = "scan" /\ heap_i \in Blocks /\ status[heap_i] # "BLK_FREE"
  /\ IF started THEN started' = FALSE /\ counter' = 0
                ELSE UNCHANGED <<started, counter>>
  /\ heap_i' = heap_i + 1
  /\ UNCHANGED <<status, held, heap_pc, size, max_free, start_id, curr_id>>

Enough == max_free' >= size

(* Slip: the first free block of all is remembered.                        *)
BeginOnce == start_id' = IF start_id = 0 /\ ~started THEN heap_i ELSE start_id

Begin == start_id' = IF started THEN start_id ELSE heap_i

Count == counter' = counter + 1

ScanFree ==
  /\ heap_pc = "scan" /\ heap_i \in Blocks /\ status[heap_i] = "BLK_FREE"
  /\ Begin /\ started' = TRUE
  /\ Count
  /\ max_free' = new_max(counter', max_free)
  /\ IF Enough THEN heap_pc' = "mark" /\ UNCHANGED heap_i
               ELSE heap_i' = heap_i + 1 /\ UNCHANGED heap_pc
  /\ UNCHANGED <<status, held, size, curr_id>>

(* No run is long enough: the answer is block_id_invalid.                  *)
ScanEnd ==
  /\ heap_pc = "scan" /\ heap_i = HEAP_BLOCKS
  /\ heap_pc' = IF max_free < size THEN "refused" ELSE "mark"
  /\ UNCHANGED <<status, held, locals, curr_id>>

Refuse ==
  /\ heap_pc = "refused"
  /\ heap_pc' = "idle"
  /\ UNCHANGED <<status, held, locals, curr_id>>

(* Slip: the last block of a run is not marked.                            *)
MarkShort ==
  /\ heap_pc = "mark"
  /\ status' = [k \in Blocks |-> IF k \in Run(start_id, size - 1)
                                 THEN Mark(start_id, size, k) ELSE status[k]]
  /\ held' = held \cup {<<start_id, size>>}
  /\ heap_pc' = "idle"
  /\ UNCHANGED <<locals, curr_id>>

MarkRun ==
  /\ heap_pc = "mark"
  /\ status' = [k \in Blocks |-> IF k \in Run(start_id, size)
                                 THEN Mark(start_id, size, k) ELSE status[k]]
  /\ held' = held \cup {<<start_id, size>>}
  /\ heap_pc' = "idle"
  /\ UNCHANGED <<locals, curr_id>>

block_free ==
  /\ heap_pc = "idle"
  /\ \E b \in held :
       /\ held' = held \ {b}
       /\ curr_id' = b[1]
       /\ IF status[b[1]] = "BLK_ONE"
          THEN /\ status' = [status EXCEPT ![b[1]] = "BLK_FREE"]
               /\ UNCHANGED heap_pc
          ELSE heap_pc' = "free" /\ UNCHANGED status
  /\ UNCHANGED locals

FreeNext ==
  /\ heap_pc = "free" /\ curr_id \in Blocks /\ status[curr_id] # "BLK_LAST"
  /\ status' = [status EXCEPT ![curr_id] = "BLK_FREE"]
  /\ curr_id' = curr_id + 1
  /\ UNCHANGED <<held, heap_pc, locals>>

(* Slip: the last block stays marked.                                      *)
FreeLastNot ==
  /\ heap_pc = "free" /\ curr_id \in Blocks /\ status[curr_id] = "BLK_LAST"
  /\ heap_pc' = "idle"
  /\ UNCHANGED <<status, held, locals, curr_id>>

FreeLast ==
  /\ heap_pc = "free" /\ curr_id \in Blocks /\ status[curr_id] = "BLK_LAST"
  /\ status' = [status EXCEPT ![curr_id] = "BLK_FREE"]
  /\ heap_pc' = "idle"
  /\ UNCHANGED <<held, locals, curr_id>>

Internal == \/ ScanTaken \/ ScanFree \/ ScanEnd \/ Refuse \/ MarkRun
            \/ FreeNext \/ FreeLast

HeapNext == block_allocate \/ block_free \/ Internal

HeapSpec == HeapInit /\ [][HeapNext]_heap_vars

-----------------------------------------------------------------------------
Fits(value, n) ==
  /\ value \in Nat /\ value + n <= HEAP_BLOCKS
  /\ \A k \in Run(value, n) : status[k] = "BLK_FREE"

(* The variables have their types; no loop leaves the array.               *)
HeapTypeOK ==
  /\ status \in [Blocks -> Marks]
  /\ held \subseteq Blocks \X (Nat \ {0})
  /\ heap_pc \in {"idle", "scan", "mark", "refused", "free"}
  /\ size \in Nat /\ heap_i \in 0 .. HEAP_BLOCKS
  /\ max_free \in 0 .. HEAP_BLOCKS /\ counter \in 0 .. HEAP_BLOCKS
  /\ start_id \in Blocks /\ started \in BOOLEAN
  /\ curr_id \in Blocks

HeldApart ==
  /\ \A b \in held : Run(b[1], b[2]) \subseteq Blocks
  /\ \A b, c \in held : b # c => Run(b[1], b[2]) \cap Run(c[1], c[2]) = {}

HeldMarked ==
  \A b \in held : \A k \in Run(b[1], b[2]) : status[k] = Mark(b[1], b[2], k)

(* What the client holds lies in the heap, no block belongs to two, and    *)
(* the runs keep their marks, whatever is marked and cleared around them   *)
(* (lines 71-80 and 84-96).                                                *)
HeldWhole == HeldApart /\ HeldMarked

(* Between calls every block that nobody holds is free: freeing a run      *)
(* gives back all of it.                                                   *)
NothingLost ==
  heap_pc = "idle" => \A k \in Blocks : status[k] = "BLK_FREE" \/
                                        \E b \in held : k \in Run(b[1], b[2])

(* The run that is about to be marked is free, inside the heap, and the    *)
(* first of its size.                                                      *)
FirstFit ==
  heap_pc = "mark" => /\ Fits(start_id, size)
                      /\ \A v \in 0 .. start_id - 1 : ~Fits(v, size)

(* A request is refused only if no run of free blocks is long enough.      *)
RefusedRightly == heap_pc = "refused" => \A v \in Blocks : ~Fits(v, size)

(* The search is right, however often a run that is too short has made it  *)
(* start again (lines 53-70).                                              *)
SearchRight == FirstFit /\ RefusedRightly

=============================================================================
