---------------------------- MODULE PtmallocProofs ----------------------------
(***************************************************************************)
(* What is proved of Ptmalloc, for any number of threads, any sizes and    *)
(* any plan of calls: the discipline of the mutex (Control), the marks of  *)
(* the bins (ArenaRight), that the holder of the mutex is alone with the   *)
(* arena, and what freeing and allotting a chunk do to the boundary tags.  *)
(***************************************************************************)
EXTENDS Ptmalloc, SequenceTheorems, WellFoundedInduction, TLAPS

(* The labels of the procedures that are called without the mutex, and     *)
(* return without it.                                                      *)
Outside ==
  {"malloc", "malloc_cache", "malloc_lock", "tcache_init", "free", "realloc", "realloc_size",
   "remap", "realloc_copy", "realloc_lock", "realloc_elsewhere", "memalign", "memalign_lock",
   "pvalloc", "calloc", "calloc_lock", "calloc_again", "clear", "trim", "exit", "drain"}

(* The labels of the same procedures at which they have it.                *)
Locked ==
  {"tcache_done", "malloc_done", "realloc_unlock", "memalign_lead", "memalign_rest",
   "memalign_done", "calloc_done", "trim_sys", "trim_done"}

(* Those of the procedures that are called with the mutex and keep it.     *)
Within ==
  {"int_malloc", "fast_take", "stash", "stash_take", "small", "unsorted", "bins", "top",
   "consolidate", "consolidate_bin", "sysmalloc", "sys_top", "sys_done", "systrim",
   "trim_top", "int_realloc", "realloc_moved"}

(* _int_free is called with it or without; at the end it has it anyhow.    *)
Freeing == {"int_free", "fast_recheck", "fast_push", "merge"}
Trimming == {"free_trim", "free_done"}

Running == Outside \cup Locked \cup Within \cup Freeing \cup Trimming

(* What Trimming calls, and what makes a cache.                            *)
Below == {"consolidate", "consolidate_bin", "systrim", "trim_top"}
Caching == {"tcache_init", "tcache_done"}

(* Who is at that label has the mutex; and when the procedure returns.     *)
Holds(label, have_lock) ==
  label \in Locked \cup Within \cup Trimming \/ (label \in Freeing /\ have_lock)

Leaves(label, have_lock) ==
  label \in Within \/ (label \in Freeing \cup Trimming /\ have_lock)

Backs == (Running \ Freeing) \cup {"int_free", "answer"}

(* Each procedure returns, with the mutex or without, to a label that      *)
(* expects just that; and no call under way lies between _int_free and     *)
(* what it needs have_lock for.                                            *)
StackRight(l) ==
  /\ l.stack \in Seq(Backs)
  /\ l.pc \in {"idle", "answer"} <=> l.stack = <<>>
  /\ l.stack # <<>> =>
       /\ Leaves(l.pc, l.have_lock) <=> Holds(l.stack[1], FALSE)
       /\ l.stack[1] \in Trimming => l.pc \in Below
       /\ l.stack[1] = "int_free" => l.pc \in Caching
  /\ \A n \in 1 .. Len(l.stack) : l.stack[n] = "answer" <=> n = Len(l.stack)
  /\ \A n \in 1 .. Len(l.stack) - 1 :
       /\ Leaves(l.stack[n], n = 1 /\ l.stack[1] \in Trimming /\ l.have_lock)
            <=> Holds(l.stack[n + 1], FALSE)
       /\ l.stack[n + 1] \notin Trimming
       /\ l.stack[n + 1] = "int_free" => l.stack[n] = "tcache_done"

Fields == {"pc", "stack", "have_lock", "op", "bytes", "alignment", "nb", "victim", "p", "oldp",
           "mem", "own", "return_cached", "tried"}

FrameRight(l) ==
  /\ Fields \subseteq DOMAIN l
  /\ l.pc \in Running \cup {"idle", "answer"} /\ l.have_lock \in BOOLEAN
  /\ StackRight(l)

(* A thread is in a critical section exactly as long as it has the mutex.  *)
MutexHeld ==
  /\ mutex \in Threads \cup {NULL}
  /\ \A t \in Threads : mutex = t <=> Holds(loc[t].pc, loc[t].have_lock)

Control ==
  /\ loc = [t \in Threads |-> loc[t]]
  /\ \A t \in Threads : FrameRight(loc[t])
  /\ MutexHeld

-----------------------------------------------------------------------------
(* What a step does to the stack.                                          *)

LEMMA Pushed ==
  ASSUME NEW S, NEW s \in Seq(S), NEW b \in S
  PROVE  /\ <<b>> \o s \in Seq(S) /\ <<b>> \o s # <<>>
         /\ Len(<<b>> \o s) = Len(s) + 1 /\ Len(s) \in Nat
         /\ (<<b>> \o s)[1] = b /\ \A n \in 1 .. Len(s) : (<<b>> \o s)[n + 1] = s[n]
<1>1. <<b>> \in Seq(S) /\ Len(<<b>>) = 1 /\ <<b>>[1] = b
  OBVIOUS
<1>2. /\ <<b>> \o s \in Seq(S) /\ Len(<<b>> \o s) = 1 + Len(s)
      /\ \A n \in 1 .. 1 + Len(s) : (<<b>> \o s)[n] = IF n <= 1 THEN <<b>>[n] ELSE s[n - 1]
  BY <1>1, ConcatProperties
<1>3. Len(s) \in Nat
  BY LenProperties
<1>4. <<b>> \o s # <<>>
  BY <1>2, <1>3, EmptySeq
<1>5. ASSUME NEW n \in 1 .. Len(s)
      PROVE  (<<b>> \o s)[n + 1] = s[n]
  <2>1. n + 1 \in 1 .. 1 + Len(s) /\ ~(n + 1 <= 1) /\ n + 1 - 1 = n
    BY <1>3
  <2> QED
    BY <1>2, <2>1
<1> QED
  BY <1>1, <1>2, <1>3, <1>4, <1>5

LEMMA PoppedOne ==
  ASSUME NEW S, NEW s \in Seq(S), s # <<>>
  PROVE  /\ Head(s) = s[1] /\ s[1] \in S /\ Tail(s) \in Seq(S)
         /\ Len(s) \in Nat \ {0} /\ Len(Tail(s)) = Len(s) - 1
         /\ \A n \in 1 .. Len(s) - 1 : Tail(s)[n] = s[n + 1]
         /\ Tail(s) = <<>> <=> Len(s) = 1
<1>1. /\ Head(s) \in S /\ Head(s) = s[1] /\ Tail(s) \in Seq(S)
      /\ Len(Tail(s)) = Len(s) - 1
      /\ \A n \in 1 .. Len(Tail(s)) : Tail(s)[n] = s[n + 1]
  BY HeadTailProperties
<1>2. Len(s) \in Nat /\ Len(s) # 0
  BY LenProperties, EmptySeq
<1>3. Tail(s) = <<>> <=> Len(Tail(s)) = 0
  BY <1>1, EmptySeq
<1> QED
  BY <1>1, <1>2, <1>3

(* On to another label of the procedure.                                   *)
LEMMA GoesOn ==
  ASSUME NEW l, NEW k, FrameRight(l), Fields \subseteq DOMAIN k,
         l.pc \in Running, k.pc \in Running, k.stack = l.stack, k.have_lock \in BOOLEAN,
         Leaves(k.pc, k.have_lock) <=> Leaves(l.pc, l.have_lock),
         l.pc \in Below => k.pc \in Below /\ k.have_lock = l.have_lock,
         l.pc \in Caching => k.pc \in Caching
  PROVE  FrameRight(k)
<1>1. l.stack # <<>> /\ k.pc \notin {"idle", "answer"}
  BY DEF FrameRight, StackRight, Running, Outside, Locked, Within, Freeing, Trimming
<1>2. l.stack[1] \in Trimming => k.have_lock = l.have_lock
  BY <1>1 DEF FrameRight, StackRight
<1>3. \A n \in 1 .. Len(l.stack) - 1 :
        Leaves(l.stack[n], n = 1 /\ l.stack[1] \in Trimming /\ k.have_lock)
          <=> Holds(l.stack[n + 1], FALSE)
  BY <1>2 DEF FrameRight, StackRight
<1> QED
  BY <1>1, <1>3 DEF FrameRight, StackRight

(* A call, to come back to b.                                              *)
LEMMA GoesIn ==
  ASSUME NEW l, NEW k, NEW b \in Backs \ {"answer"}, FrameRight(l), Fields \subseteq DOMAIN k,
         l.pc \in Running \ (Below \cup {"tcache_done"}), k.pc \in Running,
         k.stack = <<b>> \o l.stack, k.have_lock \in BOOLEAN,
         Leaves(k.pc, k.have_lock) <=> Holds(b, FALSE),
         Leaves(b, b \in Trimming /\ k.have_lock) <=> Leaves(l.pc, l.have_lock),
         l.pc = "tcache_init" => b = "tcache_done",
         b \in Trimming => k.pc \in Below,
         b = "int_free" => k.pc \in Caching
  PROVE  FrameRight(k)
<1>1. /\ l.stack \in Seq(Backs) /\ l.stack # <<>> /\ k.pc \notin {"idle", "answer"}
      /\ l.stack[1] \notin Trimming /\ (l.stack[1] = "int_free" => b = "tcache_done")
  BY DEF FrameRight, StackRight, Running, Outside, Locked, Within, Freeing, Trimming, Caching
<1>2. /\ k.stack \in Seq(Backs) /\ k.stack # <<>> /\ Len(k.stack) = Len(l.stack) + 1
      /\ Len(l.stack) \in Nat
      /\ k.stack[1] = b /\ \A n \in 1 .. Len(l.stack) : k.stack[n + 1] = l.stack[n]
  BY <1>1, Pushed
<1>3. ASSUME NEW n \in 1 .. Len(k.stack)
      PROVE  k.stack[n] = "answer" <=> n = Len(k.stack)
  <2>1. CASE n = 1
    BY <1>1, <1>2, <2>1, EmptySeq
  <2>2. CASE n # 1
    <3>1. n - 1 \in 1 .. Len(l.stack) /\ k.stack[n] = l.stack[n - 1]
      BY <1>2, <2>2
    <3>2. l.stack[n - 1] = "answer" <=> n - 1 = Len(l.stack)
      BY <3>1 DEF FrameRight, StackRight
    <3> QED
      BY <1>2, <3>1, <3>2
  <2> QED
    BY <2>1, <2>2
<1>4. ASSUME NEW n \in 1 .. Len(k.stack) - 1
      PROVE  /\ Leaves(k.stack[n], n = 1 /\ k.stack[1] \in Trimming /\ k.have_lock)
                  <=> Holds(k.stack[n + 1], FALSE)
             /\ k.stack[n + 1] \notin Trimming
             /\ k.stack[n + 1] = "int_free" => k.stack[n] = "tcache_done"
  <2>1. CASE n = 1
    <3>1. k.stack[n] = b /\ k.stack[1] = b /\ k.stack[n + 1] = l.stack[1]
      BY <1>2, <2>1
    <3>2. Leaves(b, b \in Trimming /\ k.have_lock) <=> Holds(l.stack[1], FALSE)
      BY <1>1 DEF FrameRight, StackRight
    <3>3. Leaves(k.stack[n], n = 1 /\ k.stack[1] \in Trimming /\ k.have_lock)
            <=> Leaves(b, b \in Trimming /\ k.have_lock)
      BY <2>1, <3>1 DEF Leaves
    <3>4. Holds(k.stack[n + 1], FALSE) <=> Holds(l.stack[1], FALSE)
      BY <3>1 DEF Holds
    <3> QED
      BY <1>1, <3>1, <3>2, <3>3, <3>4
  <2>2. CASE n # 1
    <3>1. /\ n - 1 \in 1 .. Len(l.stack) - 1 /\ n - 1 + 1 = n
          /\ k.stack[n] = l.stack[n - 1] /\ k.stack[n + 1] = l.stack[n]
      BY <1>2, <2>2
    <3>2. /\ Leaves(l.stack[n - 1], n - 1 = 1 /\ l.stack[1] \in Trimming /\ l.have_lock)
               <=> Holds(l.stack[n], FALSE)
          /\ l.stack[n] \notin Trimming
          /\ l.stack[n] = "int_free" => l.stack[n - 1] = "tcache_done"
      BY <3>1 DEF FrameRight, StackRight
    <3>3. ~(n - 1 = 1 /\ l.stack[1] \in Trimming /\ l.have_lock)
          /\ ~(n = 1 /\ k.stack[1] \in Trimming /\ k.have_lock)
      BY <1>1, <2>2
    <3> QED
      BY <3>1, <3>2, <3>3
  <2> QED
    BY <2>1, <2>2
<1> QED
  BY <1>1, <1>2, <1>3, <1>4 DEF FrameRight, StackRight

(* A return: the label expects the mutex just if the procedure had it.     *)
LEMMA GoesBack ==
  ASSUME NEW l, NEW k, FrameRight(l), Fields \subseteq DOMAIN k, l.pc \in Running,
         k.pc = Head(l.stack), k.stack = Tail(l.stack), k.have_lock \in BOOLEAN,
         l.pc \in Below => k.have_lock = l.have_lock,
         l.pc \in Caching => ~k.have_lock
  PROVE  /\ FrameRight(k)
         /\ Holds(k.pc, k.have_lock) <=> Leaves(l.pc, l.have_lock)
<1>1. l.stack \in Seq(Backs) /\ l.stack # <<>>
  BY DEF FrameRight, StackRight, Running, Outside, Locked, Within, Freeing, Trimming
<1>2. /\ k.pc = l.stack[1] /\ k.pc \in Backs /\ k.stack \in Seq(Backs)
      /\ Len(l.stack) \in Nat \ {0} /\ Len(k.stack) = Len(l.stack) - 1
      /\ \A n \in 1 .. Len(l.stack) - 1 : k.stack[n] = l.stack[n + 1]
      /\ k.stack = <<>> <=> Len(l.stack) = 1
  BY <1>1, PoppedOne
<1>3. k.pc = "answer" <=> k.stack = <<>>
  BY <1>2 DEF FrameRight, StackRight
<1>4. k.pc \in Running \cup {"idle", "answer"} /\ k.pc # "idle"
  BY <1>2 DEF Backs, Running, Outside, Locked, Within, Freeing, Trimming
<1>5. /\ k.pc \in Trimming => k.have_lock = l.have_lock
      /\ k.pc = "int_free" => ~k.have_lock
      /\ k.pc \in Freeing => k.pc = "int_free"
      /\ Leaves(l.pc, l.have_lock) <=> Holds(k.pc, FALSE)
  BY <1>1, <1>2 DEF FrameRight, StackRight, Backs, Freeing, Trimming, Running, Outside,
                    Locked, Within
<1>6. /\ Holds(k.pc, k.have_lock) <=> Holds(k.pc, FALSE)
      /\ Leaves(k.pc, k.have_lock) <=> Leaves(k.pc, k.pc \in Trimming /\ l.have_lock)
  BY <1>5 DEF Holds, Leaves, Freeing, Trimming
<1>7. ASSUME k.stack # <<>>
      PROVE  /\ Leaves(k.pc, k.have_lock) <=> Holds(k.stack[1], FALSE)
             /\ k.stack[1] \notin Trimming
             /\ k.stack[1] = "int_free" => k.pc = "tcache_done"
  <2>1. 1 \in 1 .. Len(l.stack) - 1 /\ k.stack[1] = l.stack[2]
    BY <1>2, <1>7
  <2>2. \A n \in 1 .. Len(l.stack) - 1 :
          /\ Leaves(l.stack[n], n = 1 /\ l.stack[1] \in Trimming /\ l.have_lock)
               <=> Holds(l.stack[n + 1], FALSE)
          /\ l.stack[n + 1] \notin Trimming
          /\ l.stack[n + 1] = "int_free" => l.stack[n] = "tcache_done"
    BY DEF FrameRight, StackRight
  <2>3. /\ Leaves(l.stack[1], l.stack[1] \in Trimming /\ l.have_lock) <=> Holds(l.stack[2], FALSE)
        /\ l.stack[2] \notin Trimming
        /\ l.stack[2] = "int_free" => l.stack[1] = "tcache_done"
    <3>1. /\ Leaves(l.stack[1], 1 = 1 /\ l.stack[1] \in Trimming /\ l.have_lock)
               <=> Holds(l.stack[1 + 1], FALSE)
          /\ l.stack[1 + 1] \notin Trimming
          /\ l.stack[1 + 1] = "int_free" => l.stack[1] = "tcache_done"
      BY <2>1, <2>2
    <3>2. 1 + 1 = 2
      OBVIOUS
    <3> QED
      BY <3>1, <3>2 DEF Leaves, Holds
  <2> QED
    BY <1>2, <1>6, <2>1, <2>3
<1>8. ASSUME NEW n \in 1 .. Len(k.stack)
      PROVE  k.stack[n] = "answer" <=> n = Len(k.stack)
  <2>1. n + 1 \in 1 .. Len(l.stack) /\ k.stack[n] = l.stack[n + 1]
    BY <1>2
  <2>2. l.stack[n + 1] = "answer" <=> n + 1 = Len(l.stack)
    BY <2>1 DEF FrameRight, StackRight
  <2> QED
    BY <1>2, <2>1, <2>2
<1>9. ASSUME NEW n \in 1 .. Len(k.stack) - 1
      PROVE  /\ Leaves(k.stack[n], n = 1 /\ k.stack[1] \in Trimming /\ k.have_lock)
                  <=> Holds(k.stack[n + 1], FALSE)
             /\ k.stack[n + 1] \notin Trimming
             /\ k.stack[n + 1] = "int_free" => k.stack[n] = "tcache_done"
  <2>1. /\ n + 1 \in 1 .. Len(l.stack) - 1 /\ n + 1 # 1
        /\ k.stack[n] = l.stack[n + 1] /\ k.stack[n + 1] = l.stack[n + 1 + 1]
    BY <1>2
  <2>2. /\ Leaves(l.stack[n + 1], n + 1 = 1 /\ l.stack[1] \in Trimming /\ l.have_lock)
             <=> Holds(l.stack[n + 1 + 1], FALSE)
        /\ l.stack[n + 1 + 1] \notin Trimming
        /\ l.stack[n + 1 + 1] = "int_free" => l.stack[n + 1] = "tcache_done"
    BY <2>1 DEF FrameRight, StackRight
  <2>3. k.stack[1] \notin Trimming
    <3>1. k.stack # <<>>
      BY <1>2, <2>1
    <3> QED
      BY <1>7, <3>1
  <2> QED
    BY <2>1, <2>2, <2>3
<1>10. k.stack # <<>> => (k.stack[1] = "int_free" => k.pc \in Caching)
  BY <1>7 DEF Caching
<1>11. StackRight(k)
  BY <1>2, <1>3, <1>4, <1>7, <1>8, <1>9, <1>10 DEF StackRight
<1> QED
  BY <1>4, <1>5, <1>6, <1>11 DEF FrameRight

-----------------------------------------------------------------------------
(* What a step of a thread does to its frame and to the mutex.             *)

Moves(t) ==
  /\ loc' = [loc EXCEPT ![t] = loc'[t]]
  /\ Fields \subseteq DOMAIN loc'[t]

Goes(t, label, have_lock) ==
  /\ Moves(t) /\ loc'[t].pc = label /\ loc'[t].have_lock = have_lock
  /\ loc'[t].stack = loc[t].stack

Calls(t, label, back, have_lock) ==
  /\ Moves(t) /\ loc'[t].pc = label /\ loc'[t].have_lock = have_lock
  /\ loc'[t].stack = <<back>> \o loc[t].stack

Comes(t, have_lock) ==
  /\ Moves(t) /\ loc'[t].pc = Head(loc[t].stack) /\ loc'[t].have_lock = have_lock
  /\ loc'[t].stack = Tail(loc[t].stack)

MutexMoves(t, before, after) ==
  \/ mutex' = mutex /\ (after <=> before)
  \/ mutex = NULL /\ mutex' = t /\ after
  \/ mutex' = NULL /\ before /\ ~after

(* The same for each of the ways in which the actions write the frame.     *)
LEMMA SetGoto ==
  ASSUME loc = [u \in Threads |-> loc[u]], NEW t \in Threads, NEW k, Fields \subseteq DOMAIN k,
         k.stack = loc[t].stack, NEW label, Set(t, Goto(k, label))
  PROVE  Goes(t, label, k.have_lock)
<1>1. {"pc", "stack", "have_lock", "victim"} \subseteq DOMAIN k
  BY DEF Fields
<1> QED
  BY <1>1 DEF Set, Goto, Goes, Moves

LEMMA SetEnter ==
  ASSUME loc = [u \in Threads |-> loc[u]], NEW t \in Threads, NEW k, Fields \subseteq DOMAIN k,
         k.stack = loc[t].stack, NEW label, NEW back,
         Set(t, Enter(k, label, back))
  PROVE  Calls(t, label, back, k.have_lock)
<1>1. {"pc", "stack", "have_lock", "victim"} \subseteq DOMAIN k
  BY DEF Fields
<1> QED
  BY <1>1 DEF Set, Enter, Calls, Moves

LEMMA SetReturn ==
  ASSUME loc = [u \in Threads |-> loc[u]], NEW t \in Threads, NEW k, Fields \subseteq DOMAIN k,
         k.stack = loc[t].stack, Set(t, Return(k))
  PROVE  Comes(t, k.have_lock)
<1>1. {"pc", "stack", "have_lock", "victim"} \subseteq DOMAIN k
  BY DEF Fields
<1> QED
  BY <1>1 DEF Set, Return, Comes, Moves

LEMMA SetGot ==
  ASSUME loc = [u \in Threads |-> loc[u]], NEW t \in Threads, NEW k, Fields \subseteq DOMAIN k,
         k.stack = loc[t].stack, NEW x, Set(t, Got(k, x))
  PROVE  Comes(t, k.have_lock)
<1>1. {"pc", "stack", "have_lock", "victim"} \subseteq DOMAIN k
  BY DEF Fields
<1> QED
  BY <1>1 DEF Set, Got, Return, Comes, Moves

LEMMA SetNotGot ==
  ASSUME loc = [u \in Threads |-> loc[u]], NEW t \in Threads, NEW k, Fields \subseteq DOMAIN k,
         k.stack = loc[t].stack, Set(t, NotGot(k))
  PROVE  Comes(t, k.have_lock)
<1>1. {"pc", "stack", "have_lock", "victim"} \subseteq DOMAIN k
  BY DEF Fields
<1> QED
  BY <1>1 DEF Set, NotGot, Return, Comes, Moves

LEMMA ThreadMoves ==
  ASSUME Control, NEW t \in Threads, Moves(t), FrameRight(loc'[t]),
         MutexMoves(t, Holds(loc[t].pc, loc[t].have_lock), Holds(loc'[t].pc, loc'[t].have_lock))
  PROVE  Control'
<1>1. /\ loc' = [u \in Threads |-> loc'[u]]
      /\ \A u \in Threads : u # t => loc'[u] = loc[u]
  BY DEF Control, Moves
<1>2. ASSUME NEW u \in Threads
      PROVE  FrameRight(loc'[u])
  BY <1>1 DEF Control
<1>3. ASSUME NEW u \in Threads
      PROVE  mutex' = u <=> Holds(loc'[u].pc, loc'[u].have_lock)
  <2>1. mutex = u <=> Holds(loc[u].pc, loc[u].have_lock)
    BY DEF Control, MutexHeld
  <2>2. mutex = t <=> Holds(loc[t].pc, loc[t].have_lock)
    BY DEF Control, MutexHeld
  <2>3. NULL \notin Threads
    BY ThreadAssumption
  <2>4. CASE u = t
    BY <2>2, <2>3, <2>4 DEF MutexMoves
  <2>5. CASE u # t
    BY <1>1, <2>1, <2>2, <2>3, <2>5 DEF MutexMoves
  <2> QED
    BY <2>4, <2>5
<1>4. mutex' \in Threads \cup {NULL}
  BY DEF Control, MutexHeld, MutexMoves
<1> QED
  BY <1>1, <1>2, <1>3, <1>4 DEF Control, MutexHeld

LEMMA GoesInv ==
  ASSUME Control, NEW t \in Threads, NEW label \in Running, NEW have_lock \in BOOLEAN,
         Goes(t, label, have_lock), loc[t].pc \in Running,
         Leaves(label, have_lock) <=> Leaves(loc[t].pc, loc[t].have_lock),
         loc[t].pc \in Below => label \in Below /\ have_lock = loc[t].have_lock,
         loc[t].pc \in Caching => label \in Caching,
         MutexMoves(t, Holds(loc[t].pc, loc[t].have_lock), Holds(label, have_lock))
  PROVE  Control'
<1>1. FrameRight(loc[t])
  BY DEF Control
<1>2. FrameRight(loc'[t])
  BY <1>1, GoesOn DEF Goes, Moves
<1> QED
  BY <1>2, ThreadMoves DEF Goes

LEMMA CallsInv ==
  ASSUME Control, NEW t \in Threads, NEW label \in Running, NEW back \in Backs \ {"answer"},
         NEW have_lock \in BOOLEAN, Calls(t, label, back, have_lock),
         loc[t].pc \in Running \ (Below \cup {"tcache_done"}),
         Leaves(label, have_lock) <=> Holds(back, FALSE),
         Leaves(back, back \in Trimming /\ have_lock) <=> Leaves(loc[t].pc, loc[t].have_lock),
         loc[t].pc = "tcache_init" => back = "tcache_done",
         back \in Trimming => label \in Below,
         back = "int_free" => label \in Caching,
         MutexMoves(t, Holds(loc[t].pc, loc[t].have_lock), Holds(label, have_lock))
  PROVE  Control'
<1>1. FrameRight(loc[t])
  BY DEF Control
<1>2. FrameRight(loc'[t])
  BY <1>1, GoesIn DEF Calls, Moves
<1> QED
  BY <1>2, ThreadMoves DEF Calls

LEMMA ComesInv ==
  ASSUME Control, NEW t \in Threads, NEW have_lock \in BOOLEAN, Comes(t, have_lock),
         loc[t].pc \in Running,
         loc[t].pc \in Below => have_lock = loc[t].have_lock,
         loc[t].pc \in Caching => ~have_lock,
         MutexMoves(t, Holds(loc[t].pc, loc[t].have_lock), Leaves(loc[t].pc, loc[t].have_lock))
  PROVE  Control'
<1>1. FrameRight(loc[t])
  BY DEF Control
<1>2. /\ FrameRight(loc'[t])
      /\ Holds(loc'[t].pc, loc'[t].have_lock) <=> Leaves(loc[t].pc, loc[t].have_lock)
  BY <1>1, GoesBack DEF Comes, Moves
<1>3. MutexMoves(t, Holds(loc[t].pc, loc[t].have_lock), Holds(loc'[t].pc, loc'[t].have_lock))
  BY <1>2 DEF MutexMoves
<1> QED
  BY <1>2, <1>3, ThreadMoves DEF Comes

(* The procedures that are called without the mutex.                       *)
LEMMA WrapperInv ==
  ASSUME Control, NEW t \in Threads, Wrapper(t)
  PROVE  Control'
<1>0. /\ Fields \subseteq DOMAIN loc[t] /\ loc = [u \in Threads |-> loc[u]]
      /\ {"pc", "stack", "have_lock"} \subseteq DOMAIN loc[t] /\ loc[t].have_lock \in BOOLEAN
  BY DEF Control, FrameRight, Fields
<1>1. CASE tcache_init(t)
  <2>1. loc[t].pc = "tcache_init" /\ mutex = NULL /\ mutex' = t
    BY <1>1 DEF tcache_init, At, Lock
  <2>2. Calls(t, "int_malloc", "tcache_done", loc[t].have_lock)
    BY <1>0, <1>1 DEF tcache_init, Set, Goto, Enter, Return, Goes, Calls, Comes, Moves
  <2> QED
    BY <1>0, <2>1, <2>2, GoesInv, CallsInv, ComesInv DEF MutexMoves, Holds, Leaves, Backs,
           Running, Outside, Locked, Within, Freeing, Trimming, Below, Caching
<1>2. CASE TcacheDone(t)
  <2>1. loc[t].pc = "tcache_done" /\ mutex' = NULL
    BY <1>2 DEF TcacheDone, At, Unlock
  <2>2. \/ Set(t, Goto([loc[t] EXCEPT !.tried = TRUE], "tcache_init"))
        \/ Set(t, Return([loc[t] EXCEPT !.victim = NULL, !.tried = FALSE, !.p = loc[t].mem,
                                      !.mem = NULL, !.have_lock = FALSE,
                                      !.own = @ \ {loc[t].victim}]))
    BY <1>2, Zenon DEF TcacheDone
  <2>3. ASSUME Set(t, Goto([loc[t] EXCEPT !.tried = TRUE], "tcache_init"))
        PROVE  Goes(t, "tcache_init", loc[t].have_lock)
    BY <1>0, <2>1, <2>3 DEF Set, Goto, Enter, Return, Goes, Calls, Comes, Moves
  <2>4. ASSUME Set(t, Return([loc[t] EXCEPT !.victim = NULL, !.tried = FALSE, !.p = loc[t].mem,
                                      !.mem = NULL, !.have_lock = FALSE,
                                      !.own = @ \ {loc[t].victim}]))
        PROVE  Comes(t, FALSE)
    BY <1>0, <2>1, <2>4 DEF Set, Goto, Enter, Return, Goes, Calls, Comes, Moves
  <2>5. \/ Goes(t, "tcache_init", loc[t].have_lock)
        \/ Comes(t, FALSE)
    BY <2>2, <2>3, <2>4
  <2> QED
    BY <1>0, <2>1, <2>5, GoesInv, CallsInv, ComesInv DEF MutexMoves, Holds, Leaves, Backs,
           Running, Outside, Locked, Within, Freeing, Trimming, Below, Caching
<1>3. CASE __libc_malloc(t)
  <2>1. loc[t].pc = "malloc" /\ mutex' = mutex
    BY <1>3 DEF __libc_malloc, At, Private, Inside
  <2>2. \/ Comes(t, loc[t].have_lock)
        \/ Calls(t, "tcache_init", "malloc_cache", loc[t].have_lock)
        \/ Goes(t, "malloc_cache", loc[t].have_lock)
    BY <1>0, <1>3 DEF __libc_malloc, Set, Goto, Enter, Return, Goes, Calls, Comes, Moves,
       NotGot, WithCache
  <2> QED
    BY <1>0, <2>1, <2>2, GoesInv, CallsInv, ComesInv DEF MutexMoves, Holds, Leaves, Backs,
           Running, Outside, Locked, Within, Freeing, Trimming, Below, Caching
<1>4. CASE MallocCached(t)
  <2>1. loc[t].pc = "malloc_cache" /\ mutex' = mutex
    BY <1>4 DEF MallocCached, At, Private, Inside
  <2>2. \/ \E x : Set(t, Got(loc[t], x))
        \/ Set(t, Goto(loc[t], "malloc_lock"))
    BY <1>4, Zenon DEF MallocCached
  <2>3. ASSUME NEW x, Set(t, Got(loc[t], x))
        PROVE  Comes(t, loc[t].have_lock)
    BY <1>0, <2>1, <2>3 DEF Set, Goto, Enter, Return, Goes, Calls, Comes, Moves, Got
  <2>4. ASSUME Set(t, Goto(loc[t], "malloc_lock"))
        PROVE  Goes(t, "malloc_lock", loc[t].have_lock)
    BY <1>0, <2>1, <2>4 DEF Set, Goto, Enter, Return, Goes, Calls, Comes, Moves, Got
  <2>5. \/ Comes(t, loc[t].have_lock)
        \/ Goes(t, "malloc_lock", loc[t].have_lock)
    BY <2>2, <2>3, <2>4
  <2> QED
    BY <1>0, <2>1, <2>5, GoesInv, CallsInv, ComesInv DEF MutexMoves, Holds, Leaves, Backs,
           Running, Outside, Locked, Within, Freeing, Trimming, Below, Caching
<1>5. CASE MallocLock(t)
  <2>1. loc[t].pc = "malloc_lock" /\ mutex = NULL /\ mutex' = t
    BY <1>5 DEF MallocLock, At, Lock
  <2>2. Calls(t, "int_malloc", "malloc_done", loc[t].have_lock)
    BY <1>0, <1>5 DEF MallocLock, Set, Goto, Enter, Return, Goes, Calls, Comes, Moves
  <2> QED
    BY <1>0, <2>1, <2>2, GoesInv, CallsInv, ComesInv DEF MutexMoves, Holds, Leaves, Backs,
           Running, Outside, Locked, Within, Freeing, Trimming, Below, Caching
<1>6. CASE MallocDone(t)
  <2>1. loc[t].pc = "malloc_done" /\ mutex' = NULL
    BY <1>6 DEF MallocDone, At, Unlock
  <2>2. \/ Goes(t, "malloc_lock", loc[t].have_lock)
        \/ Comes(t, loc[t].have_lock)
    BY <1>0, <1>6 DEF MallocDone, Set, Goto, Enter, Return, Goes, Calls, Comes, Moves
  <2> QED
    BY <1>0, <2>1, <2>2, GoesInv, CallsInv, ComesInv DEF MutexMoves, Holds, Leaves, Backs,
           Running, Outside, Locked, Within, Freeing, Trimming, Below, Caching
<1>7. CASE __libc_realloc(t)
  <2>1. loc[t].pc = "realloc" /\ mutex' = mutex
    BY <1>7 DEF __libc_realloc, At, Private, Inside
  <2>2. \/ Goes(t, "malloc", loc[t].have_lock)
        \/ Goes(t, "free", loc[t].have_lock)
        \/ Goes(t, "realloc_size", loc[t].have_lock)
        \/ Calls(t, "tcache_init", "realloc_size", loc[t].have_lock)
    BY <1>0, <1>7 DEF __libc_realloc, Set, Goto, Enter, Return, Goes, Calls, Comes, Moves,
       WithCache
  <2> QED
    BY <1>0, <2>1, <2>2, GoesInv, CallsInv, ComesInv DEF MutexMoves, Holds, Leaves, Backs,
           Running, Outside, Locked, Within, Freeing, Trimming, Below, Caching
<1>8. CASE ReallocSize(t)
  <2>1. loc[t].pc = "realloc_size" /\ mutex' = mutex
    BY <1>8 DEF ReallocSize, At, Private, Inside
  <2>2. \/ Comes(t, loc[t].have_lock)
        \/ Goes(t, "remap", loc[t].have_lock)
        \/ Goes(t, "realloc_lock", loc[t].have_lock)
    BY <1>0, <1>8 DEF ReallocSize, Set, Goto, Enter, Return, Goes, Calls, Comes, Moves,
       NotGot
  <2> QED
    BY <1>0, <2>1, <2>2, GoesInv, CallsInv, ComesInv DEF MutexMoves, Holds, Leaves, Backs,
           Running, Outside, Locked, Within, Freeing, Trimming, Below, Caching
<1>9. CASE Remap(t)
  <2>1. loc[t].pc = "remap" /\ mutex' = mutex
    BY <1>9 DEF Remap, At, Private, Inside
  <2>2. \/ \E x : Set(t, Got(loc[t], x))
        \/ \E x, y, z : Set(t, Got([loc[t] EXCEPT !.own = z, !.copied = x], y))
        \/ Set(t, Enter(loc[t], "malloc", "realloc_copy"))
    BY <1>9, Zenon DEF Remap
  <2>3. ASSUME NEW x, Set(t, Got(loc[t], x))
        PROVE  Comes(t, loc[t].have_lock)
    BY <1>0, <2>1, <2>3 DEF Set, Goto, Enter, Return, Goes, Calls, Comes, Moves, Got
  <2>4. ASSUME NEW x, NEW y, NEW z, Set(t, Got([loc[t] EXCEPT !.own = z, !.copied = x], y))
        PROVE  Comes(t, loc[t].have_lock)
    <3> DEFINE k == [loc[t] EXCEPT !.own = z, !.copied = x]
    <3>1. /\ Fields \subseteq DOMAIN k /\ k.stack = loc[t].stack
          /\ k.have_lock = loc[t].have_lock
      BY <1>0
    <3>2. Set(t, Got(k, y))
      BY <2>4
    <3> HIDE DEF k
    <3> QED
      BY <1>0, <3>1, <3>2, SetGot
  <2>5. ASSUME Set(t, Enter(loc[t], "malloc", "realloc_copy"))
        PROVE  Calls(t, "malloc", "realloc_copy", loc[t].have_lock)
    BY <1>0, <2>1, <2>5 DEF Set, Goto, Enter, Return, Goes, Calls, Comes, Moves, Got
  <2>6. \/ Comes(t, loc[t].have_lock)
        \/ Calls(t, "malloc", "realloc_copy", loc[t].have_lock)
    BY <2>2, <2>3, <2>4, <2>5
  <2> QED
    BY <1>0, <2>1, <2>6, GoesInv, CallsInv, ComesInv DEF MutexMoves, Holds, Leaves, Backs,
           Running, Outside, Locked, Within, Freeing, Trimming, Below, Caching
<1>10. CASE ReallocCopy(t)
  <2>1. loc[t].pc = "realloc_copy" /\ mutex' = mutex
    BY <1>10 DEF ReallocCopy, At, Private, Inside
  <2>2. \/ Set(t, Return(loc[t]))
        \/ \E x : Set(t, Return([loc[t] EXCEPT !.copied = x, !.own = @ \ {loc[t].oldp}]))
    BY <1>10, Zenon DEF ReallocCopy
  <2>3. Comes(t, loc[t].have_lock)
    BY <1>0, <2>2, ZenonT(30) DEF Set, Goto, Enter, Return, Goes, Calls, Comes, Moves
  <2> QED
    BY <1>0, <2>1, <2>3, GoesInv, CallsInv, ComesInv DEF MutexMoves, Holds, Leaves, Backs,
           Running, Outside, Locked, Within, Freeing, Trimming, Below, Caching
<1>11. CASE ReallocLock(t)
  <2>1. loc[t].pc = "realloc_lock" /\ mutex = NULL /\ mutex' = t
    BY <1>11 DEF ReallocLock, At, Lock
  <2>2. Calls(t, "int_realloc", "realloc_unlock", loc[t].have_lock)
    BY <1>0, <1>11 DEF ReallocLock, Set, Goto, Enter, Return, Goes, Calls, Comes, Moves
  <2> QED
    BY <1>0, <2>1, <2>2, GoesInv, CallsInv, ComesInv DEF MutexMoves, Holds, Leaves, Backs,
           Running, Outside, Locked, Within, Freeing, Trimming, Below, Caching
<1>12. CASE _int_realloc(t)
  <2>1. loc[t].pc = "int_realloc" /\ mutex' = mutex
    BY <1>12 DEF _int_realloc, At, Private, Inside
  <2>2. \/ \E x : Set(t, Got(loc[t], x))
        \/ \E x, y, z : Set(t, Goto([loc[t] EXCEPT !.p = x, !.have_lock = TRUE, !.victim = y,
                                               !.own = @ \cup z], "int_free"))
        \/ Set(t, Enter(loc[t], "int_malloc", "realloc_moved"))
    BY <1>12, Zenon DEF _int_realloc, Trimmed
  <2>3. ASSUME NEW x, Set(t, Got(loc[t], x))
        PROVE  Comes(t, loc[t].have_lock)
    BY <1>0, <2>1, <2>3 DEF Set, Goto, Enter, Return, Goes, Calls, Comes, Moves, Got
  <2>4. ASSUME NEW x, NEW y, NEW z, Set(t, Goto([loc[t] EXCEPT !.p = x, !.have_lock = TRUE, !.victim = y,
                                               !.own = @ \cup z], "int_free"))
        PROVE  Goes(t, "int_free", TRUE)
    BY <1>0, <2>1, <2>4 DEF Set, Goto, Enter, Return, Goes, Calls, Comes, Moves, Got
  <2>5. ASSUME Set(t, Enter(loc[t], "int_malloc", "realloc_moved"))
        PROVE  Calls(t, "int_malloc", "realloc_moved", loc[t].have_lock)
    BY <1>0, <2>1, <2>5 DEF Set, Goto, Enter, Return, Goes, Calls, Comes, Moves, Got
  <2>6. \/ Comes(t, loc[t].have_lock)
        \/ Goes(t, "int_free", TRUE)
        \/ Calls(t, "int_malloc", "realloc_moved", loc[t].have_lock)
    BY <2>2, <2>3, <2>4, <2>5
  <2> QED
    BY <1>0, <2>1, <2>6, GoesInv, CallsInv, ComesInv DEF MutexMoves, Holds, Leaves, Backs,
           Running, Outside, Locked, Within, Freeing, Trimming, Below, Caching
<1>13. CASE ReallocMoved(t)
  <2>1. loc[t].pc = "realloc_moved" /\ mutex' = mutex
    BY <1>13 DEF ReallocMoved, At, Private, Inside
  <2>2. \/ Set(t, NotGot(loc[t]))
        \/ \E x, y : Set(t, Got([loc[t] EXCEPT !.own = x], y))
        \/ \E x, y, z, w : Set(t, Goto([[loc[t] EXCEPT !.own = @ \ w] EXCEPT
                                       !.p = x, !.have_lock = TRUE, !.victim = y,
                                       !.own = @ \cup z], "int_free"))
        \/ \E x, y : Set(t, Goto([loc[t] EXCEPT !.copied = x, !.p = y, !.have_lock = TRUE], "int_free"))
    BY <1>13, Zenon DEF ReallocMoved, Trimmed
  <2>3. ASSUME Set(t, NotGot(loc[t]))
        PROVE  Comes(t, loc[t].have_lock)
    BY <1>0, <2>1, <2>3 DEF Set, Goto, Enter, Return, Goes, Calls, Comes, Moves, Got, NotGot
  <2>4. ASSUME NEW x, NEW y, Set(t, Got([loc[t] EXCEPT !.own = x], y))
        PROVE  Comes(t, loc[t].have_lock)
    <3> DEFINE k == [loc[t] EXCEPT !.own = x]
    <3>1. /\ Fields \subseteq DOMAIN k /\ k.stack = loc[t].stack
          /\ k.have_lock = loc[t].have_lock
      BY <1>0
    <3>2. Set(t, Got(k, y))
      BY <2>4
    <3> HIDE DEF k
    <3> QED
      BY <1>0, <3>1, <3>2, SetGot
  <2>5. ASSUME NEW x, NEW y, NEW z, NEW w, Set(t, Goto([[loc[t] EXCEPT !.own = @ \ w] EXCEPT
                                       !.p = x, !.have_lock = TRUE, !.victim = y,
                                       !.own = @ \cup z], "int_free"))
        PROVE  Goes(t, "int_free", TRUE)
    BY <1>0, <2>1, <2>5 DEF Set, Goto, Enter, Return, Goes, Calls, Comes, Moves, Got, NotGot
  <2>6. ASSUME NEW x, NEW y, Set(t, Goto([loc[t] EXCEPT !.copied = x, !.p = y, !.have_lock = TRUE], "int_free"))
        PROVE  Goes(t, "int_free", TRUE)
    BY <1>0, <2>1, <2>6 DEF Set, Goto, Enter, Return, Goes, Calls, Comes, Moves, Got, NotGot
  <2>7. \/ Comes(t, loc[t].have_lock)
        \/ Goes(t, "int_free", TRUE)
    BY <2>2, <2>3, <2>4, <2>5, <2>6
  <2> QED
    BY <1>0, <2>1, <2>7, GoesInv, CallsInv, ComesInv DEF MutexMoves, Holds, Leaves, Backs,
           Running, Outside, Locked, Within, Freeing, Trimming, Below, Caching
<1>14. CASE ReallocUnlock(t)
  <2>1. loc[t].pc = "realloc_unlock" /\ mutex' = NULL
    BY <1>14 DEF ReallocUnlock, At, Unlock
  <2>2. \/ Comes(t, loc[t].have_lock)
        \/ Calls(t, "malloc", "realloc_elsewhere", loc[t].have_lock)
    BY <1>0, <1>14 DEF ReallocUnlock, Set, Goto, Enter, Return, Goes, Calls, Comes, Moves
  <2> QED
    BY <1>0, <2>1, <2>2, GoesInv, CallsInv, ComesInv DEF MutexMoves, Holds, Leaves, Backs,
           Running, Outside, Locked, Within, Freeing, Trimming, Below, Caching
<1>15. CASE ReallocElsewhere(t)
  <2>1. loc[t].pc = "realloc_elsewhere" /\ mutex' = mutex
    BY <1>15 DEF ReallocElsewhere, At, Private, Inside
  <2>2. \/ Comes(t, loc[t].have_lock)
        \/ Goes(t, "int_free", FALSE)
    BY <1>0, <1>15 DEF ReallocElsewhere, Set, Goto, Enter, Return, Goes, Calls, Comes, Moves
  <2> QED
    BY <1>0, <2>1, <2>2, GoesInv, CallsInv, ComesInv DEF MutexMoves, Holds, Leaves, Backs,
           Running, Outside, Locked, Within, Freeing, Trimming, Below, Caching
<1>16. CASE _mid_memalign(t)
  <2>1. loc[t].pc = "memalign" /\ mutex' = mutex
    BY <1>16 DEF _mid_memalign, At, Private, Inside
  <2>2. \/ Goes(t, "malloc", loc[t].have_lock)
        \/ Goes(t, "memalign_lock", loc[t].have_lock)
    BY <1>0, <1>16 DEF _mid_memalign, Set, Goto, Enter, Return, Goes, Calls, Comes, Moves
  <2> QED
    BY <1>0, <2>1, <2>2, GoesInv, CallsInv, ComesInv DEF MutexMoves, Holds, Leaves, Backs,
           Running, Outside, Locked, Within, Freeing, Trimming, Below, Caching
<1>17. CASE _int_memalign(t)
  <2>1. loc[t].pc = "memalign_lock" /\ mutex = NULL /\ mutex' = t
    BY <1>17 DEF _int_memalign, At, Lock
  <2>2. \/ Goes(t, "memalign_done", loc[t].have_lock)
        \/ Calls(t, "int_malloc", "memalign_lead", loc[t].have_lock)
    BY <1>0, <1>17 DEF _int_memalign, Set, Goto, Enter, Return, Goes, Calls, Comes, Moves
  <2> QED
    BY <1>0, <2>1, <2>2, GoesInv, CallsInv, ComesInv DEF MutexMoves, Holds, Leaves, Backs,
           Running, Outside, Locked, Within, Freeing, Trimming, Below, Caching
<1>18. CASE MemalignLead(t)
  <2>1. loc[t].pc = "memalign_lead" /\ mutex' = mutex
    BY <1>18 DEF MemalignLead, At, Private, Inside
  <2>2. \/ Set(t, Goto(loc[t], "memalign_done"))
        \/ Set(t, Goto(loc[t], "memalign_rest"))
        \/ \E x, y : Set(t, Goto([loc[t] EXCEPT !.victim = x, !.own = y], "memalign_done"))
        \/ \E x, y, z : Set(t, Enter([loc[t] EXCEPT !.victim = x, !.p = y, !.have_lock = TRUE,
                                                !.own = z], "int_free", "memalign_rest"))
    BY <1>18, Zenon DEF MemalignLead
  <2>3. ASSUME Set(t, Goto(loc[t], "memalign_done"))
        PROVE  Goes(t, "memalign_done", loc[t].have_lock)
    BY <1>0, <2>1, <2>3 DEF Set, Goto, Enter, Return, Goes, Calls, Comes, Moves
  <2>4. ASSUME Set(t, Goto(loc[t], "memalign_rest"))
        PROVE  Goes(t, "memalign_rest", loc[t].have_lock)
    BY <1>0, <2>1, <2>4 DEF Set, Goto, Enter, Return, Goes, Calls, Comes, Moves
  <2>5. ASSUME NEW x, NEW y, Set(t, Goto([loc[t] EXCEPT !.victim = x, !.own = y], "memalign_done"))
        PROVE  Goes(t, "memalign_done", loc[t].have_lock)
    BY <1>0, <2>1, <2>5 DEF Set, Goto, Enter, Return, Goes, Calls, Comes, Moves
  <2>6. ASSUME NEW x, NEW y, NEW z, Set(t, Enter([loc[t] EXCEPT !.victim = x, !.p = y, !.have_lock = TRUE,
                                                !.own = z], "int_free", "memalign_rest"))
        PROVE  Calls(t, "int_free", "memalign_rest", TRUE)
    BY <1>0, <2>1, <2>6 DEF Set, Goto, Enter, Return, Goes, Calls, Comes, Moves
  <2>7. \/ Goes(t, "memalign_done", loc[t].have_lock)
        \/ Goes(t, "memalign_rest", loc[t].have_lock)
        \/ Calls(t, "int_free", "memalign_rest", TRUE)
    BY <2>2, <2>3, <2>4, <2>5, <2>6
  <2> QED
    BY <1>0, <2>1, <2>7, GoesInv, CallsInv, ComesInv DEF MutexMoves, Holds, Leaves, Backs,
           Running, Outside, Locked, Within, Freeing, Trimming, Below, Caching
<1>19. CASE MemalignRest(t)
  <2>1. loc[t].pc = "memalign_rest" /\ mutex' = mutex
    BY <1>19 DEF MemalignRest, At, Private, Inside
  <2>2. \/ Set(t, Goto(loc[t], "memalign_done"))
        \/ \E x, y : Set(t, Enter([loc[t] EXCEPT !.p = x, !.have_lock = TRUE, !.own = @ \cup y],
                                 "int_free", "memalign_done"))
    BY <1>19, Zenon DEF MemalignRest
  <2>3. ASSUME Set(t, Goto(loc[t], "memalign_done"))
        PROVE  Goes(t, "memalign_done", loc[t].have_lock)
    BY <1>0, <2>1, <2>3 DEF Set, Goto, Enter, Return, Goes, Calls, Comes, Moves
  <2>4. ASSUME NEW x, NEW y, Set(t, Enter([loc[t] EXCEPT !.p = x, !.have_lock = TRUE, !.own = @ \cup y],
                                 "int_free", "memalign_done"))
        PROVE  Calls(t, "int_free", "memalign_done", TRUE)
    BY <1>0, <2>1, <2>4 DEF Set, Goto, Enter, Return, Goes, Calls, Comes, Moves
  <2>5. \/ Goes(t, "memalign_done", loc[t].have_lock)
        \/ Calls(t, "int_free", "memalign_done", TRUE)
    BY <2>2, <2>3, <2>4
  <2> QED
    BY <1>0, <2>1, <2>5, GoesInv, CallsInv, ComesInv DEF MutexMoves, Holds, Leaves, Backs,
           Running, Outside, Locked, Within, Freeing, Trimming, Below, Caching
<1>20. CASE MemalignDone(t)
  <2>1. loc[t].pc = "memalign_done" /\ mutex' = NULL
    BY <1>20 DEF MemalignDone, At, Unlock
  <2>2. \/ Goes(t, "memalign_lock", loc[t].have_lock)
        \/ Comes(t, loc[t].have_lock)
    BY <1>0, <1>20 DEF MemalignDone, Set, Goto, Enter, Return, Goes, Calls, Comes, Moves
  <2> QED
    BY <1>0, <2>1, <2>2, GoesInv, CallsInv, ComesInv DEF MutexMoves, Holds, Leaves, Backs,
           Running, Outside, Locked, Within, Freeing, Trimming, Below, Caching
<1>21. CASE __libc_pvalloc(t)
  <2>1. loc[t].pc = "pvalloc" /\ mutex' = mutex
    BY <1>21 DEF __libc_pvalloc, At, Private, Inside
  <2>2. Goes(t, "memalign", loc[t].have_lock)
    BY <1>0, <1>21 DEF __libc_pvalloc, Set, Goto, Enter, Return, Goes, Calls, Comes, Moves
  <2> QED
    BY <1>0, <2>1, <2>2, GoesInv, CallsInv, ComesInv DEF MutexMoves, Holds, Leaves, Backs,
           Running, Outside, Locked, Within, Freeing, Trimming, Below, Caching
<1>22. CASE __libc_calloc(t)
  <2>1. loc[t].pc = "calloc" /\ mutex' = mutex
    BY <1>22 DEF __libc_calloc, At, Private, Inside
  <2>2. \/ Calls(t, "tcache_init", "calloc_lock", loc[t].have_lock)
        \/ Goes(t, "calloc_lock", loc[t].have_lock)
    BY <1>0, <1>22 DEF __libc_calloc, Set, Goto, Enter, Return, Goes, Calls, Comes, Moves,
       WithCache
  <2> QED
    BY <1>0, <2>1, <2>2, GoesInv, CallsInv, ComesInv DEF MutexMoves, Holds, Leaves, Backs,
           Running, Outside, Locked, Within, Freeing, Trimming, Below, Caching
<1>23. CASE CallocLock(t)
  <2> DEFINE seen == [loc[t] EXCEPT !.oldtop = av.top, !.oldtopsize = OldTopSize(av),
                                    !.high = av.high, !.nb = request2size(loc[t].bytes)]
  <2>1. loc[t].pc = "calloc_lock"
    BY <1>23 DEF CallocLock, At
  <2>2. \/ Set(t, NotGot(loc[t])) /\ mutex' = mutex
        \/ /\ Set(t, Enter(seen, "int_malloc", "calloc_done"))
           /\ mutex = NULL /\ mutex' = t
    BY <1>23, Zenon DEF CallocLock
  <2>3. /\ Fields \subseteq DOMAIN seen /\ seen.stack = loc[t].stack
        /\ seen.have_lock = loc[t].have_lock
    BY <1>0
  <2> HIDE DEF seen
  <2>4. \/ Comes(t, loc[t].have_lock) /\ mutex' = mutex
        \/ Calls(t, "int_malloc", "calloc_done", loc[t].have_lock) /\ mutex = NULL /\ mutex' = t
    BY <1>0, <2>2, <2>3, SetNotGot, SetEnter
  <2> QED
    BY <1>0, <2>1, <2>4, GoesInv, CallsInv, ComesInv DEF MutexMoves, Holds, Leaves, Backs,
           Running, Outside, Locked, Within, Freeing, Trimming, Below, Caching
<1>24. CASE CallocDone(t)
  <2>1. loc[t].pc = "calloc_done" /\ mutex' = NULL
    BY <1>24 DEF CallocDone, At, Unlock
  <2>2. \/ Comes(t, loc[t].have_lock)
        \/ Goes(t, "calloc_again", loc[t].have_lock)
        \/ Goes(t, "clear", loc[t].have_lock)
    BY <1>0, <1>24 DEF CallocDone, Set, Goto, Enter, Return, Goes, Calls, Comes, Moves
  <2> QED
    BY <1>0, <2>1, <2>2, GoesInv, CallsInv, ComesInv DEF MutexMoves, Holds, Leaves, Backs,
           Running, Outside, Locked, Within, Freeing, Trimming, Below, Caching
<1>25. CASE CallocAgain(t)
  <2>1. loc[t].pc = "calloc_again" /\ mutex = NULL /\ mutex' = t
    BY <1>25 DEF CallocAgain, At, Lock
  <2>2. Calls(t, "int_malloc", "calloc_done", loc[t].have_lock)
    BY <1>0, <1>25 DEF CallocAgain, Set, Goto, Enter, Return, Goes, Calls, Comes, Moves
  <2> QED
    BY <1>0, <2>1, <2>2, GoesInv, CallsInv, ComesInv DEF MutexMoves, Holds, Leaves, Backs,
           Running, Outside, Locked, Within, Freeing, Trimming, Below, Caching
<1>26. CASE Clear(t)
  <2>1. loc[t].pc = "clear" /\ mutex' = mutex
    BY <1>26 DEF Clear, At, Private, Inside
  <2>2. Comes(t, loc[t].have_lock)
    BY <1>0, <1>26 DEF Clear, Set, Goto, Enter, Return, Goes, Calls, Comes, Moves
  <2> QED
    BY <1>0, <2>1, <2>2, GoesInv, CallsInv, ComesInv DEF MutexMoves, Holds, Leaves, Backs,
           Running, Outside, Locked, Within, Freeing, Trimming, Below, Caching
<1> QED
  BY <1>1, <1>2, <1>3, <1>4, <1>5, <1>6, <1>7, <1>8, <1>9, <1>10, <1>11, <1>12, <1>13,
     <1>14, <1>15, <1>16, <1>17, <1>18, <1>19, <1>20, <1>21, <1>22, <1>23, <1>24, <1>25,
     <1>26 DEF Wrapper

(* _int_malloc, malloc_consolidate and sysmalloc.                          *)
LEMMA TakeInv ==
  ASSUME Control, NEW t \in Threads, Take(t)
  PROVE  Control'
<1>0. /\ Fields \subseteq DOMAIN loc[t] /\ loc = [u \in Threads |-> loc[u]]
      /\ {"pc", "stack", "have_lock"} \subseteq DOMAIN loc[t] /\ loc[t].have_lock \in BOOLEAN
  BY DEF Control, FrameRight, Fields
<1>1. CASE _int_malloc(t)
  <2>1. loc[t].pc = "int_malloc" /\ mutex' = mutex
    BY <1>1 DEF _int_malloc, At, Private, Inside
  <2>2. \/ Goes(t, "fast_take", loc[t].have_lock)
        \/ Goes(t, "small", loc[t].have_lock)
    BY <1>0, <1>1 DEF _int_malloc, Set, Goto, Enter, Return, Goes, Calls, Comes, Moves,
       FastLoad
  <2> QED
    BY <1>0, <2>1, <2>2, GoesInv, CallsInv, ComesInv DEF MutexMoves, Holds, Leaves, Backs,
           Running, Outside, Locked, Within, Freeing, Trimming, Below, Caching
<1>2. CASE FastTake(t)
  <2>1. loc[t].pc = "fast_take" /\ mutex' = mutex
    BY <1>2 DEF FastTake, At, Private, Inside
  <2>2. \/ \E x, y : Set(t, Goto([loc[t] EXCEPT !.victim = x, !.own = @ \cup y, !.recycled = TRUE,
                                               !.tc_victim = NULL, !.pp = NULL], "stash"))
        \/ \E x : Set(t, FastLoad(loc[t], x, "fast_take", Goto(loc[t], "small")))
    BY <1>2, Zenon DEF FastTake
  <2>3. \/ Goes(t, "stash", loc[t].have_lock)
        \/ Goes(t, "fast_take", loc[t].have_lock)
        \/ Goes(t, "small", loc[t].have_lock)
    BY <1>0, <2>2, ZenonT(30) DEF Set, Goto, Enter, Return, Goes, Calls, Comes, Moves, FastLoad
  <2> QED
    BY <1>0, <2>1, <2>3, GoesInv, CallsInv, ComesInv DEF MutexMoves, Holds, Leaves, Backs,
           Running, Outside, Locked, Within, Freeing, Trimming, Below, Caching
<1>3. CASE Stash(t)
  <2>1. loc[t].pc = "stash" /\ mutex' = mutex
    BY <1>3 DEF Stash, At, Private, Inside
  <2>2. \/ Goes(t, "stash_take", loc[t].have_lock)
        \/ Comes(t, loc[t].have_lock)
    BY <1>0, <1>3 DEF Stash, Set, Goto, Enter, Return, Goes, Calls, Comes, Moves, FastLoad
  <2> QED
    BY <1>0, <2>1, <2>2, GoesInv, CallsInv, ComesInv DEF MutexMoves, Holds, Leaves, Backs,
           Running, Outside, Locked, Within, Freeing, Trimming, Below, Caching
<1>4. CASE StashTake(t)
  <2>1. loc[t].pc = "stash_take" /\ mutex' = mutex
    BY <1>4 DEF StashTake, At, Private, Inside
  <2>2. \/ Set(t, Goto(loc[t], "stash"))
        \/ \E x : Set(t, FastLoad(loc[t], x, "stash_take", Return(loc[t])))
    BY <1>4, Zenon DEF StashTake
  <2>3. \/ Goes(t, "stash", loc[t].have_lock)
        \/ Goes(t, "stash_take", loc[t].have_lock)
        \/ Comes(t, loc[t].have_lock)
    BY <1>0, <2>2, ZenonT(30) DEF Set, Goto, Enter, Return, Goes, Calls, Comes, Moves, FastLoad
  <2> QED
    BY <1>0, <2>1, <2>3, GoesInv, CallsInv, ComesInv DEF MutexMoves, Holds, Leaves, Backs,
           Running, Outside, Locked, Within, Freeing, Trimming, Below, Caching
<1>5. CASE SmallBin(t)
  <2>1. loc[t].pc = "small" /\ mutex' = mutex
    BY <1>5 DEF SmallBin, At, Private, Inside
  <2>2. Comes(t, loc[t].have_lock)
    BY <1>0, <1>5 DEF SmallBin, Set, Goto, Enter, Return, Goes, Calls, Comes, Moves, Got
  <2> QED
    BY <1>0, <2>1, <2>2, GoesInv, CallsInv, ComesInv DEF MutexMoves, Holds, Leaves, Backs,
           Running, Outside, Locked, Within, Freeing, Trimming, Below, Caching
<1>6. CASE NoSmallBin(t)
  <2>1. loc[t].pc = "small" /\ mutex' = mutex
    BY <1>6 DEF NoSmallBin, At, Private, Inside
  <2>2. \/ Set(t, Goto(loc[t], "unsorted"))
        \/ Set(t, Enter(loc[t], "consolidate", "unsorted"))
    BY <1>6, Zenon DEF NoSmallBin
  <2>3. \/ Goes(t, "unsorted", loc[t].have_lock)
        \/ Calls(t, "consolidate", "unsorted", loc[t].have_lock)
    BY <1>0, <2>2 DEF Set, Goto, Enter, Return, Goes, Calls, Comes, Moves
  <2> QED
    BY <1>0, <2>1, <2>3, GoesInv, CallsInv, ComesInv DEF MutexMoves, Holds, Leaves, Backs,
           Running, Outside, Locked, Within, Freeing, Trimming, Below, Caching
<1>7. CASE UnsortedTurn(t)
  <2>1. loc[t].pc = "unsorted" /\ mutex' = mutex
    BY <1>7 DEF UnsortedTurn, At, Private, Inside
  <2>2. \/ \E x : Set(t, Got(loc[t], x))
        \/ Set(t, [loc[t] EXCEPT !.return_cached = TRUE])
        \/ Set(t, [loc[t] EXCEPT !.unsorted_count = @ + 1, !.iters = @ + 1])
    BY <1>7, Zenon DEF UnsortedTurn
  <2>3. ASSUME NEW x, Set(t, Got(loc[t], x))
        PROVE  Comes(t, loc[t].have_lock)
    BY <1>0, <2>1, <2>3 DEF Set, Goto, Enter, Return, Goes, Calls, Comes, Moves, Got
  <2>4. ASSUME Set(t, [loc[t] EXCEPT !.return_cached = TRUE])
        PROVE  Goes(t, "unsorted", loc[t].have_lock)
    BY <1>0, <2>1, <2>4 DEF Set, Goto, Enter, Return, Goes, Calls, Comes, Moves, Got
  <2>5. ASSUME Set(t, [loc[t] EXCEPT !.unsorted_count = @ + 1, !.iters = @ + 1])
        PROVE  Goes(t, "unsorted", loc[t].have_lock)
    BY <1>0, <2>1, <2>5 DEF Set, Goto, Enter, Return, Goes, Calls, Comes, Moves, Got
  <2>6. \/ Comes(t, loc[t].have_lock)
        \/ Goes(t, "unsorted", loc[t].have_lock)
    BY <2>2, <2>3, <2>4, <2>5
  <2> QED
    BY <1>0, <2>1, <2>6, GoesInv, CallsInv, ComesInv DEF MutexMoves, Holds, Leaves, Backs,
           Running, Outside, Locked, Within, Freeing, Trimming, Below, Caching
<1>8. CASE UnsortedEnd(t)
  <2>1. loc[t].pc = "unsorted" /\ mutex' = mutex
    BY <1>8 DEF UnsortedEnd, At, Private, Inside
  <2>2. \/ \E x : Set(t, Got(loc[t], x))
        \/ Set(t, Goto(loc[t], "bins"))
    BY <1>8, Zenon DEF UnsortedEnd
  <2>3. ASSUME NEW x, Set(t, Got(loc[t], x))
        PROVE  Comes(t, loc[t].have_lock)
    BY <1>0, <2>1, <2>3 DEF Set, Goto, Enter, Return, Goes, Calls, Comes, Moves, Got
  <2>4. ASSUME Set(t, Goto(loc[t], "bins"))
        PROVE  Goes(t, "bins", loc[t].have_lock)
    BY <1>0, <2>1, <2>4 DEF Set, Goto, Enter, Return, Goes, Calls, Comes, Moves, Got
  <2>5. \/ Comes(t, loc[t].have_lock)
        \/ Goes(t, "bins", loc[t].have_lock)
    BY <2>2, <2>3, <2>4
  <2> QED
    BY <1>0, <2>1, <2>5, GoesInv, CallsInv, ComesInv DEF MutexMoves, Holds, Leaves, Backs,
           Running, Outside, Locked, Within, Freeing, Trimming, Below, Caching
<1>9. CASE TakeFromOwnBin(t)
  <2>1. loc[t].pc = "bins" /\ mutex' = mutex
    BY <1>9 DEF TakeFromOwnBin, At, Private, Inside
  <2>2. Comes(t, loc[t].have_lock)
    BY <1>0, <1>9 DEF TakeFromOwnBin, Set, Goto, Enter, Return, Goes, Calls, Comes, Moves,
       Got
  <2> QED
    BY <1>0, <2>1, <2>2, GoesInv, CallsInv, ComesInv DEF MutexMoves, Holds, Leaves, Backs,
           Running, Outside, Locked, Within, Freeing, Trimming, Below, Caching
<1>10. CASE SearchBins(t)
  <2>1. loc[t].pc = "bins" /\ mutex' = mutex
    BY <1>10 DEF SearchBins, At, Private, Inside
  <2>2. \/ Set(t, Goto(loc[t], "top"))
        \/ \E x : Set(t, Got(loc[t], x))
    BY <1>10, Zenon DEF SearchBins
  <2>3. ASSUME Set(t, Goto(loc[t], "top"))
        PROVE  Goes(t, "top", loc[t].have_lock)
    BY <1>0, <2>1, <2>3 DEF Set, Goto, Enter, Return, Goes, Calls, Comes, Moves, Got
  <2>4. ASSUME NEW x, Set(t, Got(loc[t], x))
        PROVE  Comes(t, loc[t].have_lock)
    BY <1>0, <2>1, <2>4 DEF Set, Goto, Enter, Return, Goes, Calls, Comes, Moves, Got
  <2>5. \/ Goes(t, "top", loc[t].have_lock)
        \/ Comes(t, loc[t].have_lock)
    BY <2>2, <2>3, <2>4
  <2> QED
    BY <1>0, <2>1, <2>5, GoesInv, CallsInv, ComesInv DEF MutexMoves, Holds, Leaves, Backs,
           Running, Outside, Locked, Within, Freeing, Trimming, Below, Caching
<1>11. CASE use_top(t)
  <2>1. loc[t].pc = "top" /\ mutex' = mutex
    BY <1>11 DEF use_top, At, Private, Inside
  <2>2. \/ \E x : Set(t, Got(loc[t], x))
        \/ Set(t, Enter([loc[t] EXCEPT !.iters = 0], "consolidate", "unsorted"))
        \/ Set(t, Goto(loc[t], "sysmalloc"))
    BY <1>11, Zenon DEF use_top
  <2>3. ASSUME NEW x, Set(t, Got(loc[t], x))
        PROVE  Comes(t, loc[t].have_lock)
    BY <1>0, <2>1, <2>3 DEF Set, Goto, Enter, Return, Goes, Calls, Comes, Moves, Got
  <2>4. ASSUME Set(t, Enter([loc[t] EXCEPT !.iters = 0], "consolidate", "unsorted"))
        PROVE  Calls(t, "consolidate", "unsorted", loc[t].have_lock)
    BY <1>0, <2>1, <2>4 DEF Set, Goto, Enter, Return, Goes, Calls, Comes, Moves, Got
  <2>5. ASSUME Set(t, Goto(loc[t], "sysmalloc"))
        PROVE  Goes(t, "sysmalloc", loc[t].have_lock)
    BY <1>0, <2>1, <2>5 DEF Set, Goto, Enter, Return, Goes, Calls, Comes, Moves, Got
  <2>6. \/ Comes(t, loc[t].have_lock)
        \/ Calls(t, "consolidate", "unsorted", loc[t].have_lock)
        \/ Goes(t, "sysmalloc", loc[t].have_lock)
    BY <2>2, <2>3, <2>4, <2>5
  <2> QED
    BY <1>0, <2>1, <2>6, GoesInv, CallsInv, ComesInv DEF MutexMoves, Holds, Leaves, Backs,
           Running, Outside, Locked, Within, Freeing, Trimming, Below, Caching
<1>12. CASE malloc_consolidate(t)
  <2>1. loc[t].pc = "consolidate" /\ mutex' = mutex
    BY <1>12 DEF malloc_consolidate, At, Private, Inside
  <2>2. Goes(t, "consolidate_bin", loc[t].have_lock)
    BY <1>0, <1>12 DEF malloc_consolidate, Set, Goto, Enter, Return, Goes, Calls, Comes,
       Moves
  <2> QED
    BY <1>0, <2>1, <2>2, GoesInv, CallsInv, ComesInv DEF MutexMoves, Holds, Leaves, Backs,
           Running, Outside, Locked, Within, Freeing, Trimming, Below, Caching
<1>13. CASE ConsolidateBin(t)
  <2>1. loc[t].pc = "consolidate_bin" /\ mutex' = mutex
    BY <1>13 DEF ConsolidateBin, At, Private, Inside
  <2>2. \/ Set(t, Return([loc[t] EXCEPT !.fb = 0]))
        \/ Set(t, [loc[t] EXCEPT !.fb = @ + MALLOC_ALIGNMENT])
    BY <1>13, Zenon DEF ConsolidateBin
  <2>3. ASSUME Set(t, Return([loc[t] EXCEPT !.fb = 0]))
        PROVE  Comes(t, loc[t].have_lock)
    BY <1>0, <2>1, <2>3 DEF Set, Goto, Enter, Return, Goes, Calls, Comes, Moves
  <2>4. ASSUME Set(t, [loc[t] EXCEPT !.fb = @ + MALLOC_ALIGNMENT])
        PROVE  Goes(t, "consolidate_bin", loc[t].have_lock)
    BY <1>0, <2>1, <2>4 DEF Set, Goto, Enter, Return, Goes, Calls, Comes, Moves
  <2>5. \/ Comes(t, loc[t].have_lock)
        \/ Goes(t, "consolidate_bin", loc[t].have_lock)
    BY <2>2, <2>3, <2>4
  <2> QED
    BY <1>0, <2>1, <2>5, GoesInv, CallsInv, ComesInv DEF MutexMoves, Holds, Leaves, Backs,
           Running, Outside, Locked, Within, Freeing, Trimming, Below, Caching
<1>14. CASE SysMap(t)
  <2>1. loc[t].pc = "sysmalloc" /\ mutex' = mutex
    BY <1>14 DEF SysMap, At, Private, Inside
  <2>2. Comes(t, loc[t].have_lock)
    BY <1>0, <1>14 DEF SysMap, Set, Goto, Enter, Return, Goes, Calls, Comes, Moves, Got
  <2> QED
    BY <1>0, <2>1, <2>2, GoesInv, CallsInv, ComesInv DEF MutexMoves, Holds, Leaves, Backs,
           Running, Outside, Locked, Within, Freeing, Trimming, Below, Caching
<1>15. CASE sysmalloc(t)
  <2>1. loc[t].pc = "sysmalloc" /\ mutex' = mutex
    BY <1>15 DEF sysmalloc, At, Private, Inside
  <2>2. \/ \E x, y : Set(t, Goto([loc[t] EXCEPT !.lo = x, !.hi = y], "sys_top"))
        \/ Set(t, Goto(loc[t], "sys_done"))
    BY <1>15, Zenon DEF sysmalloc
  <2>3. \/ Goes(t, "sys_top", loc[t].have_lock)
        \/ Goes(t, "sys_done", loc[t].have_lock)
    BY <1>0, <2>2 DEF Set, Goto, Enter, Return, Goes, Calls, Comes, Moves
  <2> QED
    BY <1>0, <2>1, <2>3, GoesInv, CallsInv, ComesInv DEF MutexMoves, Holds, Leaves, Backs,
           Running, Outside, Locked, Within, Freeing, Trimming, Below, Caching
<1>16. CASE SysTop(t)
  <2>1. loc[t].pc = "sys_top" /\ mutex' = mutex
    BY <1>16 DEF SysTop, At, Private, Inside
  <2>2. \/ Set(t, Goto([loc[t] EXCEPT !.lo = 0, !.hi = 0], "sys_done"))
        \/ \E x, y : Set(t, Enter([[loc[t] EXCEPT !.lo = 0, !.hi = 0] EXCEPT
                                   !.p = x, !.have_lock = TRUE, !.own = @ \cup y],
                                 "int_free", "sys_done"))
    BY <1>16, Zenon DEF SysTop
  <2>3. ASSUME Set(t, Goto([loc[t] EXCEPT !.lo = 0, !.hi = 0], "sys_done"))
        PROVE  Goes(t, "sys_done", loc[t].have_lock)
    BY <1>0, <2>1, <2>3 DEF Set, Goto, Enter, Return, Goes, Calls, Comes, Moves
  <2>4. ASSUME NEW x, NEW y, Set(t, Enter([[loc[t] EXCEPT !.lo = 0, !.hi = 0] EXCEPT
                                   !.p = x, !.have_lock = TRUE, !.own = @ \cup y],
                                 "int_free", "sys_done"))
        PROVE  Calls(t, "int_free", "sys_done", TRUE)
    <3> DEFINE k == [[loc[t] EXCEPT !.lo = 0, !.hi = 0] EXCEPT !.p = x, !.have_lock = TRUE, !.own = @ \cup y]
    <3>1. /\ Fields \subseteq DOMAIN k /\ k.stack = loc[t].stack
          /\ k.have_lock = TRUE
      BY <1>0
    <3>2. Set(t, Enter(k, "int_free", "sys_done"))
      BY <2>4
    <3> HIDE DEF k
    <3> QED
      BY <1>0, <3>1, <3>2, SetEnter
  <2>5. \/ Goes(t, "sys_done", loc[t].have_lock)
        \/ Calls(t, "int_free", "sys_done", TRUE)
    BY <2>2, <2>3, <2>4
  <2> QED
    BY <1>0, <2>1, <2>5, GoesInv, CallsInv, ComesInv DEF MutexMoves, Holds, Leaves, Backs,
           Running, Outside, Locked, Within, Freeing, Trimming, Below, Caching
<1>17. CASE SysDone(t)
  <2>1. loc[t].pc = "sys_done" /\ mutex' = mutex
    BY <1>17 DEF SysDone, At, Private, Inside
  <2>2. \/ \E x : Set(t, Got(loc[t], x))
        \/ Set(t, NotGot(loc[t]))
    BY <1>17, Zenon DEF SysDone
  <2>3. Comes(t, loc[t].have_lock)
    BY <1>0, <2>2, ZenonT(30) DEF Set, Goto, Enter, Return, Goes, Calls, Comes, Moves, Got, NotGot
  <2> QED
    BY <1>0, <2>1, <2>3, GoesInv, CallsInv, ComesInv DEF MutexMoves, Holds, Leaves, Backs,
           Running, Outside, Locked, Within, Freeing, Trimming, Below, Caching
<1> QED
  BY <1>1, <1>2, <1>3, <1>4, <1>5, <1>6, <1>7, <1>8, <1>9, <1>10, <1>11, <1>12, <1>13,
     <1>14, <1>15, <1>16, <1>17 DEF Take

(* free, _int_free, systrim and what calls them.                           *)
LEMMA GiveInv ==
  ASSUME Control, NEW t \in Threads, Give(t)
  PROVE  Control'
<1>0. /\ Fields \subseteq DOMAIN loc[t] /\ loc = [u \in Threads |-> loc[u]]
      /\ {"pc", "stack", "have_lock"} \subseteq DOMAIN loc[t] /\ loc[t].have_lock \in BOOLEAN
  BY DEF Control, FrameRight, Fields
<1>1. CASE __libc_free(t)
  <2>1. loc[t].pc = "free" /\ mutex' = mutex
    BY <1>1 DEF __libc_free, At, Private, Inside
  <2>2. \/ \E x : Set(t, Return([loc[t] EXCEPT !.own = x, !.p = NULL]))
        \/ Set(t, Return(loc[t]))
        \/ Set(t, WithCache(t, [loc[t] EXCEPT !.have_lock = FALSE], "int_free"))
    BY <1>1, Zenon DEF __libc_free
  <2>3. ASSUME NEW x, Set(t, Return([loc[t] EXCEPT !.own = x, !.p = NULL]))
        PROVE  Comes(t, loc[t].have_lock)
    BY <1>0, <2>1, <2>3 DEF Set, Goto, Enter, Return, Goes, Calls, Comes, Moves, WithCache
  <2>4. ASSUME Set(t, Return(loc[t]))
        PROVE  Comes(t, loc[t].have_lock)
    BY <1>0, <2>1, <2>4 DEF Set, Goto, Enter, Return, Goes, Calls, Comes, Moves, WithCache
  <2>5. ASSUME Set(t, WithCache(t, [loc[t] EXCEPT !.have_lock = FALSE], "int_free"))
        PROVE  \/ Calls(t, "tcache_init", "int_free", FALSE)
             \/ Goes(t, "int_free", FALSE)
    BY <1>0, <2>1, <2>5 DEF Set, Goto, Enter, Return, Goes, Calls, Comes, Moves, WithCache
  <2>6. \/ Comes(t, loc[t].have_lock)
        \/ Calls(t, "tcache_init", "int_free", FALSE)
        \/ Goes(t, "int_free", FALSE)
    BY <2>2, <2>3, <2>4, <2>5
  <2> QED
    BY <1>0, <2>1, <2>6, GoesInv, CallsInv, ComesInv DEF MutexMoves, Holds, Leaves, Backs,
           Running, Outside, Locked, Within, Freeing, Trimming, Below, Caching
<1>2. CASE _int_free(t)
  <2>1. loc[t].pc = "int_free" /\ mutex' = mutex
    BY <1>2 DEF _int_free, At, Private, Inside
  <2>2. \/ \E x : Set(t, Return([loc[t] EXCEPT !.own = x, !.p = NULL]))
        \/ Set(t, Goto(loc[t], "fast_recheck"))
        \/ Set(t, Goto(loc[t], "fast_push"))
        \/ Set(t, Goto(loc[t], "merge"))
    BY <1>2, Zenon DEF _int_free
  <2>3. ASSUME NEW x, Set(t, Return([loc[t] EXCEPT !.own = x, !.p = NULL]))
        PROVE  Comes(t, loc[t].have_lock)
    BY <1>0, <2>1, <2>3 DEF Set, Goto, Enter, Return, Goes, Calls, Comes, Moves
  <2>4. ASSUME Set(t, Goto(loc[t], "fast_recheck"))
        PROVE  Goes(t, "fast_recheck", loc[t].have_lock)
    BY <1>0, <2>1, <2>4 DEF Set, Goto, Enter, Return, Goes, Calls, Comes, Moves
  <2>5. ASSUME Set(t, Goto(loc[t], "fast_push"))
        PROVE  Goes(t, "fast_push", loc[t].have_lock)
    BY <1>0, <2>1, <2>5 DEF Set, Goto, Enter, Return, Goes, Calls, Comes, Moves
  <2>6. ASSUME Set(t, Goto(loc[t], "merge"))
        PROVE  Goes(t, "merge", loc[t].have_lock)
    BY <1>0, <2>1, <2>6 DEF Set, Goto, Enter, Return, Goes, Calls, Comes, Moves
  <2>7. \/ Comes(t, loc[t].have_lock)
        \/ Goes(t, "fast_recheck", loc[t].have_lock)
        \/ Goes(t, "fast_push", loc[t].have_lock)
        \/ Goes(t, "merge", loc[t].have_lock)
    BY <2>2, <2>3, <2>4, <2>5, <2>6
  <2> QED
    BY <1>0, <2>1, <2>7, GoesInv, CallsInv, ComesInv DEF MutexMoves, Holds, Leaves, Backs,
           Running, Outside, Locked, Within, Freeing, Trimming, Below, Caching
<1>3. CASE FastRecheck(t)
  <2>1. loc[t].pc = "fast_recheck" /\ mutex' = mutex
    BY <1>3 DEF FastRecheck, At, Private, Inside
  <2>2. Goes(t, "fast_push", loc[t].have_lock)
    BY <1>0, <1>3 DEF FastRecheck, Set, Goto, Enter, Return, Goes, Calls, Comes, Moves
  <2> QED
    BY <1>0, <2>1, <2>2, GoesInv, CallsInv, ComesInv DEF MutexMoves, Holds, Leaves, Backs,
           Running, Outside, Locked, Within, Freeing, Trimming, Below, Caching
<1>4. CASE FastPush(t)
  <2>1. loc[t].pc = "fast_push" /\ mutex' = mutex
    BY <1>4 DEF FastPush, At, Private, Inside
  <2>2. \/ \E x : Set(t, Return([loc[t] EXCEPT !.own = x, !.p = NULL]))
        \/ loc' = loc
    BY <1>4, Zenon DEF FastPush
  <2>3. ASSUME NEW x, Set(t, Return([loc[t] EXCEPT !.own = x, !.p = NULL]))
        PROVE  Comes(t, loc[t].have_lock)
    BY <1>0, <2>1, <2>3 DEF Set, Goto, Enter, Return, Goes, Calls, Comes, Moves
  <2>4. ASSUME loc' = loc
        PROVE  Goes(t, "fast_push", loc[t].have_lock)
    BY <1>0, <2>1, <2>4 DEF Set, Goto, Enter, Return, Goes, Calls, Comes, Moves
  <2>5. \/ Comes(t, loc[t].have_lock)
        \/ Goes(t, "fast_push", loc[t].have_lock)
    BY <2>2, <2>3, <2>4
  <2> QED
    BY <1>0, <2>1, <2>5, GoesInv, CallsInv, ComesInv DEF MutexMoves, Holds, Leaves, Backs,
           Running, Outside, Locked, Within, Freeing, Trimming, Below, Caching
<1>5. CASE Merge(t)
  <2> DEFINE done == [loc[t] EXCEPT !.own = @ \ {loc[t].p}, !.p = NULL]
  <2>1. loc[t].pc = "merge" /\ (loc[t].have_lock \/ mutex = NULL)
    BY <1>5 DEF Merge, At
  <2>2. \/ Set(t, Return(done)) /\ mutex' = mutex
        \/ /\ \/ Set(t, Enter(done, "consolidate", "free_trim"))
              \/ Set(t, Goto(done, "free_trim"))
           /\ mutex' = t
    BY <1>5, Zenon DEF Merge
  <2>3. /\ Fields \subseteq DOMAIN done /\ done.stack = loc[t].stack
        /\ done.have_lock = loc[t].have_lock
    BY <1>0
  <2> HIDE DEF done
  <2>4. \/ Comes(t, loc[t].have_lock) /\ mutex' = mutex
        \/ /\ \/ Goes(t, "free_trim", loc[t].have_lock)
              \/ Calls(t, "consolidate", "free_trim", loc[t].have_lock)
           /\ mutex' = t
    BY <1>0, <2>2, <2>3, SetReturn, SetEnter, SetGoto
  <2>5. mutex = t <=> Holds(loc[t].pc, loc[t].have_lock)
    BY DEF Control, MutexHeld
  <2> QED
    BY <1>0, <2>1, <2>4, <2>5, GoesInv, CallsInv, ComesInv, ZenonT(30)
       DEF MutexMoves, Holds, Leaves, Backs, Running, Outside, Locked, Within, Freeing,
           Trimming, Below, Caching
<1>6. CASE FreeTrim(t)
  <2>1. loc[t].pc = "free_trim" /\ mutex' = mutex
    BY <1>6 DEF FreeTrim, At, Private, Inside
  <2>2. \/ Calls(t, "systrim", "free_done", loc[t].have_lock)
        \/ Goes(t, "free_done", loc[t].have_lock)
    BY <1>0, <1>6 DEF FreeTrim, Set, Goto, Enter, Return, Goes, Calls, Comes, Moves
  <2> QED
    BY <1>0, <2>1, <2>2, GoesInv, CallsInv, ComesInv DEF MutexMoves, Holds, Leaves, Backs,
           Running, Outside, Locked, Within, Freeing, Trimming, Below, Caching
<1>7. CASE FreeDone(t)
  <2>1. loc[t].pc = "free_done"
    BY <1>7 DEF FreeDone, At
  <2>2. Comes(t, loc[t].have_lock) /\ mutex' = IF loc[t].have_lock THEN mutex ELSE NULL
    BY <1>0, <1>7 DEF FreeDone, Set, Goto, Enter, Return, Goes, Calls, Comes, Moves, Unlock
  <2> QED
    BY <1>0, <2>1, <2>2, GoesInv, CallsInv, ComesInv DEF MutexMoves, Holds, Leaves, Backs,
           Running, Outside, Locked, Within, Freeing, Trimming, Below, Caching
<1>8. CASE systrim(t)
  <2>1. loc[t].pc = "systrim" /\ mutex' = mutex
    BY <1>8 DEF systrim, At, Private, Inside
  <2>2. \/ Set(t, Return(loc[t]))
        \/ \E x : Set(t, Goto([loc[t] EXCEPT !.hi = x], "trim_top"))
    BY <1>8, Zenon DEF systrim
  <2>3. \/ Comes(t, loc[t].have_lock)
        \/ Goes(t, "trim_top", loc[t].have_lock)
    BY <1>0, <2>2 DEF Set, Goto, Enter, Return, Goes, Calls, Comes, Moves
  <2> QED
    BY <1>0, <2>1, <2>3, GoesInv, CallsInv, ComesInv DEF MutexMoves, Holds, Leaves, Backs,
           Running, Outside, Locked, Within, Freeing, Trimming, Below, Caching
<1>9. CASE TrimTop(t)
  <2>1. loc[t].pc = "trim_top" /\ mutex' = mutex
    BY <1>9 DEF TrimTop, At, Private, Inside
  <2>2. Comes(t, loc[t].have_lock)
    BY <1>0, <1>9 DEF TrimTop, Set, Goto, Enter, Return, Goes, Calls, Comes, Moves
  <2> QED
    BY <1>0, <2>1, <2>2, GoesInv, CallsInv, ComesInv DEF MutexMoves, Holds, Leaves, Backs,
           Running, Outside, Locked, Within, Freeing, Trimming, Below, Caching
<1>10. CASE __malloc_trim(t)
  <2>1. loc[t].pc = "trim" /\ mutex = NULL /\ mutex' = t
    BY <1>10 DEF __malloc_trim, At, Lock
  <2>2. Calls(t, "consolidate", "trim_sys", loc[t].have_lock)
    BY <1>0, <1>10 DEF __malloc_trim, Set, Goto, Enter, Return, Goes, Calls, Comes, Moves
  <2> QED
    BY <1>0, <2>1, <2>2, GoesInv, CallsInv, ComesInv DEF MutexMoves, Holds, Leaves, Backs,
           Running, Outside, Locked, Within, Freeing, Trimming, Below, Caching
<1>11. CASE TrimSys(t)
  <2>1. loc[t].pc = "trim_sys" /\ mutex' = mutex
    BY <1>11 DEF TrimSys, At, Private, Inside
  <2>2. Calls(t, "systrim", "trim_done", loc[t].have_lock)
    BY <1>0, <1>11 DEF TrimSys, Set, Goto, Enter, Return, Goes, Calls, Comes, Moves
  <2> QED
    BY <1>0, <2>1, <2>2, GoesInv, CallsInv, ComesInv DEF MutexMoves, Holds, Leaves, Backs,
           Running, Outside, Locked, Within, Freeing, Trimming, Below, Caching
<1>12. CASE TrimDone(t)
  <2>1. loc[t].pc = "trim_done" /\ mutex' = NULL
    BY <1>12 DEF TrimDone, At, Unlock
  <2>2. Comes(t, loc[t].have_lock)
    BY <1>0, <1>12 DEF TrimDone, Set, Goto, Enter, Return, Goes, Calls, Comes, Moves
  <2> QED
    BY <1>0, <2>1, <2>2, GoesInv, CallsInv, ComesInv DEF MutexMoves, Holds, Leaves, Backs,
           Running, Outside, Locked, Within, Freeing, Trimming, Below, Caching
<1>13. CASE tcache_thread_shutdown(t)
  <2>1. loc[t].pc = "exit" /\ mutex' = mutex
    BY <1>13 DEF tcache_thread_shutdown, At, Private, Inside
  <2>2. Goes(t, "drain", loc[t].have_lock)
    BY <1>0, <1>13 DEF tcache_thread_shutdown, Set, Goto, Enter, Return, Goes, Calls,
       Comes, Moves
  <2> QED
    BY <1>0, <2>1, <2>2, GoesInv, CallsInv, ComesInv DEF MutexMoves, Holds, Leaves, Backs,
           Running, Outside, Locked, Within, Freeing, Trimming, Below, Caching
<1>14. CASE Drain(t)
  <2>1. loc[t].pc = "drain" /\ mutex' = mutex
    BY <1>14 DEF Drain, At, Private, Inside
  <2>2. \/ Set(t, Goto([loc[t] EXCEPT !.p = loc[t].oldp, !.oldp = NULL], "free"))
        \/ \E x, y : Set(t, Enter([loc[t] EXCEPT !.p = x, !.own = @ \cup y], "free", "drain"))
    BY <1>14, Zenon DEF Drain
  <2>3. \/ Goes(t, "free", loc[t].have_lock)
        \/ Calls(t, "free", "drain", loc[t].have_lock)
    BY <1>0, <2>2, ZenonT(30) DEF Set, Goto, Enter, Return, Goes, Calls, Comes, Moves
  <2> QED
    BY <1>0, <2>1, <2>3, GoesInv, CallsInv, ComesInv DEF MutexMoves, Holds, Leaves, Backs,
           Running, Outside, Locked, Within, Freeing, Trimming, Below, Caching
<1> QED
  BY <1>1, <1>2, <1>3, <1>4, <1>5, <1>6, <1>7, <1>8, <1>9, <1>10, <1>11, <1>12, <1>13,
     <1>14 DEF Give

-----------------------------------------------------------------------------
(* What the clients do.                                                    *)

(* A call begins: nothing is under way below it.                           *)
LEMMA BeginRight ==
  ASSUME NEW l, Fields \subseteq DOMAIN l, l.stack = <<"answer">>, l.have_lock = FALSE,
         l.pc \in {"malloc", "calloc", "pvalloc", "realloc", "memalign", "trim", "exit", "free"}
  PROVE  FrameRight(l) /\ ~Holds(l.pc, l.have_lock)
<1>1. l.stack \in Seq(Backs) /\ l.stack # <<>> /\ Len(l.stack) = 1 /\ l.stack[1] = "answer"
  BY DEF Backs
<1>2. /\ l.pc \in Running \ Freeing /\ ~Leaves(l.pc, l.have_lock) /\ ~Holds(l.pc, l.have_lock)
      /\ ~Holds("answer", FALSE) /\ "answer" \notin Trimming /\ l.pc \notin {"idle", "answer"}
  BY DEF Leaves, Holds, Running, Outside, Locked, Within, Freeing, Trimming
<1>3. StackRight(l)
  BY <1>1, <1>2 DEF StackRight, Leaves, Holds, Trimming
<1> QED
  BY <1>2, <1>3 DEF FrameRight

LEMMA CallInv ==
  ASSUME Control, NEW t \in Threads, Call(t)
  PROVE  Control'
<1> DEFINE Begin(op, bytes) == [Idle EXCEPT !.pc = op, !.op = op, !.stack = <<"answer">>,
                                            !.bytes = bytes]
           Began(l) == /\ Fields \subseteq DOMAIN l /\ l.stack = <<"answer">>
                       /\ l.have_lock = FALSE
                       /\ l.pc \in {"malloc", "calloc", "pvalloc", "realloc", "memalign",
                                    "trim", "exit", "free"}
<1>1. loc[t].pc = "idle" /\ mutex' = mutex
  BY DEF Call, At
<1>2. \/ \E n : \E op \in {"malloc", "calloc", "pvalloc", "realloc"} : Set(t, Begin(op, n))
      \/ \E n, a : Set(t, [Begin("memalign", n) EXCEPT !.alignment = a])
      \/ Set(t, Begin("trim", 0))
      \/ Set(t, Begin("exit", 0))
      \/ \E p, own : Set(t, [Begin("free", 0) EXCEPT !.p = p, !.own = own])
      \/ \E n, p, need, own : Set(t, [Begin("realloc", n) EXCEPT !.oldp = p, !.need = need,
                                                                 !.own = own])
  BY Zenon DEF Call
<1>3. ASSUME NEW op \in {"malloc", "calloc", "pvalloc", "realloc", "memalign", "trim", "exit",
                         "free"}, NEW n
      PROVE  Began(Begin(op, n)) /\ {"alignment", "own", "need"} \subseteq DOMAIN Begin(op, n)
  BY DEF Idle, Fields
<1>4. PICK l : Began(l) /\ Set(t, l)
  <2> HIDE DEF Begin
  <2>1. CASE \E n : \E op \in {"malloc", "calloc", "pvalloc", "realloc"} : Set(t, Begin(op, n))
    BY <1>3, <2>1
  <2>2. ASSUME NEW n, NEW a, Set(t, [Begin("memalign", n) EXCEPT !.alignment = a])
        PROVE  \E l : Began(l) /\ Set(t, l)
    <3>0. Began(Begin("memalign", n))
      BY <1>3
    <3>1. Began([Begin("memalign", n) EXCEPT !.alignment = a])
      BY <3>0
    <3> QED
      BY <2>2, <3>1
  <2>3. CASE Set(t, Begin("trim", 0)) \/ Set(t, Begin("exit", 0))
    BY <1>3, <2>3
  <2>4. ASSUME NEW p, NEW own, Set(t, [Begin("free", 0) EXCEPT !.p = p, !.own = own])
        PROVE  \E l : Began(l) /\ Set(t, l)
    <3>0. Began(Begin("free", 0))
      BY <1>3
    <3>1. Began([Begin("free", 0) EXCEPT !.p = p, !.own = own])
      BY <3>0
    <3> QED
      BY <2>4, <3>1
  <2>5. ASSUME NEW n, NEW p, NEW need, NEW own,
               Set(t, [Begin("realloc", n) EXCEPT !.oldp = p, !.need = need, !.own = own])
        PROVE  \E l : Began(l) /\ Set(t, l)
    <3>0. Began(Begin("realloc", n))
      BY <1>3
    <3>1. Began([Begin("realloc", n) EXCEPT !.oldp = p, !.need = need, !.own = own])
      BY <3>0
    <3> QED
      BY <2>5, <3>1
  <2> QED
    BY <1>2, <2>1, <2>2, <2>3, <2>4, <2>5
<1>5. loc'[t] = l /\ Moves(t)
  BY <1>4 DEF Set, Moves, Control
<1>6. FrameRight(l) /\ ~Holds(l.pc, l.have_lock)
  BY <1>4, BeginRight
<1>7. ~Holds(loc[t].pc, loc[t].have_lock)
  BY <1>1 DEF Holds, Locked, Within, Freeing, Trimming
<1> QED
  BY <1>1, <1>5, <1>6, <1>7, ThreadMoves DEF MutexMoves

LEMMA IdleRight ==
  FrameRight(Idle) /\ ~Holds(Idle.pc, Idle.have_lock) /\ Fields \subseteq DOMAIN Idle
<1>1. /\ Idle.pc = "idle" /\ Idle.stack = <<>> /\ Idle.have_lock = FALSE
      /\ Fields \subseteq DOMAIN Idle
  BY DEF Idle, Fields
<1>2. <<>> \in Seq(Backs) /\ Len(<<>>) = 0
  OBVIOUS
<1>3. StackRight(Idle)
  BY <1>1, <1>2 DEF StackRight
<1>4. ~Holds("idle", FALSE)
  BY DEF Holds, Locked, Within, Freeing, Trimming
<1> QED
  BY <1>1, <1>3, <1>4 DEF FrameRight

LEMMA AnswerInv ==
  ASSUME Control, NEW t \in Threads, Answer(t)
  PROVE  Control'
<1>1. loc[t].pc = "answer" /\ mutex' = mutex /\ Set(t, Idle)
  BY DEF Answer, At
<1>2. loc'[t] = Idle /\ Moves(t)
  BY <1>1, IdleRight DEF Set, Moves, Control
<1>3. ~Holds(loc[t].pc, loc[t].have_lock)
  BY <1>1 DEF Holds, Locked, Within, Freeing, Trimming
<1> QED
  BY <1>1, <1>2, <1>3, IdleRight, ThreadMoves DEF MutexMoves

LEMMA ControlStep == Control /\ [Next]_vars => Control'
<1> SUFFICES ASSUME Control, [Next]_vars
             PROVE  Control'
  OBVIOUS
<1>1. ASSUME NEW t \in Threads, Call(t) \/ Answer(t)
      PROVE  Control'
  BY <1>1, CallInv, AnswerInv
<1>2. ASSUME NEW t \in Threads, Wrapper(t) \/ Take(t) \/ Give(t)
      PROVE  Control'
  BY <1>2, WrapperInv, TakeInv, GiveInv
<1>3. CASE ForeignSbrk \/ Finished \/ UNCHANGED vars
  <2>1. loc' = loc /\ mutex' = mutex
    BY <1>3 DEF ForeignSbrk, Finished, vars
  <2> QED
    BY <2>1 DEF Control, MutexHeld
<1> QED
  BY <1>1, <1>2, <1>3 DEF Next

LEMMA ControlInit == Init => Control
<1> SUFFICES ASSUME Init
             PROVE  Control
  OBVIOUS
<1>1. loc = [t \in Threads |-> Idle] /\ mutex = NULL
  BY DEF Init
<1> QED
  BY <1>1, IdleRight, ThreadAssumption DEF Control, MutexHeld

(* The control of the calls is well formed at every moment: each frame on  *)
(* a thread's stack returns with the mutex to a label that needs it, and   *)
(* without it to one that does not, however free, malloc, the making of a  *)
(* cache and the growing of the heap are nested.                           *)
THEOREM ControlHolds == Spec => []Control
<1> QED
  BY ControlInit, ControlStep, PTL DEF Spec

(* The mutex of the arena is held by a thread exactly while it is in a     *)
(* critical section: no return path keeps it, none releases one that is    *)
(* not held or that another thread has, and no two threads are within.     *)
THEOREM MutexIsHeld == Spec => []MutexHeld
<1>1. Control => MutexHeld
  BY DEF Control
<1> QED
  BY <1>1, ControlHolds, PTL

-----------------------------------------------------------------------------
(* The marks of the bins.                                                  *)

ArenaFields == DOMAIN malloc_init_state

(* A bin that holds a chunk is marked: the search of _int_malloc, which    *)
(* skips the others, misses none.                                          *)
Marked(m) == \A i \in Bins : m.bins[i] # <<>> => i \in m.binmap

ArenaRight(m) ==
  /\ ArenaFields \subseteq DOMAIN m
  /\ m.bins = [i \in Bins |-> m.bins[i]]
  /\ Marked(m)

LEMMA ArenaFieldNames ==
  ArenaFields = {"hdr", "fd", "fastbinsY", "have_fastchunks", "top", "last_remainder",
                 "unsorted", "bins", "binmap", "system_mem", "max_system_mem", "contiguous",
                 "brk", "sbrk_base", "mmap_threshold", "trim_threshold", "n_mmaps", "mapped",
                 "alien", "high", "aborted", "off_page"}
  BY DEF ArenaFields, malloc_init_state

(* What leaves the bins and their marks alone.                             *)
LEMMA BinsAlone ==
  ASSUME NEW m, ArenaRight(m), NEW n, ArenaFields \subseteq DOMAIN n,
         n.bins = m.bins, n.binmap = m.binmap
  PROVE  ArenaRight(n)
  BY DEF ArenaRight, Marked

(* Tags and feet are written without touching the bins.                    *)
LEMMA HeadersOnly ==
  ASSUME NEW m, ArenaRight(m), NEW p, NEW size
  PROVE  /\ ArenaRight(set_head(m, p, size)) /\ ArenaRight(set_head_size(m, p, size))
         /\ ArenaRight(set_foot(m, p, size)) /\ ArenaRight(Absorbed(m, p))
         /\ ArenaRight(set_inuse_bit_at_offset(m, p, size))
         /\ ArenaRight(clear_inuse_bit_at_offset(m, p, size))
         /\ ArenaRight(Check(m, p)) /\ ArenaRight(CheckEnd(m))
<1>1. /\ ArenaFields \subseteq DOMAIN m
      /\ {"hdr", "bins", "binmap", "aborted", "off_page"} \subseteq DOMAIN m
  BY ArenaFieldNames DEF ArenaRight
<1>2. ArenaRight(set_head(m, p, size))
  BY <1>1, BinsAlone DEF set_head
<1>3. ArenaRight(set_head_size(m, p, size))
  BY <1>1, BinsAlone DEF set_head_size
<1>4. ArenaRight(set_foot(m, p, size))
  BY <1>1, BinsAlone DEF set_foot
<1>5. ArenaRight(Absorbed(m, p))
  BY <1>1, BinsAlone DEF Absorbed
<1>6. ArenaRight(set_inuse_bit_at_offset(m, p, size))
  BY <1>1, BinsAlone DEF set_inuse_bit_at_offset
<1>7. ArenaRight(clear_inuse_bit_at_offset(m, p, size))
  BY <1>1, BinsAlone DEF clear_inuse_bit_at_offset
<1>8. ArenaRight(Check(m, p))
  BY <1>1, BinsAlone DEF Check
<1>9. ArenaRight(CheckEnd(m))
  BY <1>1, BinsAlone DEF CheckEnd
<1> QED
  BY <1>2, <1>3, <1>4, <1>5, <1>6, <1>7, <1>8, <1>9

(* A chunk leaves its bin: the mark may stay, and does.                    *)
LEMMA Unlinked ==
  ASSUME NEW m, ArenaRight(m), NEW p
  PROVE  ArenaRight(unlink_chunk(m, p))
<1> DEFINE n == [m EXCEPT !.unsorted = RemoveFirst(@, p),
                          !.bins = [i \in Bins |-> RemoveFirst(@[i], p)]]
<1>1. ArenaFields \subseteq DOMAIN m /\ {"unsorted", "bins", "binmap"} \subseteq DOMAIN m
  BY ArenaFieldNames DEF ArenaRight
<1>2. /\ ArenaFields \subseteq DOMAIN n /\ n.binmap = m.binmap
      /\ n.bins = [i \in Bins |-> RemoveFirst(m.bins[i], p)]
  BY <1>1
<1> HIDE DEF n
<1>3. RemoveFirst(<<>>, p) = <<>>
  BY DEF RemoveFirst
<1>4. n.bins = [i \in Bins |-> n.bins[i]] /\ Marked(n)
  BY <1>2, <1>3 DEF ArenaRight, Marked
<1>5. ArenaRight(n)
  BY <1>2, <1>4 DEF ArenaRight
<1> QED
  BY <1>5, HeadersOnly DEF unlink_chunk, n

LEMMA FreeHeadInv ==
  ASSUME NEW m, ArenaRight(m), NEW p, NEW size
  PROVE  ArenaRight(FreeHead(m, p, size))
<1>1. ArenaFields \subseteq DOMAIN m /\ {"unsorted", "bins", "binmap"} \subseteq DOMAIN m
  BY ArenaFieldNames DEF ArenaRight
<1>2. ArenaRight([m EXCEPT !.unsorted = <<p>> \o @])
  BY <1>1, BinsAlone
<1> QED
  BY <1>2, HeadersOnly DEF FreeHead

(* A chunk joins a bin, which is marked in the same breath.                *)
LEMMA BinnedInv ==
  ASSUME NEW m, ArenaRight(m), NEW p
  PROVE  ArenaRight(Binned(m, p))
<1> DEFINE size == chunksize(m, p)
           i    == bin_index(size)
           at   == IF in_smallbin_range(size) THEN 1 ELSE LargePlace(m, m.bins[i], size)
           new  == InsertAt(m.bins[i], at, p)
           n    == Binned(m, p)
<1>1. ArenaFields \subseteq DOMAIN m /\ {"unsorted", "bins", "binmap"} \subseteq DOMAIN m
  BY ArenaFieldNames DEF ArenaRight
<1> HIDE DEF i, at
<1>2. /\ ArenaFields \subseteq DOMAIN n /\ n.binmap = m.binmap \cup {i}
      /\ n.bins = [m.bins EXCEPT ![i] = new]
  BY <1>1 DEF Binned, i, at
<1> HIDE DEF n, new
<1>3. /\ n.bins = [j \in Bins |-> n.bins[j]]
      /\ \A j \in Bins : j # i => n.bins[j] = m.bins[j]
  BY <1>2 DEF ArenaRight
<1>4. Marked(n)
  BY <1>2, <1>3 DEF ArenaRight, Marked
<1>5. ArenaRight(n)
  BY <1>2, <1>3, <1>4 DEF ArenaRight
<1> QED
  BY <1>5 DEF n

LEMMA AllottedInv ==
  ASSUME NEW m, ArenaRight(m), NEW victim, NEW nb, NEW advertise
  PROVE  ArenaRight(Allotted(m, victim, nb, advertise))
<1>1. ArenaRight(unlink_chunk(m, victim))
  BY Unlinked
<1>2. ASSUME NEW n, ArenaRight(n), NEW q
      PROVE  ArenaRight([n EXCEPT !.last_remainder = q])
  <2>1. ArenaFields \subseteq DOMAIN n /\ {"last_remainder", "bins", "binmap"} \subseteq DOMAIN n
    BY <1>2, ArenaFieldNames DEF ArenaRight
  <2> QED
    BY <1>2, <2>1, BinsAlone
<1>3. ArenaRight(set_head(unlink_chunk(m, victim), victim, nb))
  BY <1>1, HeadersOnly
<1>4. ArenaRight(set_inuse_bit_at_offset(unlink_chunk(m, victim), victim, chunksize(m, victim)))
  BY <1>1, HeadersOnly
<1> QED
  BY <1>2, <1>3, <1>4, FreeHeadInv, Zenon DEF Allotted

LEMMA TopMoved ==
  ASSUME NEW m, ArenaRight(m), NEW p
  PROVE  ArenaRight([m EXCEPT !.top = p])
<1>1. ArenaFields \subseteq DOMAIN m /\ {"top", "bins", "binmap"} \subseteq DOMAIN m
  BY ArenaFieldNames DEF ArenaRight
<1> QED
  BY <1>1, BinsAlone

LEMMA TakenFromTopInv ==
  ASSUME NEW m, ArenaRight(m), NEW nb
  PROVE  ArenaRight(TakenFromTop(m, nb))
  BY TopMoved, HeadersOnly, Zenon DEF TakenFromTop

(* Two chunks are merged into one: the neighbours leave their bins.        *)
LEMMA ConsolidatedInv ==
  ASSUME NEW m, ArenaRight(m), NEW p
  PROVE  ArenaRight(Consolidated(m, p))
<1> DEFINE next == next_chunk(m, p)
           base == IF prev_inuse(m, p) THEN p ELSE p - m.hdr[p].prev_size
           back == IF base = p THEN m
                   ELSE Absorbed(unlink_chunk(Check(m, chunksize(m, base) # p - base), base), p)
           join == next = m.top \/ ~inuse(m, next)
           size == next - base + IF join THEN chunksize(m, next) ELSE 0
<1>1. ArenaRight(back)
  <2>1. ArenaRight(Check(m, chunksize(m, base) # p - base))
    BY HeadersOnly
  <2>2. ArenaRight(unlink_chunk(Check(m, chunksize(m, base) # p - base), base))
    BY <2>1, Unlinked
  <2> QED
    BY <2>2, HeadersOnly
<1>2. Consolidated(m, p) =
        IF next = m.top
        THEN [set_head(Absorbed(back, next), base, size) EXCEPT !.top = base]
        ELSE FreeHead(IF join THEN Absorbed(unlink_chunk(back, next), next)
                              ELSE clear_inuse_bit_at_offset(back, next, 0), base, size)
  BY DEF Consolidated
<1> HIDE DEF next, base, back, join, size
<1>3. ArenaRight([set_head(Absorbed(back, next), base, size) EXCEPT !.top = base])
  BY <1>1, HeadersOnly, TopMoved
<1>4. /\ ArenaRight(Absorbed(unlink_chunk(back, next), next))
      /\ ArenaRight(clear_inuse_bit_at_offset(back, next, 0))
  BY <1>1, HeadersOnly, Unlinked
<1> QED
  BY <1>2, <1>3, <1>4, FreeHeadInv

(* A set of numbers has a least one.                                       *)
LEMMA Least ==
  ASSUME NEW T, T \subseteq Nat, T # {}
  PROVE  \E m \in T : \A n \in T : m <= n
<1>1. PICK m \in T : \A n \in T : <<n, m>> \notin OpToRel(<, Nat)
  BY NatLessThanWellFounded, WFMin
<1>2. ASSUME NEW n \in T PROVE m <= n
  <2>1. m \in Nat /\ n \in Nat
    OBVIOUS
  <2>2. ~(n < m)
    BY <1>1, <2>1 DEF OpToRel
  <2> QED
    BY <2>1, <2>2
<1> QED
  BY <1>2

(* Induction up to m: what is to be shown of a number is that it is in S.  *)
LEMMA UpTo ==
  ASSUME NEW m \in Nat, NEW S,
         \A n \in 0 .. m : (\A k \in 0 .. n - 1 : k \in S) => n \in S
  PROVE  \A n \in 0 .. m : n \in S
<1> DEFINE others == {n \in 0 .. m : n \notin S}
<1>1. ASSUME others # {} PROVE FALSE
  <2>1. PICK n \in others : \A k \in others : n <= k
    <3>1. others \subseteq Nat
      OBVIOUS
    <3> HIDE DEF others
    <3> QED
      BY <1>1, <3>1, Least
  <2>2. \A k \in 0 .. n - 1 : k \in S
    <3> SUFFICES ASSUME NEW k \in 0 .. n - 1 PROVE k \in S
      OBVIOUS
    <3>1. k \in 0 .. m /\ ~(n <= k)
      BY <2>1
    <3> QED
      BY <2>1, <3>1
  <2> QED
    BY <2>1, <2>2
<1> QED
  BY <1>1

LEMMA FieldsAlone ==
  ASSUME NEW m, ArenaRight(m), NEW x, NEW y
  PROVE  /\ ArenaRight([m EXCEPT !.fastbinsY[x] = y])
         /\ ArenaRight([m EXCEPT !.fd[x] = y])
         /\ ArenaRight([m EXCEPT !.have_fastchunks = x])
         /\ ArenaRight([m EXCEPT !.max_system_mem = x])
         /\ ArenaRight([m EXCEPT !.unsorted = x])
         /\ ArenaRight([m EXCEPT !.hdr[x] = y])
         /\ ArenaRight([m EXCEPT !.mmap_threshold = x, !.trim_threshold = y])
<1>1. ArenaFields \subseteq DOMAIN m 
  BY DEF ArenaRight
<1>2. ArenaRight([m EXCEPT !.fastbinsY[x] = y]) /\ ArenaRight([m EXCEPT !.fd[x] = y])
  BY <1>1, ArenaFieldNames, BinsAlone
<1>3. /\ ArenaRight([m EXCEPT !.have_fastchunks = x])
      /\ ArenaRight([m EXCEPT !.max_system_mem = x])
  BY <1>1, ArenaFieldNames, BinsAlone
<1>4. ArenaRight([m EXCEPT !.unsorted = x]) /\ ArenaRight([m EXCEPT !.hdr[x] = y])
  BY <1>1, ArenaFieldNames, BinsAlone
<1>5. ArenaRight([m EXCEPT !.mmap_threshold = x, !.trim_threshold = y])
  BY <1>1, ArenaFieldNames, BinsAlone
<1> QED
  BY <1>2, <1>3, <1>4, <1>5

LEMMA PoppedInv ==
  ASSUME NEW m, ArenaRight(m), NEW size, NEW p, NEW pp
  PROVE  ArenaRight(Popped(m, size, p, pp))
<1>1. ArenaFields \subseteq DOMAIN m /\ {"fastbinsY", "fd", "bins", "binmap"} \subseteq DOMAIN m
  BY ArenaFieldNames DEF ArenaRight
<1>2. ArenaRight([m EXCEPT !.fastbinsY[size] = pp, !.fd[p] = NULL])
  BY <1>1, BinsAlone
<1> QED
  BY <1>2, HeadersOnly DEF Popped

LEMMA PointedInv ==
  ASSUME NEW m, ArenaRight(m), NEW p
  PROVE  ArenaRight(Pointed(m, p))
  BY FieldsAlone, HeadersOnly, Zenon DEF Pointed

LEMMA MunmapInv ==
  ASSUME NEW m, ArenaRight(m), NEW p
  PROVE  ArenaRight(munmap_chunk(m, p))
<1> DEFINE region == Region(p - m.hdr[p].prev_size, m.hdr[p].prev_size + chunksize(m, p))
           n == [m EXCEPT !.n_mmaps = @ - 1, !.hdr[p] = Nothing, !.mapped = @ \ {region}]
<1>1. /\ ArenaFields \subseteq DOMAIN m
      /\ {"n_mmaps", "hdr", "mapped", "bins", "binmap"} \subseteq DOMAIN m
  BY ArenaFieldNames DEF ArenaRight
<1>2. ArenaRight(n)
  <2> HIDE DEF region
  <2> QED
    BY <1>1, BinsAlone
<1> QED
  BY <1>2, HeadersOnly, Zenon DEF munmap_chunk

LEMMA AdjustedInv ==
  ASSUME NEW m, ArenaRight(m), NEW size
  PROVE  ArenaRight(Adjusted(m, size))
  BY FieldsAlone, Zenon DEF Adjusted

LEMMA MremapInv ==
  ASSUME NEW m, ArenaRight(m), NEW p, NEW nb
  PROVE  ArenaRight(mremap_chunk(m, p, nb).m)
<1>1. /\ ArenaFields \subseteq DOMAIN m
      /\ {"hdr", "mapped", "bins", "binmap"} \subseteq DOMAIN m
  BY ArenaFieldNames DEF ArenaRight
<1>2. ASSUME NEW x, NEW y, NEW q, NEW h
      PROVE  ArenaRight([[m EXCEPT !.mapped = x] EXCEPT !.mapped = y, !.hdr[p] = Nothing,
                                                        !.hdr[q] = h])
  <2> DEFINE n == [m EXCEPT !.mapped = x]
  <2>1. ArenaRight(n) /\ {"hdr", "mapped", "bins", "binmap"} \subseteq DOMAIN n
    BY <1>1, BinsAlone
  <2> HIDE DEF n
  <2>2. ArenaRight([n EXCEPT !.mapped = y, !.hdr[p] = Nothing, !.hdr[q] = h])
    BY <2>1, BinsAlone DEF ArenaRight
  <2> QED
    BY <2>2 DEF n
<1> QED
  BY <1>2, Zenon DEF mremap_chunk

LEMMA SbrkInv ==
  ASSUME NEW m, ArenaRight(m), NEW size, NEW short \in BOOLEAN
  PROVE  ArenaRight(Sbrk(m, size, short).m)
<1>1. /\ ArenaFields \subseteq DOMAIN m
      /\ {"brk", "high", "system_mem", "sbrk_base", "bins", "binmap"} \subseteq DOMAIN m
  BY ArenaFieldNames DEF ArenaRight
<1> DEFINE Raised(n, gap) ==
             [m EXCEPT !.brk = @ + n, !.high = Max({@, m.brk + n}),
                       !.system_mem = @ + n + gap,
                       !.sbrk_base = IF @ = NULL THEN m.brk ELSE @]
<1>2. ASSUME NEW n, NEW gap
      PROVE  ArenaRight(Raised(n, gap))
  BY <1>1, BinsAlone
<1> DEFINE osize == chunksize(m, m.top)
           end   == m.top + osize
           front == m.brk % MALLOC_ALIGNMENT
           want  == ALIGN_UP(m.brk + size + front + osize, PAGE) - m.brk - size
           more  == IF short \/ m.brk + size + want > MMAP_START THEN 0 ELSE want
           n1    == Raised(size + more, IF osize = 0 THEN 0 ELSE m.brk - end)
<1>3. Sbrk(m, size, short) =
        IF m.brk = end THEN [m |-> Raised(size, 0), lo |-> m.top, hi |-> end + size]
        ELSE IF m.contiguous
        THEN [m  |-> Check(n1, osize # 0 /\ m.brk < end),
              lo |-> m.brk + front, hi |-> m.brk + size + more]
        ELSE [m  |-> Check(Raised(size, 0), front # 0),
              lo |-> m.brk, hi |-> m.brk + size]
  BY Zenon DEF Sbrk
<1>4. ArenaRight(Raised(size, 0)) /\ ArenaRight(n1)
  BY <1>2
<1> HIDE DEF Raised, osize, end, front, want, more, n1
<1>5. /\ ArenaRight(Check(n1, osize # 0 /\ m.brk < end))
      /\ ArenaRight(Check(Raised(size, 0), front # 0))
  BY <1>4, HeadersOnly
<1> QED
  BY <1>3, <1>4, <1>5

LEMMA MapInsteadInv ==
  ASSUME NEW m, ArenaRight(m), NEW size
  PROVE  ArenaRight(MapInstead(m, size).m)
<1>1. /\ ArenaFields \subseteq DOMAIN m
      /\ {"mapped", "contiguous", "system_mem", "sbrk_base", "bins", "binmap"} \subseteq DOMAIN m
  BY ArenaFieldNames DEF ArenaRight
<1> DEFINE lo == MMAP(m, size)
           n  == [m EXCEPT !.mapped = @ \cup {Region(lo, size)}, !.contiguous = FALSE,
                           !.system_mem = @ + size,
                           !.sbrk_base = IF @ = NULL THEN lo ELSE @]
<1>2. ArenaRight(n)
  <2> HIDE DEF lo
  <2> QED
    BY <1>1, BinsAlone
<1>3. MapInstead(m, size) = [m |-> n, lo |-> lo, hi |-> lo + size]
  BY DEF MapInstead
<1> HIDE DEF n, lo
<1> QED
  BY <1>2, <1>3

LEMMA TrimmedInv ==
  ASSUME NEW t \in Threads, NEW m, ArenaRight(m), NEW l, NEW newp, NEW newsize,
         Trimmed(t, m, l, newp, newsize)
  PROVE  ArenaRight(av')
<1> DEFINE rest == newsize - l.nb
           n1 == set_inuse_bit_at_offset(set_head_size(m, newp, newsize), newp, newsize)
           n2 == set_inuse_bit_at_offset(
                   set_head(set_head_size(m, newp, l.nb), newp + l.nb, rest), newp + l.nb, rest)
<1>1. av' = n1 \/ av' = n2
  BY Zenon DEF Trimmed
<1>2. ArenaRight(n1) /\ ArenaRight(n2)
  <2>1. ArenaRight(set_head_size(m, newp, newsize)) /\ ArenaRight(set_head_size(m, newp, l.nb))
    BY HeadersOnly
  <2>2. ArenaRight(set_head(set_head_size(m, newp, l.nb), newp + l.nb, rest))
    BY <2>1, HeadersOnly
  <2> QED
    BY <2>1, <2>2, HeadersOnly
<1> QED
  BY <1>1, <1>2

(* The steps of malloc, free, realloc and the like around the heap.        *)
LEMMA WrapperArena ==
  ASSUME ArenaRight(av), NEW t \in Threads, Wrapper(t)
  PROVE  ArenaRight(av')
<1>1. CASE Remap(t)
  <2>1. av' = av \/ av' = mremap_chunk(av, loc[t].oldp, loc[t].nb).m
    BY <1>1, Zenon DEF Remap
  <2> QED
    BY <2>1, MremapInv
<1>2. CASE ReallocCopy(t)
  <2>1. av' = av \/ av' = munmap_chunk(av, loc[t].oldp)
    BY <1>2, Zenon DEF ReallocCopy
  <2> QED
    BY <2>1, MunmapInv
<1>3. CASE _int_realloc(t)
  <2> DEFINE l == loc[t]
             oldp == l.oldp
             oldsize == chunksize(av, oldp)
             next == next_chunk(av, oldp)
             size == oldsize + chunksize(av, next)
             m    == Check(av, \/ Tiny(av, oldp) \/ oldsize >= av.system_mem
                               \/ NextUnfit(av, oldp))
             grown == set_head([set_head_size(Absorbed(m, next), oldp, l.nb) EXCEPT
                                 !.top = oldp + l.nb], oldp + l.nb, size - l.nb)
  <2>1. \/ Trimmed(t, m, l, oldp, oldsize)
        \/ av' = grown
        \/ Trimmed(t, Absorbed(unlink_chunk(m, next), next), l, oldp, size)
        \/ av' = m
    BY <1>3, Zenon DEF _int_realloc
  <2>2. ArenaRight(m)
    BY HeadersOnly
  <2> HIDE DEF m, next, size, oldsize
  <2>3. ArenaRight(grown)
    <3>1. ArenaRight(Absorbed(m, next))
      BY <2>2, HeadersOnly
    <3>2. ArenaRight(set_head_size(Absorbed(m, next), oldp, l.nb))
      BY <3>1, HeadersOnly
    <3>3. ArenaRight([set_head_size(Absorbed(m, next), oldp, l.nb) EXCEPT !.top = oldp + l.nb])
      BY <3>2, TopMoved
    <3> QED
      BY <3>3, HeadersOnly
  <2>4. ArenaRight(Absorbed(unlink_chunk(m, next), next))
    BY <2>2, Unlinked, HeadersOnly
  <2> HIDE DEF grown
  <2> QED
    BY <2>1, <2>2, <2>3, <2>4, TrimmedInv
<1>4. CASE ReallocMoved(t)
  <2>1. \/ av' = av
        \/ \E l, newp, newsize : Trimmed(t, Absorbed(av, loc[t].victim), l, newp, newsize)
    BY <1>4, Zenon DEF ReallocMoved
  <2>2. ArenaRight(Absorbed(av, loc[t].victim))
    BY HeadersOnly
  <2> QED
    BY <2>1, <2>2, TrimmedInv
<1>5. CASE MemalignLead(t)
  <2> DEFINE l == loc[t]
             p == l.victim
             m == p + CHUNK_HDR_SZ
             brk == ALIGN_UP(m, l.alignment) - CHUNK_HDR_SZ
             newp == IF brk - p < MINSIZE THEN brk + l.alignment ELSE brk
             lead == newp - p
             newsize == chunksize(av, p) - lead
             mapped == [av EXCEPT !.hdr[p] = Nothing,
                                  !.hdr[newp] = [av.hdr[p] EXCEPT !.size = newsize,
                                                                  !.prev_size = @ + lead]]
             n1 == set_head(av, newp, newsize)
             n2 == set_inuse_bit_at_offset(n1, newp, newsize)
             n3 == set_head_size(n2, p, lead)
             n4 == Check(n3, newsize < request2size(l.bytes))
  <2>1. av' = av \/ av' = mapped \/ av' = n4
    BY <1>5 DEF MemalignLead
  <2>2. ArenaRight(mapped)
    <3>1. ArenaFields \subseteq DOMAIN av /\ {"hdr", "bins", "binmap"} \subseteq DOMAIN av
      BY ArenaFieldNames DEF ArenaRight
    <3> HIDE DEF p, newp, newsize, lead
    <3> QED
      BY <3>1, BinsAlone
  <2> HIDE DEF mapped, newp, newsize, lead
  <2>3. ArenaRight(n4)
    <3>1. ArenaRight(n1)
      BY HeadersOnly
    <3> HIDE DEF n1
    <3>2. ArenaRight(n2)
      BY <3>1, HeadersOnly
    <3> HIDE DEF n2
    <3>3. ArenaRight(n3)
      BY <3>2, HeadersOnly
    <3> HIDE DEF n3
    <3> QED
      BY <3>3, HeadersOnly
  <2> HIDE DEF n4
  <2> QED
    BY <2>1, <2>2, <2>3
<1>6. CASE MemalignRest(t)
  <2>1. av' = av \/ \E p, q, x, y : av' = set_head_size(set_head(av, p, x), q, y)
    BY <1>6, Zenon DEF MemalignRest
  <2>2. \A p, q, x, y : ArenaRight(set_head_size(set_head(av, p, x), q, y))
    BY HeadersOnly
  <2> QED
    BY <2>1, <2>2
<1>7. CASE Clear(t)
  <2>1. \E wrong : av' = Check(av, wrong)
    BY <1>7, Zenon DEF Clear
  <2> QED
    BY <2>1, HeadersOnly
<1>8. ASSUME ~(\/ Remap(t) \/ ReallocCopy(t) \/ _int_realloc(t) \/ ReallocMoved(t)
               \/ MemalignLead(t) \/ MemalignRest(t) \/ Clear(t))
      PROVE  av' = av
  BY <1>8, Zenon DEF Wrapper, tcache_init, TcacheDone, __libc_malloc, MallocCached, MallocLock,
       MallocDone, __libc_realloc, ReallocSize, ReallocLock, ReallocUnlock, ReallocElsewhere,
       _mid_memalign, _int_memalign, MemalignDone, __libc_pvalloc, __libc_calloc, CallocLock,
       CallocDone, CallocAgain, Private
<1> QED
  BY <1>1, <1>2, <1>3, <1>4, <1>5, <1>6, <1>7, <1>8

(* The whole of a fastbin, chunk after chunk.                              *)
LEMMA ConsolidateBinArena ==
  ASSUME ArenaRight(av), NEW t \in Threads, ConsolidateBin(t)
  PROVE  ArenaRight(av')
<1> DEFINE l == loc[t]
           Merged(s) ==
             IF s.p = NULL THEN s
             ELSE [m |-> Consolidated(Check([s.m EXCEPT !.fd[s.p] = NULL],
                                            chunksize(s.m, s.p) # l.fb), s.p),
                   p |-> s.m.fd[s.p]]
           first == [m |-> [av EXCEPT !.fastbinsY[l.fb] = NULL], p |-> av.fastbinsY[l.fb]]
           N == LIMIT \div MINSIZE
           F(f) == [n \in 0 .. N |-> IF n = 0 THEN first ELSE Merged(f[n - 1])]
           after == CHOOSE f : f = F(f)
<1>1. av' = after[N].m
  BY DEF ConsolidateBin
<1>2. N \in Nat
  BY ChunkAssumption DEF MINSIZE
<1>3. ArenaRight(first.m)
  BY FieldsAlone
<1>4. ASSUME NEW s, ArenaRight(s.m)
      PROVE  ArenaRight(Merged(s).m)
  <2>1. ArenaRight([s.m EXCEPT !.fd[s.p] = NULL])
    BY <1>4, FieldsAlone
  <2>2. ArenaRight(Check([s.m EXCEPT !.fd[s.p] = NULL], chunksize(s.m, s.p) # l.fb))
    BY <2>1, HeadersOnly
  <2>3. ArenaRight(Consolidated(Check([s.m EXCEPT !.fd[s.p] = NULL],
                                      chunksize(s.m, s.p) # l.fb), s.p))
    BY <2>2, ConsolidatedInv
  <2> QED
    BY <1>4, <2>3
<1> HIDE DEF Merged, first, N
<1>5. \E f : f = F(f)
  <2> DEFINE Upto(k, f) == f = [n \in 0 .. k |-> IF n = 0 THEN first ELSE Merged(f[n - 1])]
             S == {k \in 0 .. N : \E f : Upto(k, f)}
  <2>1. ASSUME NEW k \in 0 .. N, \A i \in 0 .. k - 1 : i \in S
        PROVE  k \in S
    <3>1. CASE k = 0
      <4>1. Upto(0, [n \in 0 .. 0 |-> first])
        OBVIOUS
      <4> QED
        BY <1>2, <3>1, <4>1
    <3>2. CASE k # 0
      <4>1. k - 1 \in 0 .. k - 1 /\ k - 1 \in Nat /\ k \in Nat
        BY <1>2, <3>2
      <4>2. PICK f : Upto(k - 1, f)
        BY <2>1, <4>1
      <4> DEFINE g == [n \in 0 .. k |-> IF n = k THEN Merged(f[k - 1]) ELSE f[n]]
      <4>3. \A n \in 0 .. k : n # k => n \in 0 .. k - 1
        BY <4>1
      <4>4. ASSUME NEW n \in 0 .. k
            PROVE  g[n] = IF n = 0 THEN first ELSE Merged(g[n - 1])
        <5>1. CASE n = 0
          <6>1. f[0] = first /\ 0 \in 0 .. k - 1
            BY <4>1, <4>2
          <6> QED
            BY <4>1, <5>1, <6>1, <3>2
        <5>2. CASE n # 0
          <6>1. n - 1 \in 0 .. k /\ n - 1 # k /\ g[n - 1] = f[n - 1]
            BY <4>1, <5>2
          <6>2. CASE n = k
            BY <5>2, <6>1, <6>2
          <6>3. CASE n # k
            <7>1. n \in 0 .. k - 1 /\ g[n] = f[n]
              BY <4>3, <6>3
            <7> QED
              BY <4>2, <5>2, <6>1, <7>1
          <6> QED
            BY <6>2, <6>3
        <5> QED
          BY <5>1, <5>2
      <4>5. g = [n \in 0 .. k |-> g[n]]
        OBVIOUS
      <4> HIDE DEF g
      <4>6. Upto(k, g)
        BY <4>4, <4>5
      <4> QED
        BY <4>6
    <3> QED
      BY <3>1, <3>2
  <2> HIDE DEF S
  <2>2. \A k \in 0 .. N : k \in S
    BY <1>2, <2>1, UpTo
  <2>3. N \in S
    BY <1>2, <2>2
  <2> QED
    BY <2>3 DEF S
<1>6. after = F(after)
  <2> HIDE DEF F
  <2> QED
    BY <1>5
<1> HIDE DEF after
<1>7. \A n \in 0 .. N : after[n] = IF n = 0 THEN first ELSE Merged(after[n - 1])
  BY <1>6
<1> DEFINE Right == {n \in 0 .. N : ArenaRight(after[n].m)}
<1>8. ASSUME NEW n \in 0 .. N, \A k \in 0 .. n - 1 : k \in Right
      PROVE  n \in Right
  <2>1. CASE n = 0
    BY <1>3, <1>7, <2>1
  <2>2. CASE n # 0
    <3>1. n - 1 \in 0 .. n - 1
      BY <1>2, <2>2
    <3>2. ArenaRight(after[n - 1].m)
      BY <1>8, <3>1
    <3>3. after[n] = Merged(after[n - 1])
      BY <1>7, <2>2
    <3> QED
      BY <1>4, <3>2, <3>3
  <2> QED
    BY <2>1, <2>2
<1> HIDE DEF Right
<1>9. N \in Right
  BY <1>2, <1>8, UpTo
<1> QED
  BY <1>1, <1>9 DEF Right

(* The steps of _int_malloc and sysmalloc.                                 *)
LEMMA TakeArena ==
  ASSUME ArenaRight(av), NEW t \in Threads, Take(t)
  PROVE  ArenaRight(av')
<1>0. /\ ArenaFields \subseteq DOMAIN av
      /\ {"unsorted", "bins", "binmap", "hdr", "n_mmaps", "mapped"} \subseteq DOMAIN av
  BY ArenaFieldNames DEF ArenaRight
<1>1. CASE FastTake(t) \/ StashTake(t)
  <2>1. av' = av \/ \E s, p, pp : av' = Popped(av, s, p, pp)
    BY <1>1, Zenon DEF FastTake, StashTake
  <2> QED
    BY <2>1, PoppedInv
<1>2. CASE SmallBin(t)
  <2> DEFINE i == smallbin_index(loc[t].nb)
  <2>1. /\ av.bins[i] # <<>>
        /\ \E x, h : av' = [av EXCEPT !.bins[i] = x, !.hdr = h]
    BY <1>2, Zenon DEF SmallBin
  <2> HIDE DEF i
  <2>2. PICK x, h : av' = [av EXCEPT !.bins[i] = x, !.hdr = h]
    BY <2>1
  <2>3. /\ ArenaFields \subseteq DOMAIN av' /\ av'.binmap = av.binmap
        /\ av'.bins = [av.bins EXCEPT ![i] = x]
    BY <1>0, <2>2
  <2>4. /\ av'.bins = [j \in Bins |-> av'.bins[j]]
        /\ \A j \in Bins : j # i => av'.bins[j] = av.bins[j]
    BY <2>3 DEF ArenaRight
  <2>5. Marked(av')
    BY <2>1, <2>3, <2>4 DEF Marked, ArenaRight
  <2> QED
    BY <2>3, <2>4, <2>5 DEF ArenaRight
<1>3. CASE UnsortedTurn(t)
  <2> DEFINE p == Last(av.unsorted)
             m == Check(av, Unsortable(av, p))
             out == [m EXCEPT !.unsorted = Front(@)]
  <2>1. \/ av' = Allotted(m, p, loc[t].nb, TRUE)
        \/ av' = set_inuse_bit_at_offset(out, p, chunksize(av, p))
        \/ av' = Binned(m, p)
    BY <1>3, Zenon DEF UnsortedTurn
  <2>2. ArenaRight(m)
    BY HeadersOnly
  <2> HIDE DEF m
  <2>3. ArenaRight(out)
    BY <2>2, FieldsAlone
  <2> HIDE DEF out
  <2> QED
    BY <2>1, <2>2, <2>3, HeadersOnly, AllottedInv, BinnedInv
<1>4. CASE TakeFromOwnBin(t)
  <2>1. \E p : av' = Allotted(av, p, loc[t].nb, FALSE)
    BY <1>4, Zenon DEF TakeFromOwnBin
  <2> QED
    BY <2>1, AllottedInv
<1>5. CASE SearchBins(t)
  <2> DEFINE marked == {i \in av.binmap : i > bin_index(loc[t].nb)}
             full   == {i \in marked : av.bins[i] # <<>>}
             wiped  == {i \in marked : \A j \in full : i < j}
             m      == [av EXCEPT !.binmap = @ \ wiped]
  <2>1. av' = m \/ \E p, wrong : av' = Allotted(Check(m, wrong), p, loc[t].nb, TRUE)
    BY <1>5, Zenon DEF SearchBins
  <2>2. ASSUME NEW i \in Bins, av.bins[i] # <<>>
        PROVE  i \notin wiped
    <3>1. i \in Int
      BY DEF Bins
    <3> QED
      BY <2>2, <3>1
  <2> HIDE DEF wiped
  <2>3. ArenaRight(m)
    BY <1>0, <2>2 DEF ArenaRight, Marked
  <2> HIDE DEF m
  <2>4. \A wrong : ArenaRight(Check(m, wrong))
    BY <2>3, HeadersOnly
  <2> QED
    BY <2>1, <2>3, <2>4, AllottedInv
<1>6. CASE use_top(t)
  <2>1. \E wrong : av' = TakenFromTop(Check(av, wrong), loc[t].nb) \/ av' = Check(av, wrong)
    BY <1>6, Zenon DEF use_top
  <2>2. \A wrong : ArenaRight(Check(av, wrong))
    BY HeadersOnly
  <2> QED
    BY <2>1, <2>2, TakenFromTopInv
<1>7. CASE malloc_consolidate(t)
  BY <1>7, FieldsAlone DEF malloc_consolidate
<1>8. CASE SysMap(t)
  <2>1. \E p, r, h : av' = [av EXCEPT !.n_mmaps = @ + 1, !.mapped = @ \cup {r}, !.hdr[p] = h]
    BY <1>8, Zenon DEF SysMap
  <2>2. PICK p, r, h : av' = [av EXCEPT !.n_mmaps = @ + 1, !.mapped = @ \cup {r}, !.hdr[p] = h]
    BY <2>1
  <2> QED
    BY <1>0, <2>2, BinsAlone
<1>9. CASE sysmalloc(t)
  <2> DEFINE m == CheckEnd(Check(av, TopUnfit(av, loc[t].nb)))
  <2>1. \/ \E size : \E short \in BOOLEAN : av' = Sbrk(m, size, short).m
        \/ \E size : av' = MapInstead(m, size).m
        \/ av' = m
    <3>1. \/ \E size, answer : av' = Sbrk(m, size, answer = "short").m
          \/ \E size : av' = MapInstead(m, size).m
          \/ av' = m
      BY <1>9, Zenon DEF sysmalloc
    <3> HIDE DEF m
    <3>2. \A answer : (answer = "short") \in BOOLEAN
      OBVIOUS
    <3> QED
      BY <3>1, <3>2, Zenon
  <2>2. ArenaRight(m)
    BY HeadersOnly
  <2> HIDE DEF m
  <2> QED
    BY <2>1, <2>2, SbrkInv, MapInsteadInv
<1>10. CASE SysTop(t)
  <2> DEFINE fresh == set_head([av EXCEPT !.top = loc[t].lo], loc[t].lo, loc[t].hi - loc[t].lo)
  <2>1. \/ \E p, x : av' = set_head(av, p, x)
        \/ av' = fresh
        \/ \E p, x, q, y, r, z : av' = set_head(set_head(set_head(fresh, p, x), q, y), r, z)
    BY <1>10, Zenon DEF SysTop
  <2>2. ArenaRight(fresh)
    BY TopMoved, HeadersOnly
  <2> HIDE DEF fresh
  <2>3. \A p, x : ArenaRight(set_head(fresh, p, x)) /\ ArenaRight(set_head(av, p, x))
    BY <2>2, HeadersOnly
  <2>4. \A p, x, q, y : ArenaRight(set_head(set_head(fresh, p, x), q, y))
    BY <2>3, HeadersOnly
  <2>5. \A p, x, q, y, r, z : ArenaRight(set_head(set_head(set_head(fresh, p, x), q, y), r, z))
    BY <2>4, HeadersOnly
  <2> QED
    BY <2>1, <2>2, <2>3, <2>5
<1>11. CASE SysDone(t)
  <2>1. \E x : LET m == [av EXCEPT !.max_system_mem = x]
               IN  av' = m \/ av' = TakenFromTop(m, loc[t].nb)
    BY <1>11, Zenon DEF SysDone
  <2>2. \A x : ArenaRight([av EXCEPT !.max_system_mem = x])
    BY FieldsAlone
  <2> QED
    BY <2>1, <2>2, TakenFromTopInv, Zenon
<1>12. CASE ConsolidateBin(t)
  BY <1>12, ConsolidateBinArena
<1>13. CASE _int_malloc(t) \/ Stash(t) \/ NoSmallBin(t) \/ UnsortedEnd(t)
  BY <1>13, Zenon DEF _int_malloc, Stash, NoSmallBin, UnsortedEnd, Private
<1> QED
  BY <1>1, <1>2, <1>3, <1>4, <1>5, <1>6, <1>7, <1>8, <1>9, <1>10, <1>11, <1>12, <1>13 DEF Take

(* The steps of _int_free, malloc_consolidate, systrim and _int_realloc.   *)
LEMMA GiveArena ==
  ASSUME ArenaRight(av), NEW t \in Threads, Give(t)
  PROVE  ArenaRight(av')
<1>1. CASE __libc_free(t)
  <2>1. av' = av \/ \E x, p : av' = munmap_chunk(Adjusted(av, x), p)
    BY <1>1, Zenon DEF __libc_free
  <2>2. \A x : ArenaRight(Adjusted(av, x))
    BY AdjustedInv
  <2> QED
    BY <2>1, <2>2, MunmapInv
<1>2. CASE _int_free(t)
  <2> DEFINE p == loc[t].p
  <2>1. \E wrong, odd :
          LET m == Check(av, wrong)
          IN  \/ av' = m
              \/ av' = Pointed(Check([m EXCEPT !.have_fastchunks = TRUE], odd), p)
    BY <1>2, Zenon DEF _int_free
  <2>2. \A wrong : ArenaRight(Check(av, wrong))
    BY HeadersOnly
  <2>3. \A wrong : ArenaRight([Check(av, wrong) EXCEPT !.have_fastchunks = TRUE])
    BY <2>2, FieldsAlone
  <2>4. \A wrong, odd :
          ArenaRight(Check([Check(av, wrong) EXCEPT !.have_fastchunks = TRUE], odd))
    BY <2>3, HeadersOnly
  <2> QED
    BY <2>1, <2>2, <2>4, PointedInv, Zenon
<1>3. CASE FastRecheck(t)
  <2>1. \E odd : av' = Pointed(Check([av EXCEPT !.have_fastchunks = TRUE], odd), loc[t].p)
    BY <1>3, Zenon DEF FastRecheck
  <2>2. ArenaRight([av EXCEPT !.have_fastchunks = TRUE])
    BY FieldsAlone
  <2>3. \A odd : ArenaRight(Check([av EXCEPT !.have_fastchunks = TRUE], odd))
    BY <2>2, HeadersOnly
  <2> QED
    BY <2>1, <2>3, PointedInv
<1>4. CASE FastPush(t)
  <2>1. \/ \E s, p, odd : av' = Check([av EXCEPT !.fastbinsY[s] = p], odd)
        \/ av' = Pointed(av, loc[t].p)
    BY <1>4, Zenon DEF FastPush
  <2>2. \A s, p : ArenaRight([av EXCEPT !.fastbinsY[s] = p])
    BY FieldsAlone
  <2>3. \A s, p, odd : ArenaRight(Check([av EXCEPT !.fastbinsY[s] = p], odd))
    BY <2>2, HeadersOnly
  <2> QED
    BY <2>1, <2>3, PointedInv
<1>5. CASE Merge(t)
  <2>1. \E wrong : av' = Consolidated(Check(av, wrong), loc[t].p)
    BY <1>5, Zenon DEF Merge
  <2>2. \A wrong : ArenaRight(Check(av, wrong))
    BY HeadersOnly
  <2> QED
    BY <2>1, <2>2, ConsolidatedInv
<1>6. CASE systrim(t)
  <2>1. \/ av' = av
        \/ \E x, y : av' = [av EXCEPT !.brk = @ - x, !.system_mem = @ - x, !.high = y]
    BY <1>6, Zenon DEF systrim
  <2> QED
    <3>1. /\ ArenaFields \subseteq DOMAIN av
          /\ {"brk", "system_mem", "high", "bins", "binmap"} \subseteq DOMAIN av
      BY ArenaFieldNames DEF ArenaRight
    <3> QED
      BY <2>1, <3>1, BinsAlone
<1>7. CASE TrimTop(t)
  <2>1. \E x : av' = set_head(av, av.top, x)
    BY <1>7, Zenon DEF TrimTop
  <2> QED
    BY <2>1, HeadersOnly
<1>8. CASE \/ FreeTrim(t) \/ FreeDone(t) \/ __malloc_trim(t) \/ TrimSys(t) \/ TrimDone(t)
           \/ tcache_thread_shutdown(t) \/ Drain(t)
  BY <1>8, Zenon DEF FreeTrim, FreeDone, __malloc_trim, TrimSys, TrimDone,
       tcache_thread_shutdown, Drain, Private
<1> QED
  BY <1>1, <1>2, <1>3, <1>4, <1>5, <1>6, <1>7, <1>8 DEF Give

LEMMA ArenaStep == ArenaRight(av) /\ [Next]_vars => ArenaRight(av')
<1> SUFFICES ASSUME ArenaRight(av), [Next]_vars
             PROVE  ArenaRight(av')
  OBVIOUS
<1>1. ASSUME NEW t \in Threads, Call(t) \/ Answer(t)
      PROVE  ArenaRight(av')
  <2>1. av' = av
    BY <1>1, Zenon DEF Call, Answer
  <2> QED
    BY <2>1
<1>2. ASSUME NEW t \in Threads, Wrapper(t) \/ Take(t) \/ Give(t)
      PROVE  ArenaRight(av')
  BY <1>2, WrapperArena, TakeArena, GiveArena
<1>3. CASE ForeignSbrk
  <2>1. \E x, y, z : av' = [av EXCEPT !.brk = @ + x, !.high = y, !.alien = z]
    BY <1>3, Zenon DEF ForeignSbrk
  <2>2. ArenaFields \subseteq DOMAIN av
    BY DEF ArenaRight
  <2> QED
    BY <2>1, <2>2, ArenaFieldNames, BinsAlone
<1>4. CASE Finished \/ UNCHANGED vars
  BY <1>4 DEF Finished, vars
<1> QED
  BY <1>1, <1>2, <1>3, <1>4 DEF Next

LEMMA ArenaInit == Init => ArenaRight(av)
  BY DEF Init, ArenaRight, Marked, ArenaFields, malloc_init_state

ArenaHolds == ArenaRight(av)

LEMMA ArenaAlways == Spec => []ArenaHolds
<1>1. Init => ArenaHolds
  BY ArenaInit DEF ArenaHolds
<1>2. ArenaHolds /\ [Next]_vars => ArenaHolds'
  BY ArenaStep DEF ArenaHolds
<1> QED
  BY <1>1, <1>2, PTL DEF Spec

(* Every bin that holds a chunk is marked in binmap at every moment, so    *)
(* that the search of _int_malloc, which skips what is not marked, and     *)
(* wipes marks as it goes, misses no free chunk.                           *)
THEOREM BinsAreMarked == Spec => [](\A i \in Bins : av.bins[i] # <<>> => i \in av.binmap)
<1>1. ArenaHolds => \A i \in Bins : av.bins[i] # <<>> => i \in av.binmap
  BY DEF ArenaHolds, ArenaRight, Marked
<1> QED
  BY <1>1, ArenaAlways, PTL

-----------------------------------------------------------------------------
(* What a thread may do while another has the mutex.                       *)

Guarded(m) == <<m.top, m.last_remainder, m.unsorted, m.bins, m.binmap, m.system_mem,
                m.max_system_mem, m.contiguous, m.brk, m.sbrk_base>>

ThreadStep(t) == Call(t) \/ Wrapper(t) \/ Take(t) \/ Give(t) \/ Answer(t)

Same(m, n) == Guarded(n) = Guarded(m)
Kept(m, n) == Same(m, n) /\ n.hdr = m.hdr

SameBut(m, n, ps) ==
  /\ DOMAIN n.hdr = DOMAIN m.hdr
  /\ \A w \in DOMAIN m.hdr \ ps : n.hdr[w] = m.hdr[w]

(* The chunk that the next step of a thread gives to munmap or mremap, and *)
(* the place to which mremap moves it: none at any other label.            *)
GivenBack(t) ==
  LET l == loc[t]
  IN  CASE l.pc = "free" /\ chunk_is_mmapped(av, l.p) -> {l.p}
        [] l.pc = "realloc_copy" -> {l.oldp}
        [] l.pc = "remap" -> {l.oldp, mremap_chunk(av, l.oldp, l.nb).at}
        [] OTHER -> {}

(* A step leaves what the mutex guards alone, and all headers but that of  *)
(* a chunk that it gives to munmap or mremap.                              *)
LeavesAlone(t) ==
  /\ mutex' = mutex
  /\ Same(av, av')
  /\ SameBut(av, av', GivenBack(t))

(* A step that writes no header at all leaves every header alone.          *)
LEMMA KeptAlone ==
  ASSUME NEW t, Kept(av, av'), mutex' = mutex
  PROVE  LeavesAlone(t)
<1>1. SameBut(av, av', GivenBack(t))
  BY DEF Kept, SameBut
<1> QED
  BY <1>1 DEF LeavesAlone, Kept

LEMMA CheckKept ==
  ASSUME NEW m, ArenaRight(m), NEW wrong
  PROVE  Kept(m, Check(m, wrong)) /\ ArenaRight(Check(m, wrong))
<1>1. ArenaFields \subseteq DOMAIN m
  BY DEF ArenaRight
<1>2. Kept(m, Check(m, wrong))
  BY <1>1, ArenaFieldNames DEF Check, Kept, Same, Guarded
<1> QED
  BY <1>2, HeadersOnly

LEMMA FastKept ==
  ASSUME NEW m, ArenaRight(m), NEW s, NEW p
  PROVE  /\ Kept(m, [m EXCEPT !.fastbinsY[s] = p]) /\ Kept(m, [m EXCEPT !.fd[s] = p])
         /\ Kept(m, [m EXCEPT !.have_fastchunks = s])
<1>1. ArenaFields \subseteq DOMAIN m
  BY DEF ArenaRight
<1>2. Kept(m, [m EXCEPT !.fastbinsY[s] = p])
  BY <1>1, ArenaFieldNames DEF Kept, Same, Guarded
<1>3. Kept(m, [m EXCEPT !.fd[s] = p])
  BY <1>1, ArenaFieldNames DEF Kept, Same, Guarded
<1>4. Kept(m, [m EXCEPT !.have_fastchunks = s])
  BY <1>1, ArenaFieldNames DEF Kept, Same, Guarded
<1> QED
  BY <1>2, <1>3, <1>4

LEMMA AdjustedSame ==
  ASSUME NEW m, ArenaRight(m), NEW size
  PROVE  Kept(m, Adjusted(m, size))
<1>1. ArenaFields \subseteq DOMAIN m
  BY DEF ArenaRight
<1> QED
  BY <1>1, ArenaFieldNames DEF Adjusted, Kept, Same, Guarded

LEMMA PointedKept ==
  ASSUME NEW m, ArenaRight(m), NEW p
  PROVE  Kept(m, Pointed(m, p))
<1> DEFINE head == m.fastbinsY[chunksize(m, p)]
           n    == [m EXCEPT !.fd[p] = head]
<1>1. ArenaRight(n) /\ Kept(m, n)
  BY FieldsAlone, FastKept, Zenon
<1>2. Pointed(m, p) = Check(n, head = p)
  BY DEF Pointed
<1> HIDE DEF n, head
<1>3. Kept(n, Check(n, head = p))
  BY <1>1, CheckKept
<1> QED
  BY <1>1, <1>2, <1>3 DEF Kept, Same

LEMMA MunmapSame ==
  ASSUME NEW m, ArenaRight(m), NEW p
  PROVE  Same(m, munmap_chunk(m, p)) /\ SameBut(m, munmap_chunk(m, p), {p})
<1> DEFINE region == Region(p - m.hdr[p].prev_size, m.hdr[p].prev_size + chunksize(m, p))
           n == [m EXCEPT !.n_mmaps = @ - 1, !.hdr[p] = Nothing, !.mapped = @ \ {region}]
<1>1. ArenaFields \subseteq DOMAIN m
  BY DEF ArenaRight
<1>2. ArenaRight(n) /\ Same(m, n)
  <2> HIDE DEF region
  <2> QED
    BY <1>1, ArenaFieldNames, BinsAlone DEF Same, Guarded
<1>5. SameBut(m, n, {p})
  <2>1. n.hdr = [m.hdr EXCEPT ![p] = Nothing]
    BY <1>1, ArenaFieldNames
  <2> HIDE DEF n
  <2> QED
    BY <2>1 DEF SameBut
<1>3. PICK wrong : munmap_chunk(m, p) = Check(n, wrong)
  BY Zenon DEF munmap_chunk
<1> HIDE DEF n
<1>4. Kept(n, Check(n, wrong))
  BY <1>2, CheckKept
<1> QED
  BY <1>2, <1>3, <1>4, <1>5 DEF Kept, Same, SameBut

LEMMA MremapSame ==
  ASSUME NEW m, ArenaRight(m), NEW p, NEW nb
  PROVE  /\ Same(m, mremap_chunk(m, p, nb).m)
         /\ SameBut(m, mremap_chunk(m, p, nb).m, {p, mremap_chunk(m, p, nb).at})
<1>1. ArenaFields \subseteq DOMAIN m
  BY DEF ArenaRight
<1>2. ASSUME NEW x, NEW y, NEW q, NEW h
      PROVE  LET n == [[m EXCEPT !.mapped = x] EXCEPT !.mapped = y, !.hdr[p] = Nothing,
                                                      !.hdr[q] = h]
             IN  Same(m, n) /\ SameBut(m, n, {p, q})
  <2> DEFINE n == [m EXCEPT !.mapped = x]
             k == [n EXCEPT !.mapped = y, !.hdr[p] = Nothing, !.hdr[q] = h]
  <2>1. ArenaFields \subseteq DOMAIN n /\ Kept(m, n)
    BY <1>1, ArenaFieldNames DEF Kept, Same, Guarded
  <2> HIDE DEF n
  <2>2. Same(n, k)
    BY <2>1, ArenaFieldNames DEF Same, Guarded
  <2>3. k.hdr = [[n.hdr EXCEPT ![p] = Nothing] EXCEPT ![q] = h]
    BY <2>1, ArenaFieldNames
  <2> HIDE DEF k
  <2>4. SameBut(n, k, {p, q})
    BY <2>3 DEF SameBut
  <2>5. Same(m, k) /\ SameBut(m, k, {p, q})
    BY <2>1, <2>2, <2>4 DEF Kept, Same, SameBut
  <2> QED
    BY <2>5 DEF n, k
<1> QED
  BY <1>2, Zenon DEF mremap_chunk

(* The steps of a thread that has not the mutex, around the heap.          *)
LEMMA AloneWrapper ==
  ASSUME ArenaRight(av), NEW t \in Threads, Wrapper(t),
         ~Holds(loc[t].pc, loc[t].have_lock), mutex # NULL
  PROVE  LeavesAlone(t)
<1>1. loc[t].pc \notin Locked \cup Within
  BY DEF Holds
<1>2. CASE Remap(t)
  <2>1. /\ loc[t].pc = "remap" /\ mutex' = mutex
        /\ av' = av \/ av' = mremap_chunk(av, loc[t].oldp, loc[t].nb).m
    BY <1>2, Zenon DEF Remap, At, Inside
  <2> QED
    <3>1. GivenBack(t) = {loc[t].oldp, mremap_chunk(av, loc[t].oldp, loc[t].nb).at}
      BY <2>1 DEF GivenBack
    <3>2. CASE av' = av
      BY <2>1, <3>2, KeptAlone DEF Kept, Same
    <3>3. CASE av' = mremap_chunk(av, loc[t].oldp, loc[t].nb).m
      BY <2>1, <3>1, <3>3, MremapSame DEF LeavesAlone
    <3> QED
      BY <2>1, <3>2, <3>3
<1>3. CASE ReallocCopy(t)
  <2>1. /\ loc[t].pc = "realloc_copy" /\ mutex' = mutex
        /\ av' = av \/ av' = munmap_chunk(av, loc[t].oldp)
    BY <1>3, Zenon DEF ReallocCopy, At, Inside
  <2> QED
    <3>1. GivenBack(t) = {loc[t].oldp}
      BY <2>1 DEF GivenBack
    <3>2. CASE av' = av
      BY <2>1, <3>2, KeptAlone DEF Kept, Same
    <3>3. CASE av' = munmap_chunk(av, loc[t].oldp)
      BY <2>1, <3>1, <3>3, MunmapSame DEF LeavesAlone
    <3> QED
      BY <2>1, <3>2, <3>3
<1>4. CASE Clear(t)
  <2>1. mutex' = mutex /\ \E wrong : av' = Check(av, wrong)
    BY <1>4, Zenon DEF Clear, Inside
  <2> QED
    BY <2>1, CheckKept, KeptAlone
<1>5. CASE \/ _int_realloc(t) \/ ReallocMoved(t) \/ MemalignLead(t) \/ MemalignRest(t)
           \/ TcacheDone(t) \/ MallocDone(t) \/ ReallocUnlock(t) \/ MemalignDone(t)
           \/ CallocDone(t)
  <2>1. loc[t].pc \in {"int_realloc", "realloc_moved", "memalign_lead", "memalign_rest",
                       "tcache_done", "malloc_done", "realloc_unlock", "memalign_done",
                       "calloc_done"}
    BY <1>5 DEF _int_realloc, ReallocMoved, MemalignLead, MemalignRest, TcacheDone, MallocDone,
                ReallocUnlock, MemalignDone, CallocDone, At
  <2> QED
    BY <1>1, <2>1 DEF Locked, Within
<1>6. CASE \/ tcache_init(t) \/ MallocLock(t) \/ ReallocLock(t) \/ _int_memalign(t)
           \/ CallocLock(t) \/ CallocAgain(t)
  BY <1>6, Zenon DEF tcache_init, MallocLock, ReallocLock, _int_memalign, CallocLock,
       CallocAgain, Lock
<1>7. CASE \/ __libc_malloc(t) \/ MallocCached(t) \/ __libc_realloc(t) \/ ReallocSize(t)
           \/ ReallocElsewhere(t) \/ _mid_memalign(t) \/ __libc_pvalloc(t) \/ __libc_calloc(t)
  <2>1. av' = av /\ mutex' = mutex
    BY <1>7, Zenon DEF __libc_malloc, MallocCached, __libc_realloc, ReallocSize,
         ReallocElsewhere, _mid_memalign, __libc_pvalloc, __libc_calloc, Private
  <2> QED
    BY <2>1, KeptAlone DEF Kept, Same
<1> QED
  BY <1>2, <1>3, <1>4, <1>5, <1>6, <1>7 DEF Wrapper

(* No step of _int_malloc is taken without the mutex.                      *)
LEMMA AloneTake ==
  ASSUME NEW t \in Threads, Take(t), ~Holds(loc[t].pc, loc[t].have_lock)
  PROVE  FALSE
<1>1. loc[t].pc \in Within
  BY DEF Take, _int_malloc, FastTake, Stash, StashTake, SmallBin, NoSmallBin, UnsortedTurn,
         UnsortedEnd, TakeFromOwnBin, SearchBins, use_top, malloc_consolidate, ConsolidateBin,
         SysMap, sysmalloc, SysTop, SysDone, At, Within
<1> QED
  BY <1>1 DEF Holds

(* The steps of _int_free before it takes the mutex.                       *)
LEMMA AloneGive ==
  ASSUME ArenaRight(av), NEW t \in Threads, Give(t),
         ~Holds(loc[t].pc, loc[t].have_lock), mutex # NULL
  PROVE  LeavesAlone(t)
<1>1. CASE __libc_free(t)
  <2> DEFINE p == loc[t].p
             n == Adjusted(av, chunksize(av, p))
  <2>1. /\ loc[t].pc = "free" /\ mutex' = mutex
        /\ av' = av \/ (chunk_is_mmapped(av, p) /\ av' = munmap_chunk(n, p))
    BY <1>1, Zenon DEF __libc_free, At, Inside
  <2>2. CASE av' = av
    BY <2>1, <2>2, KeptAlone DEF Kept, Same
  <2>3. CASE chunk_is_mmapped(av, p) /\ av' = munmap_chunk(n, p)
    <3>1. ArenaRight(n) /\ Kept(av, n)
      BY AdjustedInv, AdjustedSame
    <3>2. GivenBack(t) = {p}
      BY <2>1, <2>3 DEF GivenBack
    <3> HIDE DEF n, p
    <3>3. Same(n, av') /\ SameBut(n, av', {p})
      BY <2>3, <3>1, MunmapSame
    <3> QED
      BY <2>1, <3>1, <3>2, <3>3 DEF LeavesAlone, Kept, Same, SameBut
  <2> QED
    BY <2>1, <2>2, <2>3
<1>2. CASE _int_free(t)
  <2>1. PICK wrong, odd :
          LET m == Check(av, wrong)
          IN  \/ av' = m
              \/ av' = Pointed(Check([m EXCEPT !.have_fastchunks = TRUE], odd), loc[t].p)
    BY <1>2, Zenon DEF _int_free
  <2>2. mutex' = mutex
    BY <1>2, Zenon DEF _int_free, Inside
  <2> DEFINE n1 == Check(av, wrong)
             n2 == [n1 EXCEPT !.have_fastchunks = TRUE]
             n3 == Check(n2, odd)
             n4 == Pointed(n3, loc[t].p)
  <2>3. ArenaRight(n1) /\ Kept(av, n1)
    BY CheckKept
  <2>4. av' = n1 \/ av' = n4
    BY <2>1
  <2> HIDE DEF n1
  <2>5. ArenaRight(n2) /\ Kept(n1, n2)
    BY <2>3, FieldsAlone, FastKept, Zenon
  <2> HIDE DEF n2
  <2>6. ArenaRight(n3) /\ Kept(n2, n3)
    BY <2>5, CheckKept
  <2> HIDE DEF n3
  <2>7. Kept(n3, n4)
    BY <2>6, PointedKept
  <2> HIDE DEF n4
  <2>8. Kept(av, av')
    BY <2>3, <2>4, <2>5, <2>6, <2>7 DEF Kept, Same
  <2> QED
    BY <2>2, <2>8, KeptAlone
<1>3. CASE FastPush(t)
  <2>1. /\ mutex' = mutex
        /\ \/ \E s, p, odd : av' = Check([av EXCEPT !.fastbinsY[s] = p], odd)
           \/ av' = Pointed(av, loc[t].p)
    BY <1>3, Zenon DEF FastPush, Inside
  <2>2. ASSUME NEW s, NEW p, NEW odd
        PROVE  Kept(av, Check([av EXCEPT !.fastbinsY[s] = p], odd))
    <3> DEFINE m == [av EXCEPT !.fastbinsY[s] = p]
    <3>1. ArenaRight(m) /\ Kept(av, m)
      BY FieldsAlone, FastKept, Zenon
    <3> HIDE DEF m
    <3>2. Kept(m, Check(m, odd))
      BY <3>1, CheckKept
    <3>3. Kept(av, Check(m, odd))
      BY <3>1, <3>2 DEF Kept, Same
    <3> QED
      BY <3>3 DEF m
  <2>3. Kept(av, Pointed(av, loc[t].p))
    BY PointedKept
  <2>4. Kept(av, av')
    BY <2>1, <2>2, <2>3, Zenon
  <2> QED
    BY <2>1, <2>4, KeptAlone
<1>4. CASE FastRecheck(t) \/ Merge(t) \/ __malloc_trim(t)
  <2>1. loc[t].pc = "merge" /\ loc[t].have_lock
    BY <1>4, Zenon DEF FastRecheck, Merge, __malloc_trim, Lock, At
  <2> QED
    BY <2>1 DEF Holds, Freeing
<1>5. CASE \/ FreeTrim(t) \/ FreeDone(t) \/ systrim(t) \/ TrimTop(t) \/ TrimSys(t) \/ TrimDone(t)
  <2>1. loc[t].pc \in {"free_trim", "free_done", "systrim", "trim_top", "trim_sys", "trim_done"}
    BY <1>5 DEF FreeTrim, FreeDone, systrim, TrimTop, TrimSys, TrimDone, At
  <2> QED
    BY <2>1 DEF Holds, Locked, Within, Trimming
<1>6. CASE tcache_thread_shutdown(t) \/ Drain(t)
  <2>1. av' = av /\ mutex' = mutex
    BY <1>6, Zenon DEF tcache_thread_shutdown, Drain, Private
  <2> QED
    BY <2>1, KeptAlone DEF Kept, Same
<1> QED
  BY <1>1, <1>2, <1>3, <1>4, <1>5, <1>6 DEF Give

LEMMA HolderAloneStep ==
  ASSUME Control, ArenaRight(av), NEW t \in Threads, ThreadStep(t), mutex \notin {t, NULL}
  PROVE  LeavesAlone(t)
<1>1. ~Holds(loc[t].pc, loc[t].have_lock)
  BY DEF Control, MutexHeld
<1>2. CASE Call(t) \/ Answer(t)
  <2>1. av' = av /\ mutex' = mutex
    BY <1>2, Zenon DEF Call, Answer
  <2> QED
    BY <2>1, KeptAlone DEF Kept, Same
<1>3. CASE Wrapper(t) \/ Take(t) \/ Give(t)
  BY <1>1, <1>3, AloneWrapper, AloneTake, AloneGive
<1> QED
  BY <1>2, <1>3 DEF ThreadStep

(* While a thread has the mutex no step of another one takes or releases   *)
(* it, and none changes top, the bins, the unsorted chunks or how much     *)
(* memory the arena has, nor any header but that of the chunk which it     *)
(* gives to munmap or mremap itself: what the holder has read of them      *)
(* stays true.                                                             *)
THEOREM HolderAlone ==
  Spec => [][\A t \in Threads : ThreadStep(t) /\ mutex \notin {t, NULL} => LeavesAlone(t)]_vars
<1>1. Control /\ ArenaHolds /\ [Next]_vars
        => [\A t \in Threads : ThreadStep(t) /\ mutex \notin {t, NULL} => LeavesAlone(t)]_vars
  BY HolderAloneStep DEF ArenaHolds
<1> QED
  BY <1>1, ControlHolds, ArenaAlways, PTL DEF Spec

-----------------------------------------------------------------------------
(* The boundary tags.                                                      *)

prev_size(m, p) == m.hdr[p].prev_size

(* C are the chunks of the arena as their tags tell them: none reaches     *)
(* into another, the chunk after one follows it at once (the last of a     *)
(* region is top or a fencepost, and fenceposts are in use), and what is   *)
(* said to be free before a chunk is there, is a chunk of its own and has  *)
(* no free chunk before it.                                                *)
Apart(m, C) == \A p, q \in C : p < q => next_chunk(m, p) <= q

Followed(m, C) ==
  \A p \in C \ {m.top} : chunksize(m, p) >= MINSIZE =>
    /\ next_chunk(m, p) \in C
    /\ next_chunk(m, p) = m.top \/ next_chunk(m, next_chunk(m, p)) \in C

Fenced(m, C) ==
  \A p \in C : chunksize(m, p) < MINSIZE /\ next_chunk(m, p) \in C => inuse(m, p)

Told(m, C) ==
  \A p \in C : ~prev_inuse(m, p) =>
    LET before == p - prev_size(m, p)
    IN  /\ before \in C \ {m.top} /\ next_chunk(m, before) = p
        /\ chunksize(m, before) >= MINSIZE /\ prev_inuse(m, before)

Tagged(m, C) ==
  /\ C \subseteq Words /\ m.hdr \in [Words -> Header]
  /\ m.top \in C /\ prev_inuse(m, m.top)
  /\ \A p \in C : chunksize(m, p) > 0 /\ next_chunk(m, p) <= LIMIT + 1
  /\ Apart(m, C) /\ Followed(m, C) /\ Fenced(m, C) /\ Told(m, C)

(* The memory of the chunks C.                                             *)
Covered(m, C) == {w \in 0 .. LIMIT : \E p \in C : p <= w /\ w < next_chunk(m, p)}

(* The chunks when what lies between two addresses is one of them.         *)
Joined(C, base, after) == {q \in C : q <= base \/ after <= q}

LEMMA WordsAreInts == Words \subseteq Nat
<1>1. LIMIT \in Nat
  BY ChunkAssumption
<1> QED
  BY <1>1 DEF Words

LEMMA TagTypes ==
  ASSUME NEW m, m.hdr \in [Words -> Header], NEW p \in Words
  PROVE  chunksize(m, p) \in Nat /\ prev_size(m, p) \in Nat /\ next_chunk(m, p) \in Nat
<1>1. m.hdr[p] \in Header /\ p \in Nat
  BY WordsAreInts
<1> QED
  BY <1>1 DEF Header, chunksize, prev_size, next_chunk

(* A run of chunks from base to after becomes one free chunk.              *)
LEMMA FreedTags ==
  ASSUME NEW m, NEW C, Tagged(m, C), NEW n, n.hdr \in [Words -> Header], n.top = m.top,
         NEW base \in C, NEW after \in C, base < after, m.top # base, m.top # after,
         m.top <= base \/ after <= m.top,
         MINSIZE <= after - base, prev_inuse(m, base), inuse(m, after),
         next_chunk(m, after) \in C,
         chunksize(n, base) = after - base, prev_inuse(n, base),
         chunksize(n, after) = chunksize(m, after), ~prev_inuse(n, after),
         prev_size(n, after) = after - base,
         \A q \in Joined(C, base, after) \ {base, after} :
           /\ chunksize(n, q) = chunksize(m, q) /\ prev_size(n, q) = prev_size(m, q)
           /\ prev_inuse(n, q) <=> prev_inuse(m, q)
  PROVE  Tagged(n, Joined(C, base, after))
<1> DEFINE D == Joined(C, base, after)
<1>0. /\ C \subseteq Nat
      /\ \A q \in C : /\ chunksize(m, q) \in Nat /\ prev_size(m, q) \in Nat
                      /\ next_chunk(m, q) \in Nat
  BY WordsAreInts, TagTypes DEF Tagged
<1>1. /\ D \subseteq C /\ base \in D /\ after \in D /\ m.top \in D
      /\ \A q \in D : q <= base \/ after <= q
      /\ \A q \in C : q <= base \/ after <= q => q \in D
  <2>1. m.top \in C /\ base \in Nat /\ after \in Nat
    BY <1>0 DEF Tagged
  <2> QED
    BY <2>1 DEF Joined
<1>2. /\ \A q \in D \ {base} : chunksize(n, q) = chunksize(m, q)
      /\ \A q \in D \ {base, after} : prev_size(n, q) = prev_size(m, q)
      /\ \A q \in D \ {base, after} : prev_inuse(n, q) <=> prev_inuse(m, q)
  OBVIOUS
<1> HIDE DEF D
<1>3. \A q \in D \ {base} : next_chunk(n, q) = next_chunk(m, q)
  BY <1>2 DEF next_chunk
<1>4. next_chunk(n, base) = after
  BY <1>0 DEF next_chunk
<1>5. \A p, q \in C : p < q => next_chunk(m, p) <= q
  BY DEF Tagged, Apart
<1>6. \A q \in C : q < next_chunk(m, q)
  <2>1. \A q \in C : chunksize(m, q) > 0
    BY DEF Tagged
  <2> QED
    BY <1>0, <2>1 DEF next_chunk
<1>7. /\ D \subseteq Words /\ n.top \in D /\ prev_inuse(n, n.top)
      /\ \A q \in D : chunksize(n, q) > 0 /\ next_chunk(n, q) <= LIMIT + 1
  <2>0. after <= LIMIT + 1
    BY WordsAreInts, ChunkAssumption DEF Tagged, Words
  <2>1. \A q \in D : chunksize(n, q) > 0 /\ next_chunk(n, q) <= LIMIT + 1
    BY <1>0, <1>1, <1>2, <1>3, <1>4, <2>0 DEF Tagged
  <2>2. D \subseteq Words /\ n.top \in D
    BY <1>1 DEF Tagged
  <2>3. prev_inuse(n, n.top)
    BY <1>1, <1>2 DEF Tagged
  <2> QED
    BY <2>1, <2>2, <2>3
<1>8. Apart(n, D)
  BY <1>0, <1>1, <1>3, <1>4, <1>5 DEF Apart
<1>9. Followed(n, D)
  <2> SUFFICES ASSUME NEW p \in D \ {n.top}, chunksize(n, p) >= MINSIZE
               PROVE  /\ next_chunk(n, p) \in D
                      /\ next_chunk(n, p) = n.top \/ next_chunk(n, next_chunk(n, p)) \in D
    BY DEF Followed
  <2>1. CASE p # base
    <3>1. /\ next_chunk(m, p) \in C
          /\ next_chunk(m, p) = m.top \/ next_chunk(m, next_chunk(m, p)) \in C
      BY <1>1, <1>2, <2>1 DEF Tagged, Followed
    <3>2. next_chunk(m, p) \in D
      BY <1>0, <1>1, <1>5, <1>6, <2>1, <3>1
    <3>3. CASE next_chunk(m, p) # base /\ next_chunk(m, p) # m.top
      BY <1>0, <1>1, <1>3, <1>5, <1>6, <2>1, <3>1, <3>2, <3>3
    <3> QED
      BY <1>1, <1>3, <1>4, <2>1, <3>2, <3>3
  <2>2. CASE p = base
    <3>1. next_chunk(n, after) = next_chunk(m, after)
      BY <1>0, <1>1, <1>3
    <3>2. next_chunk(m, after) \in D
      BY <1>0, <1>1, <1>6
    <3> QED
      BY <1>1, <1>4, <2>2, <3>1, <3>2
  <2> QED
    BY <2>1, <2>2
<1>10. \A p, q \in C : next_chunk(m, p) = next_chunk(m, q) => p = q
  BY <1>0, <1>5, <1>6
<1>11. Fenced(n, D)
  <2> SUFFICES ASSUME NEW p \in D, chunksize(n, p) < MINSIZE, next_chunk(n, p) \in D
               PROVE  prev_inuse(n, next_chunk(n, p))
    BY DEF Fenced, inuse
  <2>1. p # base
    BY <1>0 DEF MINSIZE
  <2>2. prev_inuse(m, next_chunk(m, p))
    BY <1>1, <1>2, <1>3, <2>1 DEF Tagged, Fenced, inuse
  <2>3. next_chunk(n, p) # after
    BY <1>0, <1>1, <1>2, <1>3, <1>5, <1>6, <2>1
  <2> QED
    BY <1>1, <1>2, <1>3, <2>1, <2>2, <2>3
<1>12. Told(n, D)
  <2> SUFFICES ASSUME NEW p \in D, ~prev_inuse(n, p), NEW before, before = p - prev_size(n, p)
               PROVE  /\ before \in D \ {n.top} /\ next_chunk(n, before) = p
                      /\ chunksize(n, before) >= MINSIZE /\ prev_inuse(n, before)
    BY DEF Told
  <2>1. CASE p = after
    BY <1>0, <1>1, <1>4, <2>1
  <2>2. CASE p # after
    <3>1. p # base /\ ~prev_inuse(m, p) /\ prev_size(n, p) = prev_size(m, p)
      BY <1>1, <1>2, <2>2
    <3>2. /\ before \in C \ {m.top} /\ next_chunk(m, before) = p
          /\ chunksize(m, before) >= MINSIZE /\ prev_inuse(m, before)
      BY <1>1, <3>1 DEF Tagged, Told
    <3>3. before # after
      BY <3>1, <3>2 DEF inuse
    <3>4. before # base
      <4>1. p > base => p >= after
        BY <1>0, <1>1, <3>1
      <4> QED
        BY <1>0, <1>5, <1>6, <2>2, <3>2, <4>1
    <3>5. before \in D
      BY <1>0, <1>1, <1>5, <1>6, <2>2, <3>1, <3>2
    <3> QED
      BY <1>1, <1>2, <1>3, <3>2, <3>3, <3>4, <3>5
  <2> QED
    BY <2>1, <2>2
<1> QED
  BY <1>7, <1>8, <1>9, <1>11, <1>12 DEF Tagged, D

-----------------------------------------------------------------------------
(* What the operators write into the headers.                              *)

HeadAt(h, p, size) ==
  [h EXCEPT ![p] = [@ EXCEPT !.size = size, !.prev_inuse = TRUE, !.mmapped = FALSE]]
FootAt(h, p, size) == [h EXCEPT ![p].prev_size = size]
VoidAt(h, p) == [h EXCEPT ![p] = Nothing]
ClearAt(h, p) == [h EXCEPT ![p].prev_inuse = FALSE]
UsedAt(h, p) == [h EXCEPT ![p].prev_inuse = TRUE, ![p].prev_size = 0]

(* The arena but for its headers: top, and the fields it has.              *)
Writes(m, n, h) == ArenaFields \subseteq DOMAIN n /\ n.top = m.top /\ n.hdr = h

LEMMA UnlinkWrites ==
  ASSUME NEW m, ArenaFields \subseteq DOMAIN m, NEW p
  PROVE  Writes(m, unlink_chunk(m, p), m.hdr)
<1>1. {"hdr", "top", "unsorted", "bins", "aborted"} \subseteq DOMAIN m
  BY ArenaFieldNames
<1> QED
  BY <1>1 DEF unlink_chunk, Check, Writes

LEMMA CheckWrites ==
  ASSUME NEW m, ArenaFields \subseteq DOMAIN m, NEW b
  PROVE  Writes(m, Check(m, b), m.hdr)
<1>1. {"hdr", "top", "aborted"} \subseteq DOMAIN m
  BY ArenaFieldNames
<1> QED
  BY <1>1 DEF Check, Writes

LEMMA HeaderWrites ==
  ASSUME NEW m, ArenaFields \subseteq DOMAIN m, NEW p, NEW size
  PROVE  /\ Writes(m, set_head(m, p, size), HeadAt(m.hdr, p, size))
         /\ Writes(m, set_foot(m, p, size), FootAt(m.hdr, p + size, size))
         /\ Writes(m, Absorbed(m, p), VoidAt(m.hdr, p))
         /\ Writes(m, clear_inuse_bit_at_offset(m, p, size), ClearAt(m.hdr, p + size))
         /\ Writes(m, set_inuse_bit_at_offset(m, p, size), UsedAt(m.hdr, p + size))
<1>1. {"hdr", "top"} \subseteq DOMAIN m
  BY ArenaFieldNames
<1>2. Writes(m, set_head(m, p, size), HeadAt(m.hdr, p, size))
  BY <1>1 DEF set_head, Writes, HeadAt
<1>3. Writes(m, set_foot(m, p, size), FootAt(m.hdr, p + size, size))
  BY <1>1 DEF set_foot, Writes, FootAt
<1>4. Writes(m, Absorbed(m, p), VoidAt(m.hdr, p))
  BY <1>1 DEF Absorbed, Writes, VoidAt
<1>5. Writes(m, clear_inuse_bit_at_offset(m, p, size), ClearAt(m.hdr, p + size))
  BY <1>1 DEF clear_inuse_bit_at_offset, Writes, ClearAt
<1>6. Writes(m, set_inuse_bit_at_offset(m, p, size), UsedAt(m.hdr, p + size))
  BY <1>1 DEF set_inuse_bit_at_offset, Writes, UsedAt
<1> QED
  BY <1>2, <1>3, <1>4, <1>5, <1>6

LEMMA FreeHeadWrites ==
  ASSUME NEW m, ArenaFields \subseteq DOMAIN m, NEW p, NEW size
  PROVE  Writes(m, FreeHead(m, p, size), FootAt(HeadAt(m.hdr, p, size), p + size, size))
<1> DEFINE l == [m EXCEPT !.unsorted = <<p>> \o @]
<1>1. Writes(m, l, m.hdr)
  BY ArenaFieldNames DEF Writes
<1> HIDE DEF l
<1>2. Writes(l, set_head(l, p, size), HeadAt(l.hdr, p, size))
  BY <1>1, HeaderWrites DEF Writes
<1> DEFINE k == set_head(l, p, size)
<1> HIDE DEF k
<1>3. ArenaFields \subseteq DOMAIN k /\ k.top = m.top /\ k.hdr = HeadAt(m.hdr, p, size)
  BY <1>1, <1>2 DEF Writes, k
<1>4. Writes(k, set_foot(k, p, size), FootAt(k.hdr, p + size, size))
  BY <1>3, HeaderWrites
<1>5. FreeHead(m, p, size) = set_foot(k, p, size)
  BY DEF FreeHead, k, l
<1> QED
  BY <1>3, <1>4, <1>5 DEF Writes

(* Header h of the chunk at q is like g.                                   *)
Alike(g, h, q) ==
  /\ h[q].size = g[q].size /\ h[q].prev_size = g[q].prev_size
  /\ h[q].prev_inuse <=> g[q].prev_inuse

LEMMA HeaderFields ==
  ASSUME NEW h \in [Words -> Header], NEW p \in Words, NEW size \in Nat
  PROVE  /\ /\ HeadAt(h, p, size) \in [Words -> Header]
            /\ HeadAt(h, p, size)[p].size = size /\ HeadAt(h, p, size)[p].prev_inuse
            /\ HeadAt(h, p, size)[p].prev_size = h[p].prev_size
            /\ \A q \in Words \ {p} : Alike(h, HeadAt(h, p, size), q)
         /\ /\ FootAt(h, p, size) \in [Words -> Header]
            /\ FootAt(h, p, size)[p].size = h[p].size
            /\ FootAt(h, p, size)[p].prev_inuse <=> h[p].prev_inuse
            /\ FootAt(h, p, size)[p].prev_size = size
            /\ \A q \in Words \ {p} : Alike(h, FootAt(h, p, size), q)
<1>1. h[p] \in Header
  OBVIOUS
<1>2. /\ HeadAt(h, p, size) \in [Words -> Header]
      /\ HeadAt(h, p, size)[p].size = size /\ HeadAt(h, p, size)[p].prev_inuse
      /\ HeadAt(h, p, size)[p].prev_size = h[p].prev_size
      /\ \A q \in Words \ {p} : Alike(h, HeadAt(h, p, size), q)
  BY <1>1 DEF HeadAt, Header, Alike
<1>3. /\ FootAt(h, p, size) \in [Words -> Header]
      /\ FootAt(h, p, size)[p].size = h[p].size
      /\ FootAt(h, p, size)[p].prev_inuse <=> h[p].prev_inuse
      /\ FootAt(h, p, size)[p].prev_size = size
      /\ \A q \in Words \ {p} : Alike(h, FootAt(h, p, size), q)
  BY <1>1 DEF FootAt, Header, Alike
<1> QED
  BY <1>2, <1>3

LEMMA HeaderFlags ==
  ASSUME NEW h \in [Words -> Header], NEW p \in Words
  PROVE  /\ /\ VoidAt(h, p) \in [Words -> Header]
            /\ \A q \in Words \ {p} : Alike(h, VoidAt(h, p), q)
         /\ /\ ClearAt(h, p) \in [Words -> Header]
            /\ ClearAt(h, p)[p].size = h[p].size /\ ~ClearAt(h, p)[p].prev_inuse
            /\ \A q \in Words \ {p} : Alike(h, ClearAt(h, p), q)
         /\ /\ UsedAt(h, p) \in [Words -> Header]
            /\ UsedAt(h, p)[p].size = h[p].size /\ UsedAt(h, p)[p].prev_inuse
            /\ \A q \in Words \ {p} : Alike(h, UsedAt(h, p), q)
<1>1. h[p] \in Header /\ Nothing \in Header
  BY DEF Header, Nothing
<1>2. /\ VoidAt(h, p) \in [Words -> Header]
      /\ \A q \in Words \ {p} : Alike(h, VoidAt(h, p), q)
  BY <1>1 DEF VoidAt, Alike
<1>3. /\ ClearAt(h, p) \in [Words -> Header]
      /\ ClearAt(h, p)[p].size = h[p].size /\ ~ClearAt(h, p)[p].prev_inuse
      /\ \A q \in Words \ {p} : Alike(h, ClearAt(h, p), q)
  BY <1>1 DEF ClearAt, Header, Alike
<1>4. /\ UsedAt(h, p) \in [Words -> Header]
      /\ UsedAt(h, p)[p].size = h[p].size /\ UsedAt(h, p)[p].prev_inuse
      /\ \A q \in Words \ {p} : Alike(h, UsedAt(h, p), q)
  BY <1>1 DEF UsedAt, Header, Alike
<1> QED
  BY <1>2, <1>3, <1>4

Base(m, p) == IF prev_inuse(m, p) THEN p ELSE p - prev_size(m, p)

After(m, p) ==
  LET next == next_chunk(m, p)
  IN  IF next = m.top \/ ~inuse(m, next) THEN next_chunk(m, next) ELSE next

(* What is around a chunk that is about to be freed.                       *)
LEMMA Around ==
  ASSUME NEW m, NEW C, Tagged(m, C), NEW p \in C \ {m.top}, chunksize(m, p) >= MINSIZE,
         inuse(m, p),
         NEW next, next = next_chunk(m, p), NEW base, base = Base(m, p),
         NEW after, after = After(m, p)
  PROVE  /\ next \in C /\ base \in C \ {m.top} /\ prev_inuse(m, base) /\ prev_inuse(m, next)
         /\ base = p \/ (base < p /\ next_chunk(m, base) = p)
         /\ base \in Nat /\ p \in Nat /\ next \in Nat /\ after \in Nat
         /\ p < next /\ next <= after /\ MINSIZE <= after - base
         /\ next = m.top => next < after
         /\ next # m.top =>
              /\ after \in C \ {m.top} /\ inuse(m, after) /\ next_chunk(m, after) \in C
              /\ m.top <= base \/ after <= m.top
              /\ next # after => chunksize(m, next) = prev_size(m, after)
         /\ chunksize(m, base) >= MINSIZE
         /\ base # p => chunksize(m, base) = prev_size(m, p)
<1>0. /\ C \subseteq Nat
      /\ \A q \in C : /\ chunksize(m, q) \in Nat /\ prev_size(m, q) \in Nat
                      /\ next_chunk(m, q) \in Nat
  BY WordsAreInts, TagTypes DEF Tagged
<1>1. \A q, r \in C : q < r => next_chunk(m, q) <= r
  BY DEF Tagged, Apart
<1>2. \A q \in C : q < next_chunk(m, q)
  BY <1>0 DEF Tagged, next_chunk
<1>3. next \in C /\ p < next /\ (next = m.top \/ next_chunk(m, next) \in C)
  BY <1>2 DEF Tagged, Followed
<1>4. prev_inuse(m, next)
  BY DEF inuse
<1>5. /\ base \in C \ {m.top} /\ prev_inuse(m, base) /\ chunksize(m, base) >= MINSIZE
      /\ base = p \/ (base < p /\ next_chunk(m, base) = p)
  <2>1. CASE prev_inuse(m, p)
    <3>1. base = p
      BY <2>1, Zenon DEF Base
    <3>2. prev_inuse(m, base) /\ chunksize(m, base) >= MINSIZE
      BY <2>1, <3>1, Zenon
    <3> QED
      BY <3>1, <3>2
  <2>2. CASE ~prev_inuse(m, p)
    <3>1. base = p - prev_size(m, p)
      BY <2>2 DEF Base
    <3> QED
      BY <1>2, <2>2, <3>1 DEF Tagged, Told
  <2> QED
    BY <2>1, <2>2
<1>6. after \in Nat /\ next <= after
  BY <1>0, <1>2, <1>3 DEF After
<1>12. next = m.top => next < after
  BY <1>2, <1>3, Zenon DEF After
<1>7. MINSIZE <= after - base
  BY <1>0, <1>3, <1>5, <1>6 DEF next_chunk, MINSIZE
<1>8. base # p => chunksize(m, base) = prev_size(m, p)
  <2> SUFFICES ASSUME base # p
               PROVE  chunksize(m, base) = prev_size(m, p)
    OBVIOUS
  <2>1. base = p - prev_size(m, p) /\ base + chunksize(m, base) = p
    BY <1>5 DEF Base, next_chunk
  <2> QED
    BY <1>0, <1>5, <2>1
<1>9. \A r \in C : r <= base \/ r = p \/ next <= r
  BY <1>0, <1>1, <1>5
<1>10. m.top \in C
  BY DEF Tagged
<1>11. ASSUME next # m.top
      PROVE  /\ after \in C \ {m.top} /\ inuse(m, after) /\ next_chunk(m, after) \in C
             /\ m.top <= base \/ after <= m.top
             /\ next # after => chunksize(m, next) = prev_size(m, after)
  <2>1. CASE inuse(m, next)
    <3>1. after = next
      BY <1>11, <2>1 DEF After
    <3>2. m.top <= base \/ after <= m.top
      BY <1>9, <1>10, <3>1
    <3> QED
      BY <1>3, <1>11, <2>1, <3>1, <3>2
  <2>2. CASE ~inuse(m, next)
    <3>1. after = next_chunk(m, next) /\ after \in C /\ next < after
      BY <1>2, <1>3, <1>11, <2>2 DEF After
    <3>2. ~prev_inuse(m, after)
      BY <2>2, <3>1 DEF inuse
    <3>3. after # m.top
      BY <3>2 DEF Tagged
    <3>4. chunksize(m, next) >= MINSIZE
      <4>1. ~(chunksize(m, next) < MINSIZE)
        BY <1>3, <2>2, <3>1 DEF Tagged, Fenced
      <4> QED
        BY <1>0, <1>3, <4>1 DEF MINSIZE
    <3>5. next_chunk(m, after) \in C
      BY <1>3, <1>11, <3>1, <3>3, <3>4 DEF Tagged, Followed
    <3>6. PICK before : /\ before = after - prev_size(m, after) /\ before \in C
                        /\ next_chunk(m, before) = after
      BY <3>1, <3>2 DEF Tagged, Told
    <3>7. before = next
      BY <1>0, <1>1, <1>2, <1>3, <3>1, <3>6
    <3>8. chunksize(m, next) = prev_size(m, after)
      <4>1. next + chunksize(m, next) = after /\ next = after - prev_size(m, after)
        BY <3>1, <3>6, <3>7 DEF next_chunk
      <4> QED
        BY <1>0, <1>3, <3>1, <4>1
    <3>9. inuse(m, after)
      <4> SUFFICES ASSUME ~prev_inuse(m, next_chunk(m, after))
                   PROVE  FALSE
        BY DEF inuse
      <4>1. PICK b : b \in C /\ next_chunk(m, b) = next_chunk(m, after) /\ prev_inuse(m, b)
        BY <3>5 DEF Tagged, Told
      <4>2. b = after
        BY <1>0, <1>1, <1>2, <3>1, <4>1
      <4> QED
        BY <3>2, <4>1, <4>2
    <3>10. m.top <= base \/ after <= m.top
      <4>1. next <= m.top => after <= m.top
        <5>1. \A x, y \in Nat : x <= y => x = y \/ x < y
          OBVIOUS
        <5> QED
          BY <1>0, <1>1, <1>3, <1>10, <1>11, <3>1, <5>1
      <4> QED
        BY <1>9, <1>10, <4>1
    <3> QED
      BY <3>1, <3>3, <3>5, <3>8, <3>9, <3>10
  <2> QED
    BY <2>1, <2>2
<1> QED
  BY <1>0, <1>3, <1>4, <1>5, <1>6, <1>7, <1>8, <1>11, <1>12

LEMMA AlikeTags ==
  ASSUME NEW m, NEW n, NEW q, Alike(m.hdr, n.hdr, q)
  PROVE  /\ chunksize(n, q) = chunksize(m, q) /\ prev_size(n, q) = prev_size(m, q)
         /\ prev_inuse(n, q) <=> prev_inuse(m, q)
  BY DEF Alike, chunksize, prev_size, prev_inuse

LEMMA AlikeAll ==
  ASSUME NEW f, NEW g, NEW h, NEW q
  PROVE  /\ Alike(f, f, q)
         /\ Alike(f, g, q) /\ Alike(g, h, q) => Alike(f, h, q)
  BY DEF Alike

(* The arena once the free chunk before is taken from its bin.             *)
Back(m, p, base) ==
  IF base = p THEN m
  ELSE Absorbed(unlink_chunk(Check(m, chunksize(m, base) # p - base), base), p)

LEMMA BackWrites ==
  ASSUME NEW m, ArenaFields \subseteq DOMAIN m, m.hdr \in [Words -> Header],
         NEW p \in Words, NEW base, NEW back, back = Back(m, p, base)
  PROVE  /\ ArenaFields \subseteq DOMAIN back /\ back.top = m.top
         /\ back.hdr \in [Words -> Header]
         /\ \A q \in Words \ {p} : Alike(m.hdr, back.hdr, q)
<1>1. CASE base = p
  <2>1. back = m
    BY <1>1 DEF Back
  <2> QED
    BY <2>1, AlikeAll
<1>2. CASE base # p
  <2> DEFINE k == Check(m, chunksize(m, base) # p - base)
             l == unlink_chunk(k, base)
  <2>1. Writes(m, k, m.hdr)
    BY CheckWrites
  <2> HIDE DEF k
  <2>2. Writes(k, l, k.hdr)
    BY <2>1, UnlinkWrites DEF Writes
  <2> HIDE DEF l
  <2>3. Writes(l, Absorbed(l, p), VoidAt(l.hdr, p))
    BY <2>2, HeaderWrites DEF Writes
  <2>4. /\ VoidAt(m.hdr, p) \in [Words -> Header]
        /\ \A q \in Words \ {p} : Alike(m.hdr, VoidAt(m.hdr, p), q)
    BY HeaderFlags
  <2>5. Writes(m, Absorbed(l, p), VoidAt(m.hdr, p))
    BY <2>1, <2>2, <2>3 DEF Writes
  <2>6. back = Absorbed(l, p)
    BY <1>2 DEF k, l, Back
  <2> QED
    BY <2>4, <2>5, <2>6 DEF Writes
<1> QED
  BY <1>1, <1>2

(* Freed beside a chunk that is not top.                                   *)
LEMMA FreedWrites ==
  ASSUME NEW m, ArenaFields \subseteq DOMAIN m, NEW C, Tagged(m, C), NEW p \in C \ {m.top},
         chunksize(m, p) >= MINSIZE, inuse(m, p), next_chunk(m, p) # m.top,
         NEW base, base = Base(m, p), NEW after, after = After(m, p),
         NEW n, n = Consolidated(m, p)
  PROVE  /\ n.top = m.top /\ n.hdr \in [Words -> Header]
         /\ chunksize(n, base) = after - base /\ prev_inuse(n, base)
         /\ chunksize(n, after) = chunksize(m, after) /\ ~prev_inuse(n, after)
         /\ prev_size(n, after) = after - base
         /\ \A q \in C \ {p, next_chunk(m, p), base, after} : Alike(m.hdr, n.hdr, q)
<1> DEFINE next == next_chunk(m, p)
           back == Back(m, p, base)
           join == ~inuse(m, next)
           cut  == unlink_chunk(back, next)
           mid  == IF join THEN Absorbed(cut, next) ELSE clear_inuse_bit_at_offset(back, next, 0)
<1>1. /\ next \in C /\ base \in C \ {m.top} /\ prev_inuse(m, base) /\ prev_inuse(m, next)
      /\ base = p \/ (base < p /\ next_chunk(m, base) = p)
      /\ base \in Nat /\ p \in Nat /\ next \in Nat /\ after \in Nat
      /\ p < next /\ next <= after /\ MINSIZE <= after - base /\ after \in C
  BY Around
<1>2. C \subseteq Words /\ m.hdr \in [Words -> Header] /\ \A q \in C : chunksize(m, q) > 0
  BY DEF Tagged
<1>3. /\ join => after = next_chunk(m, next) /\ next < after
      /\ ~join => after = next
  <2>1. (join => after = next_chunk(m, next)) /\ (~join => after = next)
    BY Zenon DEF After
  <2>2. next < next_chunk(m, next)
    BY <1>1, <1>2, TagTypes DEF next_chunk
  <2> QED
    BY <2>1, <2>2
<1>4. n = FreeHead(mid, base, after - base)
  <2> DEFINE size == next - base + IF next = m.top \/ join THEN chunksize(m, next) ELSE 0
  <2>1. n = FreeHead(mid, base, size)
    BY Zenon DEF Consolidated, Base, Back, prev_size
  <2>2. size = after - base
    <3>1. CASE join
      <4>1. size = next - base + chunksize(m, next)
        BY <3>1
      <4>2. after = next + chunksize(m, next) /\ chunksize(m, next) \in Nat
        BY <1>1, <1>2, <1>3, <3>1, TagTypes DEF next_chunk
      <4> QED
        BY <1>1, <4>1, <4>2
    <3>2. CASE ~join
      BY <1>1, <1>3, <3>2
    <3> QED
      BY <3>1, <3>2
  <2> QED
    BY <2>1, <2>2
<1>5. /\ ArenaFields \subseteq DOMAIN back /\ back.top = m.top
      /\ back.hdr \in [Words -> Header]
      /\ \A q \in Words \ {p} : Alike(m.hdr, back.hdr, q)
  <2>1. p \in Words
    BY <1>2
  <2> QED
    BY <1>2, <2>1, BackWrites
<1> HIDE DEF back
<1>6. /\ ArenaFields \subseteq DOMAIN mid /\ mid.top = m.top
      /\ mid.hdr \in [Words -> Header]
      /\ \A q \in Words \ {p, next} : Alike(m.hdr, mid.hdr, q)
      /\ mid.hdr[after].size = m.hdr[after].size /\ ~mid.hdr[after].prev_inuse
  <2>1. CASE join
    <3>1. Writes(back, cut, back.hdr)
      BY <1>5, UnlinkWrites
    <3> HIDE DEF cut
    <3>2. Writes(cut, Absorbed(cut, next), VoidAt(cut.hdr, next))
      BY <3>1, HeaderWrites DEF Writes
    <3>3. /\ VoidAt(back.hdr, next) \in [Words -> Header]
          /\ \A q \in Words \ {next} : Alike(back.hdr, VoidAt(back.hdr, next), q)
      BY <1>1, <1>2, <1>5, HeaderFlags
    <3>4. mid = Absorbed(cut, next)
      BY <2>1
    <3>5. \A q \in Words \ {p, next} : Alike(m.hdr, mid.hdr, q)
      BY <1>5, <3>1, <3>2, <3>3, <3>4, AlikeAll DEF Writes
    <3>6. Alike(m.hdr, mid.hdr, after) /\ ~prev_inuse(m, after)
      BY <1>1, <1>2, <1>3, <2>1, <3>5 DEF inuse
    <3>7. mid.hdr[after].size = m.hdr[after].size /\ ~mid.hdr[after].prev_inuse
      BY <3>6 DEF Alike, prev_inuse
    <3> QED
      BY <1>5, <3>1, <3>2, <3>3, <3>4, <3>5, <3>7 DEF Writes
  <2>2. CASE ~join
    <3>1. mid = clear_inuse_bit_at_offset(back, next, 0) /\ next + 0 = next
      BY <1>1, <2>2
    <3>2. Writes(back, clear_inuse_bit_at_offset(back, next, 0), ClearAt(back.hdr, next + 0))
      BY <1>5, HeaderWrites
    <3>3. /\ ClearAt(back.hdr, next) \in [Words -> Header]
          /\ ClearAt(back.hdr, next)[next].size = back.hdr[next].size
          /\ ~ClearAt(back.hdr, next)[next].prev_inuse
          /\ \A q \in Words \ {next} : Alike(back.hdr, ClearAt(back.hdr, next), q)
      BY <1>1, <1>2, <1>5, HeaderFlags
    <3>4. mid.hdr = ClearAt(back.hdr, next)
      BY <3>1, <3>2, Zenon DEF Writes
    <3>5. \A q \in Words \ {p, next} : Alike(m.hdr, mid.hdr, q)
      BY <1>5, <3>3, <3>4, AlikeAll
    <3>6. Alike(m.hdr, back.hdr, next)
      BY <1>1, <1>2, <1>5
    <3>7. mid.hdr[after].size = m.hdr[after].size /\ ~mid.hdr[after].prev_inuse
      BY <1>3, <2>2, <3>3, <3>4, <3>6 DEF Alike
    <3> QED
      BY <1>5, <3>1, <3>2, <3>3, <3>4, <3>5, <3>7 DEF Writes
  <2> QED
    BY <2>1, <2>2
<1> HIDE DEF mid
<1> DEFINE h == HeadAt(mid.hdr, base, after - base)
           f == FootAt(h, after, after - base)
<1>7. n.top = m.top /\ n.hdr = f
  <2>1. Writes(mid, FreeHead(mid, base, after - base),
               FootAt(HeadAt(mid.hdr, base, after - base), base + (after - base), after - base))
    BY <1>6, FreeHeadWrites
  <2>2. base + (after - base) = after
    BY <1>1
  <2> QED
    BY <1>4, <1>6, <2>1, <2>2, Zenon DEF Writes
<1>8. /\ base \in Words /\ after \in Words /\ after - base \in Nat /\ base # after
  BY <1>1, <1>2 DEF MINSIZE
<1>9. /\ h \in [Words -> Header]
      /\ h[base].size = after - base /\ h[base].prev_inuse
      /\ \A q \in Words \ {base} : Alike(mid.hdr, h, q)
  BY <1>6, <1>8, HeaderFields
<1> HIDE DEF h
<1>10. /\ f \in [Words -> Header]
       /\ f[after].size = h[after].size
       /\ f[after].prev_inuse <=> h[after].prev_inuse
       /\ f[after].prev_size = after - base
       /\ \A q \in Words \ {after} : Alike(h, f, q)
  BY <1>8, <1>9, HeaderFields
<1> HIDE DEF f
<1>11. Alike(h, f, base) /\ Alike(mid.hdr, h, after)
  BY <1>8, <1>9, <1>10
<1>12. /\ f[base].size = after - base /\ f[base].prev_inuse
  BY <1>9, <1>11 DEF Alike
<1>13. f[after].size = m.hdr[after].size /\ ~f[after].prev_inuse
  <2>1. h[after].size = mid.hdr[after].size /\ (h[after].prev_inuse <=> mid.hdr[after].prev_inuse)
    BY <1>11 DEF Alike
  <2> QED
    BY <1>6, <1>10, <2>1, Zenon
<1>14. \A q \in Words \ {p, next, base, after} : Alike(m.hdr, f, q)
  BY <1>6, <1>9, <1>10, AlikeAll
<1> QED
  BY <1>2, <1>7, <1>10, <1>12, <1>13, <1>14 DEF chunksize, prev_size, prev_inuse

LEMMA JoinedCovers ==
  ASSUME NEW m, NEW C, Tagged(m, C), NEW p \in C \ {m.top}, chunksize(m, p) >= MINSIZE,
         inuse(m, p), NEW base, base = Base(m, p), NEW after, after = After(m, p), NEW n,
         chunksize(n, base) = after - base,
         \A q \in Joined(C, base, after) \ {base} : chunksize(n, q) = chunksize(m, q)
  PROVE  Covered(n, Joined(C, base, after)) = Covered(m, C)
<1> DEFINE D == Joined(C, base, after)
           next == next_chunk(m, p)
<1>0. /\ C \subseteq Nat
      /\ \A q \in C : next_chunk(m, q) \in Nat
      /\ \A q, r \in C : q < r => next_chunk(m, q) <= r
  BY WordsAreInts, TagTypes DEF Tagged, Apart
<1>1. /\ next \in C /\ base \in C
      /\ base = p \/ (base < p /\ next_chunk(m, base) = p)
      /\ base \in Nat /\ p \in Nat /\ next \in Nat /\ after \in Nat
      /\ p < next /\ next <= after
  BY Around
<1>2. \A q \in D \ {base} : next_chunk(n, q) = next_chunk(m, q)
  BY DEF next_chunk
<1>3. next_chunk(n, base) = after
  BY <1>1 DEF next_chunk
<1>4. after = next \/ after = next_chunk(m, next)
  BY Zenon DEF After
<1>5. /\ D \subseteq C /\ base \in D
      /\ \A q \in C : q \in D \/ (base < q /\ q < after)
      /\ \A q \in D : q <= base \/ after <= q
  BY <1>0, <1>1 DEF Joined
<1>6. \A w \in Nat : base <= w /\ w < after => \E q \in C : q <= w /\ w < next_chunk(m, q)
  <2> SUFFICES ASSUME NEW w \in Nat, base <= w, w < after
               PROVE  \E q \in C : q <= w /\ w < next_chunk(m, q)
    OBVIOUS
  <2>1. CASE w < p
    BY <1>1, <2>1
  <2>2. CASE p <= w /\ w < next
    BY <2>2
  <2>3. CASE next <= w
    BY <1>1, <1>4, <2>3
  <2> QED
    BY <1>1, <2>1, <2>2, <2>3
<1>7. \A q \in C : q = base \/ (base < q /\ q < after) => base <= q /\ next_chunk(m, q) <= after
  <2>1. after \in C => \A q \in C : q < after => next_chunk(m, q) <= after
    BY <1>0
  <2>2. \A q \in C : q < next => next_chunk(m, q) <= after
    BY <1>0, <1>1
  <2>3. \A q \in C : q < after =>
          q < next \/ q = next \/ after \in C \/ (next < q /\ after = next_chunk(m, next))
    BY <1>0, <1>1, <1>4
  <2>4. \A q \in C : next < q => next_chunk(m, next) <= q
    BY <1>0, <1>1
  <2> QED
    BY <1>0, <1>1, <1>4, <2>1, <2>2, <2>3, <2>4
<1> HIDE DEF D, next
<1>8. LIMIT \in Nat
  BY ChunkAssumption
<1>9. ASSUME NEW w \in 0 .. LIMIT
      PROVE  (\E q \in D : q <= w /\ w < next_chunk(n, q))
               <=> (\E q \in C : q <= w /\ w < next_chunk(m, q))
  <2>0. w \in Nat
    BY <1>8
  <2>1. ASSUME NEW q \in D, q <= w, w < next_chunk(n, q)
        PROVE  \E r \in C : r <= w /\ w < next_chunk(m, r)
    <3>1. CASE q = base
      BY <1>3, <1>6, <2>0, <2>1, <3>1
    <3>2. CASE q # base
      BY <1>2, <1>5, <2>1, <3>2
    <3> QED
      BY <3>1, <3>2
  <2>2. ASSUME NEW q \in C, q <= w, w < next_chunk(m, q)
        PROVE  \E r \in D : r <= w /\ w < next_chunk(n, r)
    <3>1. CASE q \in D /\ q # base
      BY <1>2, <2>2, <3>1
    <3>2. CASE q \notin D \/ q = base
      <4>1. base <= q /\ next_chunk(m, q) <= after
        BY <1>5, <1>7, <3>2
      <4>2. base <= w /\ w < after
        BY <1>0, <1>1, <2>0, <2>2, <4>1
      <4> QED
        BY <1>3, <1>5, <4>2
    <3> QED
      BY <3>1, <3>2
  <2> QED
    BY <2>1, <2>2
<1> QED
  BY <1>9 DEF Covered, D

(* Freed beside top, which takes it in.                                    *)
LEMMA ToppedWrites ==
  ASSUME NEW m, ArenaFields \subseteq DOMAIN m, NEW C, Tagged(m, C), NEW p \in C \ {m.top},
         chunksize(m, p) >= MINSIZE, inuse(m, p), next_chunk(m, p) = m.top,
         NEW base, base = Base(m, p), NEW after, after = After(m, p),
         NEW n, n = Consolidated(m, p)
  PROVE  /\ n.top = base /\ n.hdr \in [Words -> Header]
         /\ chunksize(n, base) = after - base /\ prev_inuse(n, base)
         /\ \A q \in C \ {p, m.top, base} : Alike(m.hdr, n.hdr, q)
<1> DEFINE next == m.top
           back == Back(m, p, base)
           cut  == Absorbed(back, next)
<1>1. /\ next \in C /\ base \in C
      /\ base \in Nat /\ next \in Nat /\ after \in Nat /\ MINSIZE <= after - base
  BY Around
<1>2. C \subseteq Words /\ m.hdr \in [Words -> Header]
  BY DEF Tagged
<1>3. after = next + chunksize(m, next) /\ chunksize(m, next) \in Nat
  <2>1. after = next_chunk(m, next)
    BY Zenon DEF After
  <2> QED
    BY <1>1, <1>2, <2>1, TagTypes DEF next_chunk
<1>4. n = [set_head(cut, base, after - base) EXCEPT !.top = base]
  <2>1. n = [set_head(cut, base, next - base + chunksize(m, next)) EXCEPT !.top = base]
    BY Zenon DEF Consolidated, Base, Back, prev_size
  <2>2. next - base + chunksize(m, next) = after - base
    BY <1>1, <1>3
  <2> QED
    BY <2>1, <2>2
<1>5. /\ ArenaFields \subseteq DOMAIN back
      /\ back.hdr \in [Words -> Header]
      /\ \A q \in Words \ {p} : Alike(m.hdr, back.hdr, q)
  BY <1>2, BackWrites
<1> HIDE DEF back
<1>6. Writes(back, cut, VoidAt(back.hdr, next))
  BY <1>5, HeaderWrites
<1> HIDE DEF cut
<1>7. /\ cut.hdr \in [Words -> Header]
      /\ \A q \in Words \ {p, next} : Alike(m.hdr, cut.hdr, q)
  <2>1. /\ VoidAt(back.hdr, next) \in [Words -> Header]
        /\ \A q \in Words \ {next} : Alike(back.hdr, VoidAt(back.hdr, next), q)
    BY <1>1, <1>2, <1>5, HeaderFlags
  <2> QED
    BY <1>5, <1>6, <2>1, AlikeAll DEF Writes
<1> DEFINE k == set_head(cut, base, after - base)
<1>8. Writes(cut, k, HeadAt(cut.hdr, base, after - base))
  BY <1>6, HeaderWrites DEF Writes
<1> HIDE DEF k
<1>9. n.top = base /\ n.hdr = HeadAt(cut.hdr, base, after - base)
  <2>1. {"top", "hdr"} \subseteq DOMAIN k /\ k.hdr = HeadAt(cut.hdr, base, after - base)
    BY <1>8, ArenaFieldNames DEF Writes
  <2>2. n = [k EXCEPT !.top = base]
    BY <1>4 DEF k
  <2>3. n.top = base /\ n.hdr = k.hdr
    BY <2>1, <2>2
  <2> QED
    BY <2>1, <2>3
<1> DEFINE h == HeadAt(cut.hdr, base, after - base)
<1>10. /\ h \in [Words -> Header]
       /\ h[base].size = after - base /\ h[base].prev_inuse
       /\ \A q \in Words \ {base} : Alike(cut.hdr, h, q)
  <2>1. base \in Words /\ after - base \in Nat
    BY <1>1, <1>2 DEF MINSIZE
  <2> QED
    BY <1>7, <2>1, HeaderFields
<1> HIDE DEF h
<1>11. \A q \in Words \ {p, next, base} : Alike(m.hdr, h, q)
  BY <1>7, <1>10, AlikeAll
<1> QED
  BY <1>2, <1>9, <1>10, <1>11 DEF chunksize, prev_inuse, h

LEMMA ToppedTags ==
  ASSUME NEW m, NEW C, Tagged(m, C), NEW p \in C \ {m.top}, chunksize(m, p) >= MINSIZE,
         inuse(m, p), next_chunk(m, p) = m.top,
         NEW base, base = Base(m, p), NEW after, after = After(m, p),
         NEW n, n.hdr \in [Words -> Header], n.top = base,
         chunksize(n, base) = after - base, prev_inuse(n, base),
         \A q \in Joined(C, base, after) \ {base} :
           /\ chunksize(n, q) = chunksize(m, q) /\ prev_size(n, q) = prev_size(m, q)
           /\ prev_inuse(n, q) <=> prev_inuse(m, q)
  PROVE  Tagged(n, Joined(C, base, after))
<1> DEFINE D == Joined(C, base, after)
           top == m.top
<1>0. /\ C \subseteq Nat
      /\ \A q \in C : /\ chunksize(m, q) \in Nat /\ prev_size(m, q) \in Nat
                      /\ next_chunk(m, q) \in Nat
      /\ \A q, r \in C : q < r => next_chunk(m, q) <= r
      /\ \A q \in C : chunksize(m, q) > 0
      /\ \A q \in C : q < next_chunk(m, q)
  <2>1. /\ C \subseteq Nat /\ \A q \in C : chunksize(m, q) > 0
        /\ \A q \in C : /\ chunksize(m, q) \in Nat /\ prev_size(m, q) \in Nat
                        /\ next_chunk(m, q) \in Nat
        /\ \A q, r \in C : q < r => next_chunk(m, q) <= r
    BY WordsAreInts, TagTypes DEF Tagged, Apart
  <2> QED
    BY <2>1 DEF next_chunk
<1>1. /\ top \in C /\ base \in C /\ base # top
      /\ base = p \/ (base < p /\ next_chunk(m, base) = p)
      /\ base \in Nat /\ p \in Nat /\ top \in Nat /\ after \in Nat
      /\ p < top /\ top <= after /\ MINSIZE <= after - base
  BY Around
<1>2. after = next_chunk(m, top) /\ top < after
  <2>1. after = next_chunk(m, top)
    BY Zenon DEF After
  <2> QED
    BY <1>0, <1>1, <2>1
<1>3. /\ D \subseteq C /\ base \in D
      /\ \A q \in C : q <= base \/ after <= q <=> q \in D
  BY <1>1 DEF Joined
<1>4. /\ \A q \in D \ {base} : chunksize(n, q) = chunksize(m, q)
      /\ \A q \in D \ {base} : prev_size(n, q) = prev_size(m, q)
      /\ \A q \in D \ {base} : prev_inuse(n, q) <=> prev_inuse(m, q)
  OBVIOUS
<1> HIDE DEF D
<1>5. \A q \in D \ {base} : next_chunk(n, q) = next_chunk(m, q)
  BY <1>4 DEF next_chunk
<1>6. next_chunk(n, base) = after
  BY <1>1 DEF next_chunk
<1>7. \A q \in D \ {base} : next_chunk(m, q) \in C => next_chunk(m, q) \in D
  BY <1>0, <1>1, <1>2, <1>3
<1>8. \A q \in C : next_chunk(m, q) \in D \ {base} /\ q # top => q \in D \ {base}
  BY <1>0, <1>1, <1>2, <1>3
<1>9. top \notin D
  BY <1>1, <1>2, <1>3
<1>10. /\ D \subseteq Words /\ n.top \in D /\ prev_inuse(n, n.top)
       /\ \A q \in D : chunksize(n, q) > 0 /\ next_chunk(n, q) <= LIMIT + 1
  <2>0. after <= LIMIT + 1
    BY <1>1, <1>2 DEF Tagged
  <2>1. \A q \in D : chunksize(n, q) > 0 /\ next_chunk(n, q) <= LIMIT + 1
    <3>1. \A q \in D \ {base} : chunksize(n, q) > 0 /\ next_chunk(n, q) <= LIMIT + 1
      BY <1>3, <1>4, <1>5 DEF Tagged
    <3>2. chunksize(n, base) > 0 /\ next_chunk(n, base) <= LIMIT + 1
      BY <1>1, <1>6, <2>0 DEF MINSIZE
    <3> QED
      BY <3>1, <3>2
  <2> QED
    BY <1>3, <2>1 DEF Tagged
<1>11. Apart(n, D)
  <2> SUFFICES ASSUME NEW q \in D, NEW r \in D, q < r
               PROVE  next_chunk(n, q) <= r
    BY DEF Apart
  <2>1. CASE q = base
    <3>1. r # base
      BY <1>1, <2>1
    <3>2. base < r /\ r \in C /\ (r <= base \/ after <= r)
      BY <1>3, <2>1
    <3>3. after <= r
      BY <1>0, <1>1, <3>1, <3>2
    <3> QED
      BY <1>6, <2>1, <3>3
  <2>2. CASE q # base
    BY <1>0, <1>3, <1>5, <2>2
  <2> QED
    BY <2>1, <2>2
<1>12. Followed(n, D)
  <2> SUFFICES ASSUME NEW q \in D \ {base}, chunksize(n, q) >= MINSIZE
               PROVE  /\ next_chunk(n, q) \in D
                      /\ next_chunk(n, q) = base \/ next_chunk(n, next_chunk(n, q)) \in D
    BY DEF Followed
  <2>1. /\ next_chunk(m, q) \in C
        /\ next_chunk(m, q) = top \/ next_chunk(m, next_chunk(m, q)) \in C
    BY <1>3, <1>4, <1>9 DEF Tagged, Followed
  <2>2. next_chunk(m, q) \in D
    BY <1>7, <2>1
  <2> QED
    BY <1>5, <1>7, <1>9, <2>1, <2>2
<1>13. Fenced(n, D)
  <2> SUFFICES ASSUME NEW q \in D, chunksize(n, q) < MINSIZE, next_chunk(n, q) \in D
               PROVE  prev_inuse(n, next_chunk(n, q))
    BY DEF Fenced, inuse
  <2>1. q # base
    BY <1>1 DEF MINSIZE
  <2>2. prev_inuse(m, next_chunk(m, q))
    BY <1>3, <1>4, <1>5, <2>1 DEF Tagged, Fenced, inuse
  <2> QED
    BY <1>4, <1>5, <2>1, <2>2
<1>14. Told(n, D)
  <2> SUFFICES ASSUME NEW q \in D, ~prev_inuse(n, q), NEW before, before = q - prev_size(n, q)
               PROVE  /\ before \in D \ {base} /\ next_chunk(n, before) = q
                      /\ chunksize(n, before) >= MINSIZE /\ prev_inuse(n, before)
    BY DEF Told
  <2>1. q # base
    OBVIOUS
  <2>2. /\ before \in C \ {top} /\ next_chunk(m, before) = q
        /\ chunksize(m, before) >= MINSIZE /\ prev_inuse(m, before)
    BY <1>3, <1>4, <2>1 DEF Tagged, Told
  <2>3. before \in D \ {base}
    BY <1>8, <2>1, <2>2
  <2> QED
    BY <1>4, <1>5, <2>2, <2>3
<1> QED
  BY <1>10, <1>11, <1>12, <1>13, <1>14 DEF Tagged, D

(* A chunk that is freed becomes one with the free chunks on both its      *)
(* sides, or with top: the tags are right again, of one chunk from the     *)
(* first to the end of the last, which all tags tell to be free unless it  *)
(* is top; they cover the same memory, and the checks of the sizes that    *)
(* the code makes on the way ("corrupted size vs. prev_size") pass.        *)
THEOREM FreeingMerges ==
  ASSUME NEW m, ArenaFields \subseteq DOMAIN m, NEW C, Tagged(m, C), NEW p \in C \ {m.top},
         chunksize(m, p) >= MINSIZE, inuse(m, p),
         NEW base, base = Base(m, p), NEW after, after = After(m, p),
         NEW D, D = Joined(C, base, after), NEW n, n = Consolidated(m, p)
  PROVE  /\ Tagged(n, D) /\ Covered(n, D) = Covered(m, C)
         /\ base \in D /\ next_chunk(n, base) = after
         /\ n.top = base \/ (n.top = m.top /\ ~inuse(n, base))
         /\ base # p => chunksize(m, base) = p - base /\ chunksize(m, base) = prev_size(m, p)
         /\ next_chunk(m, p) \notin {m.top, after} =>
              chunksize(m, next_chunk(m, p)) = prev_size(m, after)
<1> DEFINE next == next_chunk(m, p)
<1>1. /\ next \in C /\ base \in C \ {m.top} /\ prev_inuse(m, base)
      /\ base = p \/ (base < p /\ next_chunk(m, base) = p)
      /\ base \in Nat /\ p \in Nat /\ next \in Nat /\ after \in Nat
      /\ p < next /\ next <= after /\ MINSIZE <= after - base
      /\ next = m.top => next < after
      /\ next # m.top =>
           /\ after \in C \ {m.top} /\ inuse(m, after) /\ next_chunk(m, after) \in C
           /\ m.top <= base \/ after <= m.top
           /\ next # after => chunksize(m, next) = prev_size(m, after)
      /\ base # p => chunksize(m, base) = prev_size(m, p)
  BY Around
<1>2. base < after /\ base # after
  BY <1>1 DEF MINSIZE
<1>3. \A q \in D \ {base, after} : q \in C \ {p, next, base, after}
  BY <1>1, <1>2 DEF Joined
<1>4. base \in D
  BY <1>1 DEF Joined
<1>5. base # p => chunksize(m, base) = p - base
  <2>1. chunksize(m, base) \in Nat
    BY <1>1, TagTypes DEF Tagged
  <2> QED
    BY <1>1, <2>1 DEF next_chunk
<1>6. CASE next # m.top
  <2>1. /\ n.top = m.top /\ n.hdr \in [Words -> Header]
        /\ chunksize(n, base) = after - base /\ prev_inuse(n, base)
        /\ chunksize(n, after) = chunksize(m, after) /\ ~prev_inuse(n, after)
        /\ prev_size(n, after) = after - base
        /\ \A q \in C \ {p, next, base, after} : Alike(m.hdr, n.hdr, q)
    BY <1>6, FreedWrites
  <2>2. \A q \in D \ {base, after} :
          /\ chunksize(n, q) = chunksize(m, q) /\ prev_size(n, q) = prev_size(m, q)
          /\ prev_inuse(n, q) <=> prev_inuse(m, q)
    BY <1>3, <2>1, AlikeTags
  <2>3. Tagged(n, D)
    BY <1>1, <1>2, <1>6, <2>1, <2>2, FreedTags
  <2>4. Covered(n, D) = Covered(m, C)
    BY <2>1, <2>2, JoinedCovers
  <2>5. next_chunk(n, base) = after
    BY <1>1, <2>1 DEF next_chunk
  <2> QED
    BY <1>1, <1>4, <1>6, <1>5, <2>1, <2>3, <2>4, <2>5 DEF inuse
<1>7. CASE next = m.top
  <2>1. /\ n.top = base /\ n.hdr \in [Words -> Header]
        /\ chunksize(n, base) = after - base /\ prev_inuse(n, base)
        /\ \A q \in C \ {p, m.top, base} : Alike(m.hdr, n.hdr, q)
    BY <1>7, ToppedWrites
  <2>2. \A q \in D \ {base} :
          /\ chunksize(n, q) = chunksize(m, q) /\ prev_size(n, q) = prev_size(m, q)
          /\ prev_inuse(n, q) <=> prev_inuse(m, q)
    <3>1. \A q \in D \ {base} : q \in C \ {p, m.top, base}
      <4>1. m.top < after /\ base < m.top
        BY <1>1, <1>7
      <4>2. \A q \in D : q \in C /\ (q <= base \/ after <= q)
        BY DEF Joined
      <4> QED
        <5>1. base <= p /\ p < m.top /\ m.top \in Nat
          BY <1>1, <1>7
        <5>2. ASSUME NEW q \in D, q # base
              PROVE  q # p /\ q # m.top
          <6>1. q <= base \/ after <= q
            BY <4>2
          <6> QED
            BY <1>1, <4>1, <5>1, <5>2, <6>1
        <5> QED
          BY <4>2, <5>2
    <3> QED
      BY <2>1, <3>1, AlikeTags
  <2>3. Tagged(n, D)
    BY <1>7, <2>1, <2>2, ToppedTags
  <2>4. Covered(n, D) = Covered(m, C)
    BY <2>1, <2>2, JoinedCovers
  <2>5. next_chunk(n, base) = after
    BY <1>1, <2>1 DEF next_chunk
  <2> QED
    BY <1>1, <1>4, <1>7, <1>5, <2>1, <2>3, <2>4, <2>5
<1> QED
  BY <1>6, <1>7

-----------------------------------------------------------------------------
(* A free chunk that is handed out.                                        *)

LEMMA EvenWords ==
  ASSUME NEW p \in Words, NEW nb \in Nat, nb % MALLOC_ALIGNMENT = 0, p + nb <= LIMIT
  PROVE  p + nb \in Words
<1>1. LIMIT \in Nat
  BY ChunkAssumption
<1> QED
  BY <1>1 DEF Words, MALLOC_ALIGNMENT

(* What is around a free chunk.                                            *)
LEMMA AroundFree ==
  ASSUME NEW m, NEW C, Tagged(m, C), NEW victim \in C \ {m.top},
         chunksize(m, victim) >= MINSIZE, ~inuse(m, victim),
         NEW after, after = next_chunk(m, victim)
  PROVE  /\ after \in C \ {m.top} /\ next_chunk(m, after) \in C
         /\ after = victim + chunksize(m, victim) /\ victim \in Nat /\ after \in Nat
         /\ prev_inuse(m, victim) /\ victim = after - prev_size(m, after) /\ ~prev_inuse(m, after)
<1>0. /\ C \subseteq Nat
      /\ \A q \in C : /\ chunksize(m, q) \in Nat /\ prev_size(m, q) \in Nat
                      /\ next_chunk(m, q) \in Nat
      /\ \A q, r \in C : q < r => next_chunk(m, q) <= r
      /\ \A q \in C : chunksize(m, q) > 0
  BY WordsAreInts, TagTypes DEF Tagged, Apart
<1>1. \A q \in C : q < next_chunk(m, q)
  BY <1>0 DEF next_chunk
<1>2. ~prev_inuse(m, after)
  BY DEF inuse
<1>3. after # m.top
  BY <1>2 DEF Tagged
<1>4. after \in C /\ next_chunk(m, after) \in C
  BY <1>3 DEF Tagged, Followed
<1>5. PICK before : /\ before = after - prev_size(m, after) /\ before \in C
                    /\ next_chunk(m, before) = after /\ prev_inuse(m, before)
  BY <1>2, <1>4 DEF Tagged, Told
<1>6. before = victim
  BY <1>0, <1>1, <1>5
<1> QED
  BY <1>0, <1>2, <1>3, <1>4, <1>5, <1>6 DEF next_chunk

LEMMA ExhaustWrites ==
  ASSUME NEW m, ArenaFields \subseteq DOMAIN m, NEW victim, NEW nb, NEW advertise,
         chunksize(m, victim) - nb < MINSIZE
  PROVE  Writes(m, Allotted(m, victim, nb, advertise),
                UsedAt(m.hdr, victim + chunksize(m, victim)))
<1> DEFINE cut == unlink_chunk(m, victim)
<1>1. Writes(m, cut, m.hdr)
  BY UnlinkWrites
<1>2. Allotted(m, victim, nb, advertise)
        = set_inuse_bit_at_offset(cut, victim, chunksize(m, victim))
  BY Zenon DEF Allotted
<1> HIDE DEF cut
<1>3. Writes(cut, set_inuse_bit_at_offset(cut, victim, chunksize(m, victim)),
             UsedAt(cut.hdr, victim + chunksize(m, victim)))
  BY <1>1, HeaderWrites DEF Writes
<1> QED
  BY <1>1, <1>2, <1>3 DEF Writes

LEMMA SplitWrites ==
  ASSUME NEW m, ArenaFields \subseteq DOMAIN m, NEW victim, NEW nb, NEW advertise,
         NEW rest, rest = chunksize(m, victim) - nb, ~(rest < MINSIZE)
  PROVE  Writes(m, Allotted(m, victim, nb, advertise),
                FootAt(HeadAt(HeadAt(m.hdr, victim, nb), victim + nb, rest),
                       victim + nb + rest, rest))
<1> DEFINE cut == unlink_chunk(m, victim)
           k   == set_head(cut, victim, nb)
           l   == [k EXCEPT !.last_remainder = IF advertise /\ in_smallbin_range(nb)
                                               THEN victim + nb ELSE @]
<1>1. Writes(m, cut, m.hdr)
  BY UnlinkWrites
<1>2. Allotted(m, victim, nb, advertise) = FreeHead(l, victim + nb, rest)
  BY Zenon DEF Allotted
<1> HIDE DEF cut
<1>3. Writes(cut, k, HeadAt(cut.hdr, victim, nb))
  BY <1>1, HeaderWrites DEF Writes
<1> HIDE DEF k
<1>4. Writes(k, l, k.hdr)
  BY <1>3, ArenaFieldNames DEF Writes
<1> HIDE DEF l
<1>5. Writes(l, FreeHead(l, victim + nb, rest),
             FootAt(HeadAt(l.hdr, victim + nb, rest), victim + nb + rest, rest))
  BY <1>4, FreeHeadWrites DEF Writes
<1> QED
  BY <1>1, <1>2, <1>3, <1>4, <1>5 DEF Writes

LEMMA TopWrites ==
  ASSUME NEW m, ArenaFields \subseteq DOMAIN m, NEW nb,
         NEW n, n = TakenFromTop(m, nb)
  PROVE  /\ n.top = m.top + nb
         /\ n.hdr = HeadAt(HeadAt(m.hdr, m.top, nb), m.top + nb, chunksize(m, m.top) - nb)
<1> DEFINE l == [m EXCEPT !.top = @ + nb]
           k == set_head(l, m.top, nb)
<1>1. ArenaFields \subseteq DOMAIN l /\ l.top = m.top + nb /\ l.hdr = m.hdr
  BY ArenaFieldNames
<1> HIDE DEF l
<1>2. Writes(l, k, HeadAt(l.hdr, m.top, nb))
  BY <1>1, HeaderWrites
<1> HIDE DEF k
<1>3. Writes(k, set_head(k, m.top + nb, chunksize(m, m.top) - nb),
             HeadAt(k.hdr, m.top + nb, chunksize(m, m.top) - nb))
  BY <1>2, HeaderWrites DEF Writes
<1>4. n = set_head(k, m.top + nb, chunksize(m, m.top) - nb)
  BY DEF TakenFromTop, k, l
<1> QED
  BY <1>1, <1>2, <1>3, <1>4 DEF Writes

(* The whole chunk.                                                        *)
LEMMA ExhaustTags ==
  ASSUME NEW m, NEW C, Tagged(m, C), NEW victim \in C \ {m.top},
         chunksize(m, victim) >= MINSIZE, ~inuse(m, victim),
         NEW after, after = next_chunk(m, victim),
         NEW n, n.top = m.top, n.hdr = UsedAt(m.hdr, after)
  PROVE  /\ Tagged(n, C) /\ inuse(n, victim)
         /\ \A q \in C : chunksize(n, q) = chunksize(m, q) /\ next_chunk(n, q) = next_chunk(m, q)
<1>0. C \subseteq Words /\ m.hdr \in [Words -> Header]
  BY DEF Tagged
<1>1. /\ after \in C \ {m.top} /\ ~prev_inuse(m, after)
  BY AroundFree
<1>2. /\ n.hdr \in [Words -> Header]
      /\ n.hdr[after].size = m.hdr[after].size /\ n.hdr[after].prev_inuse
      /\ \A q \in Words \ {after} : Alike(m.hdr, n.hdr, q)
  BY <1>0, <1>1, HeaderFlags
<1>3. \A q \in C \ {after} :
        /\ chunksize(n, q) = chunksize(m, q) /\ prev_size(n, q) = prev_size(m, q)
        /\ prev_inuse(n, q) <=> prev_inuse(m, q)
  BY <1>0, <1>2, AlikeTags
<1>4. chunksize(n, after) = chunksize(m, after) /\ prev_inuse(n, after)
  BY <1>2 DEF chunksize, prev_inuse
<1>5. \A q \in C : chunksize(n, q) = chunksize(m, q) /\ next_chunk(n, q) = next_chunk(m, q)
  BY <1>3, <1>4 DEF next_chunk
<1>6. \A q \in C : prev_inuse(m, q) => prev_inuse(n, q)
  BY <1>3, <1>4
<1>7. n.top \in C /\ prev_inuse(n, n.top)
  BY <1>6 DEF Tagged
<1>8. Apart(n, C)
  BY <1>5 DEF Tagged, Apart
<1>9. Followed(n, C)
  BY <1>5 DEF Tagged, Followed
<1>10. Fenced(n, C)
  BY <1>5, <1>6 DEF Tagged, Fenced, inuse
<1>11. Told(n, C)
  <2> SUFFICES ASSUME NEW q \in C, ~prev_inuse(n, q), NEW before, before = q - prev_size(n, q)
               PROVE  /\ before \in C \ {n.top} /\ next_chunk(n, before) = q
                      /\ chunksize(n, before) >= MINSIZE /\ prev_inuse(n, before)
    BY DEF Told
  <2>1. ~prev_inuse(m, q) /\ prev_size(n, q) = prev_size(m, q)
    BY <1>3, <1>4
  <2>2. /\ before \in C \ {m.top} /\ next_chunk(m, before) = q
        /\ chunksize(m, before) >= MINSIZE /\ prev_inuse(m, before)
    BY <2>1 DEF Tagged, Told
  <2> QED
    BY <1>5, <1>6, <2>2
<1>12. \A q \in C : chunksize(n, q) > 0 /\ next_chunk(n, q) <= LIMIT + 1
  BY <1>5 DEF Tagged
<1>13. inuse(n, victim)
  BY <1>4, <1>5 DEF inuse
<1> QED
  BY <1>0, <1>2, <1>5, <1>7, <1>8, <1>9, <1>10, <1>11, <1>12, <1>13 DEF Tagged

(* The lower part of it, the other part stays free.                        *)
LEMMA SplitTags ==
  ASSUME NEW m, NEW C, Tagged(m, C), NEW victim \in C \ {m.top},
         chunksize(m, victim) >= MINSIZE, ~inuse(m, victim),
         NEW nb \in Nat, nb % MALLOC_ALIGNMENT = 0, nb >= MINSIZE,
         NEW rest, rest = chunksize(m, victim) - nb, rest >= MINSIZE,
         NEW r, r = victim + nb,
         NEW n, n.top = m.top,
         n.hdr = FootAt(HeadAt(HeadAt(m.hdr, victim, nb), r, rest), r + rest, rest)
  PROVE  /\ Tagged(n, C \cup {r}) /\ inuse(n, victim) /\ ~inuse(n, r)
         /\ chunksize(n, victim) = nb /\ chunksize(n, r) = rest
         /\ \A q \in C \ {victim} : next_chunk(n, q) = next_chunk(m, q)
<1> DEFINE after == next_chunk(m, victim)
           D == C \cup {r}
<1>0. C \subseteq Words /\ m.hdr \in [Words -> Header]
  BY DEF Tagged
<1>1. /\ after \in C \ {m.top} /\ next_chunk(m, after) \in C
      /\ after = victim + chunksize(m, victim) /\ victim \in Nat /\ after \in Nat
      /\ prev_inuse(m, victim) /\ victim = after - prev_size(m, after) /\ ~prev_inuse(m, after)
  BY AroundFree
<1>2. chunksize(m, victim) \in Nat
  BY <1>0, TagTypes
<1>3. /\ r \in Nat /\ rest \in Nat /\ r + rest = after /\ victim < r /\ r < after
      /\ after = r + rest
  BY <1>1, <1>2, SMTT(30) DEF MINSIZE
<1>4. r \in Words
  <2>1. LIMIT \in Nat /\ after \in Words /\ after <= LIMIT
    BY <1>0, <1>1, ChunkAssumption DEF Words
  <2>2. victim + nb <= LIMIT
    BY <1>1, <1>3, <2>1
  <2> QED
    BY <1>0, <2>2, EvenWords
<1>5. /\ C \subseteq Nat /\ \A q \in C : next_chunk(m, q) \in Nat
      /\ \A p, q \in C : p < q => next_chunk(m, p) <= q
      /\ \A q \in C : q < next_chunk(m, q)
  <2>1. /\ C \subseteq Nat /\ \A q \in C : chunksize(m, q) > 0
        /\ \A q \in C : chunksize(m, q) \in Nat /\ next_chunk(m, q) \in Nat
        /\ \A p, q \in C : p < q => next_chunk(m, p) <= q
    BY WordsAreInts, TagTypes DEF Tagged, Apart
  <2> QED
    BY <2>1 DEF next_chunk
<1> HIDE DEF after
<1>6. \A q \in C : q <= victim \/ after <= q
  BY <1>5 DEF after
<1>7. r \notin C
  BY <1>1, <1>3, <1>5, <1>6
<1> DEFINE g == HeadAt(m.hdr, victim, nb)
           h == HeadAt(g, r, rest)
<1>8. /\ g \in [Words -> Header]
      /\ g[victim].size = nb /\ g[victim].prev_inuse
      /\ \A q \in Words \ {victim} : Alike(m.hdr, g, q)
  BY <1>0, HeaderFields
<1> HIDE DEF g
<1>9. /\ h \in [Words -> Header]
      /\ h[r].size = rest /\ h[r].prev_inuse
      /\ \A q \in Words \ {r} : Alike(g, h, q)
  BY <1>3, <1>4, <1>8, HeaderFields
<1> HIDE DEF h
<1>10. n.hdr = FootAt(h, after, rest)
  BY <1>3 DEF g, h
<1>11. /\ n.hdr \in [Words -> Header]
       /\ n.hdr[after].size = h[after].size
       /\ n.hdr[after].prev_inuse <=> h[after].prev_inuse
       /\ n.hdr[after].prev_size = rest
       /\ \A q \in Words \ {after} : Alike(h, n.hdr, q)
  BY <1>0, <1>1, <1>3, <1>9, <1>10, HeaderFields
<1>12. \A q \in C \ {victim, after} :
         /\ chunksize(n, q) = chunksize(m, q) /\ prev_size(n, q) = prev_size(m, q)
         /\ prev_inuse(n, q) <=> prev_inuse(m, q)
  <2>1. \A q \in C \ {victim, after} : Alike(m.hdr, n.hdr, q)
    BY <1>0, <1>7, <1>8, <1>9, <1>11, AlikeAll
  <2> QED
    BY <2>1, AlikeTags
<1>13. chunksize(n, victim) = nb /\ prev_inuse(n, victim)
  <2>1. Alike(g, n.hdr, victim)
    BY <1>0, <1>1, <1>3, <1>5, <1>7, <1>9, <1>11, AlikeAll
  <2> QED
    BY <1>8, <2>1 DEF Alike, chunksize, prev_inuse
<1>14. chunksize(n, r) = rest /\ prev_inuse(n, r)
  <2>1. Alike(h, n.hdr, r)
    BY <1>1, <1>4, <1>7, <1>11
  <2> QED
    BY <1>9, <2>1 DEF Alike, chunksize, prev_inuse
<1>15. /\ chunksize(n, after) = chunksize(m, after)
       /\ ~prev_inuse(n, after) /\ prev_size(n, after) = rest
  <2>1. after # victim
    BY <1>1, <1>3
  <2>2. Alike(m.hdr, h, after)
    BY <1>0, <1>1, <1>7, <1>8, <1>9, <2>1, AlikeAll
  <2>3. n.hdr[after].size = m.hdr[after].size
    BY <1>11, <2>2 DEF Alike
  <2>4. h[after].prev_inuse <=> m.hdr[after].prev_inuse
    BY <2>2 DEF Alike
  <2>5. ~n.hdr[after].prev_inuse
    BY <1>1, <1>11, <2>4, Zenon DEF prev_inuse
  <2> QED
    BY <1>11, <2>3, <2>5 DEF chunksize, prev_inuse, prev_size
<1>16. \A q \in C \ {victim} :
         next_chunk(n, q) = next_chunk(m, q) /\ chunksize(n, q) = chunksize(m, q)
  BY <1>12, <1>15 DEF next_chunk
<1>17. next_chunk(n, victim) = r /\ next_chunk(n, r) = after
  BY <1>3, <1>13, <1>14 DEF next_chunk
<1>18. n.top \in D \ {r} /\ prev_inuse(n, n.top)
  BY <1>1, <1>7, <1>12 DEF Tagged
<1>19. D \subseteq Words /\ \A q \in D : chunksize(n, q) > 0 /\ next_chunk(n, q) <= LIMIT + 1
  <2>1. \A q \in C \ {victim} : chunksize(n, q) > 0 /\ next_chunk(n, q) <= LIMIT + 1
    BY <1>16 DEF Tagged
  <2>2. r <= LIMIT + 1 /\ after <= LIMIT + 1
    <3>1. LIMIT \in Nat
      BY ChunkAssumption
    <3>2. r \in Words /\ after \in Words
      BY <1>0, <1>1, <1>4
    <3> QED
      BY <3>1, <3>2 DEF Words
  <2>3. chunksize(n, victim) > 0 /\ chunksize(n, r) > 0
    BY <1>3, <1>13, <1>14 DEF MINSIZE
  <2> QED
    BY <1>0, <1>4, <1>17, <2>1, <2>2, <2>3
<1>20. Apart(n, D)
  <2> SUFFICES ASSUME NEW p \in D, NEW q \in D, p < q
               PROVE  next_chunk(n, p) <= q
    BY DEF Apart
  <2>1. CASE p = victim
    BY <1>1, <1>3, <1>5, <1>6, <1>17, <2>1
  <2>2. CASE p = r
    <3>1. q \in C /\ q \in Nat
      BY <1>3, <1>5, <2>2
    <3>2. ~(q <= victim)
      <4>1. r < q /\ victim < r /\ r \in Nat /\ victim \in Nat
        BY <1>1, <1>3, <2>2
      <4> QED
        BY <3>1, <4>1
    <3> QED
      BY <1>6, <1>17, <2>2, <3>1, <3>2
  <2>3. CASE p \notin {victim, r} /\ q # r
    BY <1>5, <1>16, <2>3
  <2>4. CASE p \notin {victim, r} /\ q = r
    <3>1. p < victim
      <4>1. p \in C /\ p \in Nat /\ p # victim /\ p < r
        BY <1>5, <2>4
      <4>2. ~(after <= p)
        BY <1>1, <1>3, <4>1
      <4>3. p <= victim
        BY <1>6, <4>1, <4>2
      <4> QED
        BY <1>1, <4>1, <4>3
    <3> QED
      BY <1>1, <1>3, <1>5, <1>16, <2>4, <3>1
  <2> QED
    BY <2>1, <2>2, <2>3, <2>4
<1>21. Followed(n, D)
  <2> SUFFICES ASSUME NEW p \in D \ {n.top}, chunksize(n, p) >= MINSIZE
               PROVE  /\ next_chunk(n, p) \in D
                      /\ next_chunk(n, p) = n.top \/ next_chunk(n, next_chunk(n, p)) \in D
    BY DEF Followed
  <2>1. CASE p = victim
    BY <1>1, <1>17, <2>1
  <2>2. CASE p = r
    <3>1. next_chunk(n, after) = next_chunk(m, after)
      BY <1>1, <1>3, <1>16
    <3> QED
      BY <1>1, <1>17, <2>2, <3>1
  <2>3. CASE p \notin {victim, r}
    <3>1. /\ next_chunk(m, p) \in C
          /\ next_chunk(m, p) = m.top \/ next_chunk(m, next_chunk(m, p)) \in C
      BY <1>16, <2>3 DEF Tagged, Followed
    <3> QED
      BY <1>16, <1>17, <2>3, <3>1
  <2> QED
    BY <2>1, <2>2, <2>3
<1>22. Fenced(n, D)
  <2> SUFFICES ASSUME NEW p \in D, chunksize(n, p) < MINSIZE, next_chunk(n, p) \in D
               PROVE  prev_inuse(n, next_chunk(n, p))
    BY DEF Fenced, inuse
  <2>1. p \notin {victim, r}
    BY <1>3, <1>13, <1>14 DEF MINSIZE
  <2>2. CASE next_chunk(n, p) = r
    BY <1>14, <2>2
  <2>3. CASE next_chunk(n, p) # r
    <3>1. prev_inuse(m, next_chunk(m, p)) /\ next_chunk(m, p) \in C
      BY <1>16, <2>1, <2>3 DEF Tagged, Fenced, inuse
    <3> QED
      BY <1>1, <1>12, <1>13, <1>16, <2>1, <3>1
  <2> QED
    BY <2>2, <2>3
<1>23. Told(n, D)
  <2> SUFFICES ASSUME NEW q \in D, ~prev_inuse(n, q), NEW before, before = q - prev_size(n, q)
               PROVE  /\ before \in D \ {n.top} /\ next_chunk(n, before) = q
                      /\ chunksize(n, before) >= MINSIZE /\ prev_inuse(n, before)
    BY DEF Told
  <2>1. q # victim /\ q # r
    BY <1>13, <1>14
  <2>2. CASE q = after
    <3>1. before = r
      BY <1>3, <1>15, <2>2
    <3> QED
      BY <1>14, <1>17, <1>18, <2>2, <3>1
  <2>3. CASE q # after
    <3>1. ~prev_inuse(m, q) /\ prev_size(n, q) = prev_size(m, q)
      BY <1>12, <2>1, <2>3
    <3>2. /\ before \in C \ {m.top} /\ next_chunk(m, before) = q
          /\ chunksize(m, before) >= MINSIZE /\ prev_inuse(m, before)
      BY <2>1, <3>1 DEF Tagged, Told
    <3>3. before # victim /\ before # after
      BY <1>1, <2>3, <3>2 DEF after
    <3> QED
      BY <1>12, <1>16, <3>2, <3>3
  <2> QED
    BY <2>2, <2>3
<1> QED
  BY <1>11, <1>13, <1>14, <1>15, <1>16, <1>17, <1>18, <1>19, <1>20, <1>21, <1>22, <1>23
  DEF Tagged, inuse

(* A chunk that is cut in two covers what it did.                          *)
LEMMA SplitCovers ==
  ASSUME NEW m, NEW n, NEW C, NEW v \in C, NEW r, NEW D, D = C \cup {r}, r \notin C,
         v \in Nat, r \in Nat, next_chunk(m, v) \in Nat, v < r, r < next_chunk(m, v),
         next_chunk(n, v) = r, next_chunk(n, r) = next_chunk(m, v),
         \A q \in C \ {v} : next_chunk(n, q) = next_chunk(m, q)
  PROVE  Covered(n, D) = Covered(m, C)
<1>0. LIMIT \in Nat
  BY ChunkAssumption
<1>1. ASSUME NEW w \in 0 .. LIMIT
      PROVE  (\E q \in D : q <= w /\ w < next_chunk(n, q))
               <=> (\E q \in C : q <= w /\ w < next_chunk(m, q))
  <2>0. w \in Nat
    BY <1>0
  <2>1. ASSUME NEW q \in D, q <= w, w < next_chunk(n, q)
        PROVE  \E p \in C : p <= w /\ w < next_chunk(m, p)
    <3>1. CASE q \in {v, r}
      <4>1. v <= w /\ w < next_chunk(m, v)
        BY <2>0, <2>1, <3>1
      <4> QED
        BY <4>1
    <3>2. CASE q \notin {v, r}
      BY <2>1, <3>2
    <3> QED
      BY <3>1, <3>2
  <2>2. ASSUME NEW q \in C, q <= w, w < next_chunk(m, q)
        PROVE  \E p \in D : p <= w /\ w < next_chunk(n, p)
    <3>1. CASE q = v /\ w < r
      BY <2>2, <3>1
    <3>2. CASE q = v /\ r <= w
      BY <2>2, <3>2
    <3>3. CASE q # v
      BY <2>2, <3>3
    <3> QED
      BY <2>0, <3>1, <3>2, <3>3
  <2> QED
    BY <2>1, <2>2
<1> QED
  BY <1>1 DEF Covered

(* A free chunk that is handed out, whole or in part: the tags tell that   *)
(* the part is in use and that the rest, when there is one, is free; they  *)
(* cover the same memory, and the checks of the sizes that the code makes  *)
(* on the way pass.                                                        *)
THEOREM AllottingSplits ==
  ASSUME NEW m, ArenaFields \subseteq DOMAIN m, NEW C, Tagged(m, C), NEW victim \in C \ {m.top},
         chunksize(m, victim) >= MINSIZE, ~inuse(m, victim),
         NEW nb \in Nat, nb % MALLOC_ALIGNMENT = 0, MINSIZE <= nb, nb <= chunksize(m, victim),
         NEW advertise, NEW n, n = Allotted(m, victim, nb, advertise),
         NEW rest, rest = chunksize(m, victim) - nb,
         NEW D, D = IF rest < MINSIZE THEN C ELSE C \cup {victim + nb}
  PROVE  /\ Tagged(n, D) /\ Covered(n, D) = Covered(m, C) /\ n.top = m.top
         /\ inuse(n, victim) /\ nb <= chunksize(n, victim)
         /\ rest >= MINSIZE =>
              /\ chunksize(n, victim) = nb
              /\ chunksize(n, victim + nb) = rest /\ ~inuse(n, victim + nb)
         /\ chunksize(m, victim) = prev_size(m, next_chunk(m, victim))
<1> DEFINE after == next_chunk(m, victim)
<1>1. /\ after = victim + chunksize(m, victim) /\ victim \in Nat /\ after \in Nat
      /\ victim = after - prev_size(m, after) /\ after \in C
  BY AroundFree
<1>2. C \subseteq Words /\ m.hdr \in [Words -> Header]
  BY DEF Tagged
<1>3. chunksize(m, victim) \in Nat /\ prev_size(m, after) \in Nat
  BY <1>1, <1>2, TagTypes
<1>4. chunksize(m, victim) = prev_size(m, after)
  BY <1>1, <1>3
<1>5. CASE rest < MINSIZE
  <2>1. Writes(m, n, UsedAt(m.hdr, after))
    BY <1>1, <1>5, ExhaustWrites
  <2>2. /\ Tagged(n, C) /\ inuse(n, victim)
        /\ \A q \in C : chunksize(n, q) = chunksize(m, q) /\ next_chunk(n, q) = next_chunk(m, q)
    BY <2>1, ExhaustTags DEF Writes
  <2>3. D = C /\ ~(rest >= MINSIZE)
    BY <1>3, <1>5 DEF MINSIZE
  <2>4. Covered(n, C) = Covered(m, C)
    BY <2>2 DEF Covered
  <2> QED
    BY <1>4, <2>1, <2>2, <2>3, <2>4 DEF Writes
<1>6. CASE ~(rest < MINSIZE)
  <2> DEFINE r == victim + nb
  <2>1. /\ n.top = m.top
        /\ n.hdr = FootAt(HeadAt(HeadAt(m.hdr, victim, nb), r, rest), r + rest, rest)
    BY <1>6, SplitWrites DEF Writes
  <2>2. D = C \cup {r} /\ rest >= MINSIZE
    BY <1>3, <1>6 DEF MINSIZE
  <2>3. /\ Tagged(n, D) /\ inuse(n, victim) /\ ~inuse(n, r)
        /\ chunksize(n, victim) = nb /\ chunksize(n, r) = rest
        /\ \A q \in C \ {victim} : next_chunk(n, q) = next_chunk(m, q)
    <3>1. r = victim + nb /\ nb >= MINSIZE
      OBVIOUS
    <3> HIDE DEF r
    <3>2. /\ Tagged(n, C \cup {r}) /\ inuse(n, victim) /\ ~inuse(n, r)
          /\ chunksize(n, victim) = nb /\ chunksize(n, r) = rest
          /\ \A q \in C \ {victim} : next_chunk(n, q) = next_chunk(m, q)
      BY <2>1, <2>2, <3>1, SplitTags
    <3> QED
      BY <2>2, <3>2
  <2>4. /\ r \in Nat /\ victim < r /\ r < after
        /\ next_chunk(n, victim) = r /\ next_chunk(n, r) = after
    BY <1>1, <1>3, <2>2, <2>3 DEF next_chunk, MINSIZE
  <2>5. r \notin C
    <3>1. r \in C => after <= r
      BY <2>4 DEF Tagged, Apart
    <3> QED
      BY <1>1, <2>4, <3>1
  <2>6. Covered(n, D) = Covered(m, C)
    BY <1>1, <2>2, <2>3, <2>4, <2>5, SplitCovers
  <2> QED
    BY <1>3, <1>4, <2>1, <2>2, <2>3, <2>6
<1> QED
  BY <1>5, <1>6

(* The lower part of top that is handed out: what remains is top, what     *)
(* went is in use, and they cover the same memory.                         *)
THEOREM TopSplits ==
  ASSUME NEW m, ArenaFields \subseteq DOMAIN m, NEW C, Tagged(m, C),
         NEW nb \in Nat, nb % MALLOC_ALIGNMENT = 0, MINSIZE <= nb,
         chunksize(m, m.top) >= nb + MINSIZE,
         NEW n, n = TakenFromTop(m, nb), NEW D, D = C \cup {m.top + nb}
  PROVE  /\ Tagged(n, D) /\ Covered(n, D) = Covered(m, C) /\ n.top = m.top + nb
         /\ inuse(n, m.top) /\ chunksize(n, m.top) = nb
         /\ chunksize(n, n.top) = chunksize(m, m.top) - nb
<1> DEFINE v     == m.top
           r     == v + nb
           after == next_chunk(m, v)
           rest  == chunksize(m, v) - nb
<1>0. C \subseteq Words /\ m.hdr \in [Words -> Header] /\ v \in C
  BY DEF Tagged
<1>1. /\ C \subseteq Nat /\ \A q \in C : next_chunk(m, q) \in Nat /\ chunksize(m, q) \in Nat
      /\ \A p, q \in C : p < q => next_chunk(m, p) <= q
      /\ \A q \in C : q < next_chunk(m, q)
  <2>1. /\ C \subseteq Nat /\ \A q \in C : chunksize(m, q) > 0
        /\ \A q \in C : chunksize(m, q) \in Nat /\ next_chunk(m, q) \in Nat
        /\ \A p, q \in C : p < q => next_chunk(m, p) <= q
    BY WordsAreInts, TagTypes DEF Tagged, Apart
  <2> QED
    BY <2>1 DEF next_chunk
<1>2. /\ v \in Nat /\ r \in Nat /\ after \in Nat /\ rest \in Nat /\ rest >= MINSIZE
      /\ after = r + rest /\ v < r /\ r < after /\ after <= LIMIT + 1
  <2>1. after = v + chunksize(m, v) /\ v \in Nat /\ chunksize(m, v) \in Nat
    BY <1>0, <1>1 DEF next_chunk
  <2>2. after <= LIMIT + 1
    BY <1>0 DEF Tagged
  <2> QED
    BY <2>1, <2>2 DEF MINSIZE
<1>3. LIMIT \in Nat
  BY ChunkAssumption
<1>4. r \in Words
  <2>1. v + nb <= LIMIT
    BY <1>2, <1>3 DEF MINSIZE
  <2> QED
    BY <1>0, <2>1, EvenWords
<1>5. n.top = r /\ n.hdr = HeadAt(HeadAt(m.hdr, v, nb), r, rest)
  BY TopWrites
<1> HIDE DEF v, rest, after
<1>6. \A q \in C : q <= v \/ after <= q
  BY <1>0, <1>1 DEF after
<1>7. r \notin C
  BY <1>1, <1>2, <1>6
<1> DEFINE g == HeadAt(m.hdr, v, nb)
<1>8. /\ g \in [Words -> Header]
      /\ g[v].size = nb /\ g[v].prev_inuse
      /\ \A q \in Words \ {v} : Alike(m.hdr, g, q)
  BY <1>0, HeaderFields
<1> HIDE DEF g
<1>9. /\ n.hdr \in [Words -> Header]
      /\ n.hdr[r].size = rest /\ n.hdr[r].prev_inuse
      /\ \A q \in Words \ {r} : Alike(g, n.hdr, q)
  BY <1>2, <1>4, <1>5, <1>8, HeaderFields DEF g
<1>10. \A q \in C \ {v} :
         /\ chunksize(n, q) = chunksize(m, q) /\ prev_size(n, q) = prev_size(m, q)
         /\ prev_inuse(n, q) <=> prev_inuse(m, q)
  <2>1. \A q \in C \ {v} : Alike(m.hdr, n.hdr, q)
    BY <1>0, <1>7, <1>8, <1>9, AlikeAll
  <2> QED
    BY <2>1, AlikeTags
<1>11. chunksize(n, v) = nb /\ prev_inuse(n, v)
  <2>1. Alike(g, n.hdr, v)
    BY <1>0, <1>7, <1>9
  <2> QED
    BY <1>8, <2>1 DEF Alike, chunksize, prev_inuse
<1>12. chunksize(n, r) = rest /\ prev_inuse(n, r)
  BY <1>9 DEF chunksize, prev_inuse
<1>13. \A q \in C \ {v} : next_chunk(n, q) = next_chunk(m, q)
  BY <1>10 DEF next_chunk
<1>14. next_chunk(n, v) = r /\ next_chunk(n, r) = after
  BY <1>2, <1>11, <1>12 DEF next_chunk
<1>15. /\ D \subseteq Words /\ n.top \in D /\ prev_inuse(n, n.top)
       /\ \A q \in D : chunksize(n, q) > 0 /\ next_chunk(n, q) <= LIMIT + 1
  <2>1. \A q \in C \ {v} : chunksize(n, q) > 0 /\ next_chunk(n, q) <= LIMIT + 1
    BY <1>10, <1>13 DEF Tagged
  <2>2. chunksize(n, v) > 0 /\ chunksize(n, r) > 0 /\ r <= LIMIT + 1
    BY <1>2, <1>3, <1>11, <1>12 DEF MINSIZE
  <2>3. D = C \cup {r}
    BY DEF v
  <2> QED
    BY <1>0, <1>2, <1>4, <1>5, <1>12, <1>14, <2>1, <2>2, <2>3
<1>16. D = C \cup {r} /\ n.top = r /\ v = m.top
  BY <1>5 DEF v
<1> HIDE DEF r
<1>17. Apart(n, D)
  <2> SUFFICES ASSUME NEW p \in D, NEW q \in D, p < q
               PROVE  next_chunk(n, p) <= q
    BY DEF Apart
  <2>1. CASE p = v
    <3>1. q = r \/ (q \in C /\ ~(q <= v))
      BY <1>1, <1>2, <1>16, <2>1
    <3> QED
      BY <1>1, <1>2, <1>6, <1>14, <2>1, <3>1
  <2>2. CASE p = r
    <3>1. q \in C /\ q \in Nat /\ r < q
      BY <1>1, <1>2, <1>16, <2>2
    <3>2. ~(q <= v)
      BY <1>2, <3>1
    <3> QED
      BY <1>6, <1>14, <2>2, <3>1, <3>2
  <2>3. CASE p \notin {v, r} /\ q # r
    BY <1>1, <1>13, <1>16, <2>3
  <2>4. CASE p \notin {v, r} /\ q = r
    <3>1. p \in C /\ p \in Nat /\ p # v /\ p < r
      BY <1>1, <1>16, <2>4
    <3>2. ~(after <= p)
      BY <1>2, <3>1
    <3>3. p < v
      BY <1>2, <1>6, <3>1, <3>2
    <3>4. next_chunk(m, p) <= v /\ next_chunk(m, p) \in Nat
      BY <1>0, <1>1, <3>1, <3>3
    <3> QED
      BY <1>2, <1>13, <2>4, <3>1, <3>4
  <2> QED
    BY <2>1, <2>2, <2>3, <2>4
<1>18. Followed(n, D)
  <2> SUFFICES ASSUME NEW p \in D \ {r}, chunksize(n, p) >= MINSIZE
               PROVE  /\ next_chunk(n, p) \in D
                      /\ next_chunk(n, p) = r \/ next_chunk(n, next_chunk(n, p)) \in D
    BY <1>16 DEF Followed
  <2>1. CASE p = v
    BY <1>14, <1>16, <2>1
  <2>2. CASE p # v
    <3>1. /\ next_chunk(m, p) \in C
          /\ next_chunk(m, p) = v \/ next_chunk(m, next_chunk(m, p)) \in C
      BY <1>10, <1>16, <2>2 DEF Tagged, Followed
    <3> QED
      BY <1>13, <1>14, <1>16, <2>2, <3>1
  <2> QED
    BY <2>1, <2>2
<1>19. Fenced(n, D)
  <2> SUFFICES ASSUME NEW p \in D, chunksize(n, p) < MINSIZE, next_chunk(n, p) \in D
               PROVE  prev_inuse(n, next_chunk(n, p))
    BY DEF Fenced, inuse
  <2>1. p # v /\ p # r
    BY <1>2, <1>11, <1>12 DEF MINSIZE
  <2>2. CASE next_chunk(n, p) = r
    BY <1>12, <2>2
  <2>3. CASE next_chunk(n, p) # r
    <3>1. prev_inuse(m, next_chunk(m, p)) /\ next_chunk(m, p) \in C
      BY <1>10, <1>13, <1>16, <2>1, <2>3 DEF Tagged, Fenced, inuse
    <3> QED
      BY <1>10, <1>11, <1>13, <1>16, <2>1, <3>1
  <2> QED
    BY <2>2, <2>3
<1>20. Told(n, D)
  <2> SUFFICES ASSUME NEW q \in D, ~prev_inuse(n, q), NEW before, before = q - prev_size(n, q)
               PROVE  /\ before \in D \ {r} /\ next_chunk(n, before) = q
                      /\ chunksize(n, before) >= MINSIZE /\ prev_inuse(n, before)
    BY <1>16 DEF Told
  <2>1. q # v /\ q # r
    BY <1>11, <1>12
  <2>2. ~prev_inuse(m, q) /\ prev_size(n, q) = prev_size(m, q) /\ q \in C
    BY <1>10, <1>16, <2>1
  <2>3. /\ before \in C \ {v} /\ next_chunk(m, before) = q
        /\ chunksize(m, before) >= MINSIZE /\ prev_inuse(m, before)
    BY <1>16, <2>2 DEF Tagged, Told
  <2> QED
    BY <1>7, <1>10, <1>13, <1>16, <2>3
<1>21. Covered(n, D) = Covered(m, C)
  BY <1>0, <1>2, <1>7, <1>13, <1>14, <1>16, SplitCovers DEF after
<1>22. Tagged(n, D)
  BY <1>9, <1>15, <1>17, <1>18, <1>19, <1>20 DEF Tagged
<1> QED
  BY <1>11, <1>12, <1>14, <1>16, <1>21, <1>22 DEF inuse, r, v, rest

-----------------------------------------------------------------------------
(* The steps of the program that do it.                                    *)

LEMMA SameTags ==
  ASSUME NEW m, NEW n, n.hdr = m.hdr, n.top = m.top, NEW C, Tagged(m, C), NEW p
  PROVE  /\ Tagged(n, C) /\ Covered(n, C) = Covered(m, C)
         /\ chunksize(n, p) = chunksize(m, p) /\ (inuse(n, p) <=> inuse(m, p))
<1>1. /\ \A q : chunksize(n, q) = chunksize(m, q) /\ prev_size(n, q) = prev_size(m, q)
      /\ \A q : prev_inuse(n, q) <=> prev_inuse(m, q)
      /\ \A q : next_chunk(n, q) = next_chunk(m, q)
      /\ \A q : inuse(n, q) <=> inuse(m, q)
  BY DEF chunksize, prev_size, prev_inuse, next_chunk, inuse
<1>2. Apart(n, C) /\ Fenced(n, C)
  BY <1>1 DEF Tagged, Apart, Fenced
<1>3. Followed(n, C)
  BY <1>1 DEF Tagged, Followed
<1>4. Told(n, C)
  BY <1>1 DEF Tagged, Told
<1>5. Covered(n, C) = Covered(m, C)
  BY <1>1 DEF Covered
<1>6. Tagged(n, C)
  BY <1>1, <1>2, <1>3, <1>4 DEF Tagged
<1> QED
  BY <1>1, <1>5, <1>6

(* What t does keeps the tags right, and what they cover.                  *)
KeepsTags(C) == \E D \in SUBSET Words : Tagged(av', D) /\ Covered(av', D) = Covered(av, C)

MergeKeeps(t) ==
  \A C \in SUBSET Words :
    /\ Merge(t) /\ Tagged(av, C)
    /\ loc[t].p \in C /\ chunksize(av, loc[t].p) >= MINSIZE /\ ~Unfreeable(av, loc[t].p)
    => KeepsTags(C)

TopKeeps(t) ==
  \A C \in SUBSET Words :
    /\ use_top(t) /\ Tagged(av, C)
    /\ loc[t].nb \in Nat /\ loc[t].nb % MALLOC_ALIGNMENT = 0 /\ loc[t].nb >= MINSIZE
    => KeepsTags(C)

LEMMA MergeTags ==
  ASSUME ArenaRight(av), NEW t \in Threads
  PROVE  MergeKeeps(t)
<1> SUFFICES ASSUME NEW C \in SUBSET Words, Merge(t), Tagged(av, C), loc[t].p \in C,
                    chunksize(av, loc[t].p) >= MINSIZE, ~Unfreeable(av, loc[t].p)
             PROVE  KeepsTags(C)
  BY DEF MergeKeeps
<1> DEFINE p == loc[t].p
           m == Check(av, Unfreeable(av, p))
           D == Joined(C, Base(m, p), After(m, p))
<1>1. av' = Consolidated(m, p)
  BY DEF Merge
<1>2. Writes(av, m, av.hdr)
  BY CheckWrites DEF ArenaRight
<1>3. p # av.top /\ inuse(av, p)
  BY DEF Unfreeable
<1> HIDE DEF m, p
<1>4. /\ ArenaFields \subseteq DOMAIN m /\ m.hdr = av.hdr /\ m.top = av.top
  BY <1>2 DEF Writes
<1>5. /\ Tagged(m, C) /\ Covered(m, C) = Covered(av, C)
      /\ chunksize(m, p) = chunksize(av, p) /\ (inuse(m, p) <=> inuse(av, p))
  BY <1>4, SameTags
<1>6. p \in C \ {m.top} /\ chunksize(m, p) >= MINSIZE /\ inuse(m, p)
  BY <1>3, <1>4, <1>5 DEF p
<1>7. Tagged(av', D) /\ Covered(av', D) = Covered(m, C)
  BY <1>1, <1>4, <1>5, <1>6, FreeingMerges
<1> QED
  BY <1>5, <1>7 DEF KeepsTags, Joined

LEMMA TopTags ==
  ASSUME ArenaRight(av), NEW t \in Threads
  PROVE  TopKeeps(t)
<1> SUFFICES ASSUME NEW C \in SUBSET Words, use_top(t), Tagged(av, C),
                    loc[t].nb \in Nat, loc[t].nb % MALLOC_ALIGNMENT = 0, loc[t].nb >= MINSIZE
             PROVE  KeepsTags(C)
  BY DEF TopKeeps
<1> DEFINE nb   == loc[t].nb
           size == chunksize(av, av.top)
           m    == Check(av, size > av.system_mem)
           D    == C \cup {m.top + nb}
<1>1. Writes(av, m, av.hdr)
  BY CheckWrites DEF ArenaRight
<1>2. \/ size >= nb + MINSIZE /\ av' = TakenFromTop(m, nb)
      \/ av' = m
  BY DEF use_top
<1> HIDE DEF m, nb
<1>3. /\ ArenaFields \subseteq DOMAIN m /\ m.hdr = av.hdr /\ m.top = av.top
  BY <1>1 DEF Writes
<1>4. /\ Tagged(m, C) /\ Covered(m, C) = Covered(av, C) /\ chunksize(m, m.top) = size
  BY <1>3, SameTags
<1>5. nb \in Nat /\ nb % MALLOC_ALIGNMENT = 0 /\ MINSIZE <= nb
  BY DEF nb, MINSIZE
<1>6. CASE size >= nb + MINSIZE /\ av' = TakenFromTop(m, nb)
  <2>1. Tagged(av', D) /\ Covered(av', D) = Covered(m, C)
    BY <1>3, <1>4, <1>5, <1>6, TopSplits
  <2> QED
    BY <1>4, <2>1 DEF KeepsTags, Tagged
<1>7. CASE av' = m
  BY <1>4, <1>7 DEF KeepsTags
<1> QED
  BY <1>2, <1>6, <1>7

(* The step of _int_free that merges a chunk with its neighbours, once the *)
(* checks before it have passed, and the one of _int_malloc that cuts a    *)
(* chunk from top: when the tags were right, they are right again, and     *)
(* tell of the same memory.                                                *)
THEOREM StepsKeepTags == Spec => [][\A t \in Threads : MergeKeeps(t) /\ TopKeeps(t)]_vars
<1>1. ArenaHolds /\ [Next]_vars => [\A t \in Threads : MergeKeeps(t) /\ TopKeeps(t)]_vars
  BY MergeTags, TopTags DEF ArenaHolds
<1> QED
  BY <1>1, ArenaAlways, PTL DEF Spec

=============================================================================
