------------------------------- MODULE Ptmalloc -------------------------------
(***************************************************************************)
(* "Memory Allocator C/docs/malloc-impl.c": threads that call malloc,      *)
(* free, realloc, calloc, memalign and malloc_trim on the main arena.      *)
(*                                                                         *)
(* A thread keeps a stack of labels, as a call stack: `pc' is what it does *)
(* next, the stack says where the procedures it is in return to.  Under    *)
(* the mutex a step is a stretch of code between two places at which a     *)
(* thread without it can interfere; such a thread pushes chunks on the     *)
(* fastbins, reads the size of the chunk behind its own, and system_mem.   *)
(*                                                                         *)
(* The process has created threads, so SINGLE_THREAD_P is false; all of    *)
(* them use the main arena, as they do when arena_max is 1.                *)
(***************************************************************************)
EXTENDS MallocChunks

CONSTANTS
  Threads,
  Worlds,                  \* see WorldAssumption
  PTRDIFF_MAX,
  WORD,                    \* 2 ^ 64
  FASTBIN_CONSOLIDATION_THRESHOLD,
  DEFAULT_MMAP_THRESHOLD_MAX,
  MMAP_AS_MORECORE_SIZE,
  tcache_max,              \* the largest chunk of a tcache
  TCACHE,                  \* sizeof (tcache_perthread_struct)
  MAX_ITERS

Ops == {"malloc", "free", "realloc", "calloc", "memalign", "pvalloc", "trim", "exit"}

(* What the system does, the tunable parameters, and what the clients may  *)
(* do: a plan says of each call which threads may make it, and with what.  *)
ASSUME WorldAssumption ==
  \A w \in Worlds :
    /\ \A i \in DOMAIN w.plan :
         /\ w.plan[i].threads \subseteq Threads /\ w.plan[i].ops \subseteq Ops
         /\ w.plan[i].sizes \subseteq Nat
    /\ w.alignments \subseteq Nat
    /\ w.foreign \in Nat                        \* sbrk by somebody else, once
    /\ w.morecore \subseteq {"sbrk", "short", "mmap", "none"}
    /\ w.tcache_count \in Nat /\ w.tcache_unsorted_limit \in Nat
    /\ w.top_pad \in Nat /\ w.n_mmaps_max \in Nat

ASSUME ThreadAssumption == NULL \notin Threads

ASSUME SizeAssumption ==
  /\ {PTRDIFF_MAX, WORD, FASTBIN_CONSOLIDATION_THRESHOLD, DEFAULT_MMAP_THRESHOLD_MAX,
      MMAP_AS_MORECORE_SIZE, tcache_max, TCACHE, MAX_ITERS} \subseteq Nat \ {0}
  /\ FASTBIN_CONSOLIDATION_THRESHOLD > global_max_fast

VARIABLES
  world,   \* one of Worlds
  av,      \* main_arena, and the memory
  mutex,   \* the thread that holds av->mutex, or NULL
  tcache,  \* of each thread
  loc,     \* of each thread: where it is, and its locals
  held,    \* the chunks that the clients hold, and what they asked for
  calls    \* how many calls have been made

vars == <<world, av, mutex, tcache, loc, held, calls>>

TcSizes == {s \in MINSIZE .. tcache_max : s % MALLOC_ALIGNMENT = 0}

(* `mem' is p of the free that makes a cache first, in which another chunk *)
(* may be freed.  `own' are the chunks that the call has in its hands,     *)
(* `high' is where the memory ended that the heap had ever had, `recycled' *)
(* tells that the victim has been in a fastbin: all three are auxiliary.   *)
Idle ==
  [pc |-> "idle", stack |-> <<>>, op |-> "none", bytes |-> 0, alignment |-> 0,
   nb |-> 0, victim |-> NULL, tc_victim |-> NULL, pp |-> NULL,
   recycled |-> FALSE, return_cached |-> FALSE, unsorted_count |-> 0, iters |-> 0, tried |-> FALSE,
   lo |-> 0, hi |-> 0, fb |-> 0, p |-> NULL, mem |-> NULL, have_lock |-> FALSE, pad |-> 0,
   oldp |-> NULL, need |-> 0, copied |-> 0,
   oldtop |-> NULL, oldtopsize |-> 0, high |-> 0, clean |-> 0, own |-> {}]

NoCache == [at |-> NULL, entries |-> [s \in TcSizes |-> <<>>], shutting_down |-> FALSE]

At(t, label) == loc[t].pc = label /\ ~Stopped(av)

Goto(l, label) == [l EXCEPT !.pc = label]
Enter(l, label, back) == [l EXCEPT !.pc = label, !.stack = <<back>> \o @]
Return(l) == [l EXCEPT !.pc = Head(l.stack), !.stack = Tail(l.stack)]
Got(l, p) == Return([l EXCEPT !.victim = p, !.own = @ \cup {p}])
NotGot(l) == Return([l EXCEPT !.victim = NULL])

Set(t, l) == loc' = [loc EXCEPT ![t] = l]

Lock(t) == mutex = NULL /\ mutex' = t
Unlock(t) == mutex' = NULL

(* Only the thread's own state changes.                                    *)
Private == UNCHANGED <<world, av, mutex, held, calls>>
Inside == UNCHANGED <<world, mutex, held, calls>>

-----------------------------------------------------------------------------
(* The thread cache.                                                       *)

HasCache(t, size) == tcache[t].at # NULL /\ size \in TcSizes

Room(t, size) ==
  HasCache(t, size) /\ Len(tcache[t].entries[size]) < world.tcache_count

tcache_put(tc, p, size) == [tc EXCEPT !.entries[size] = <<p>> \o @]

tcache_get(tc, size) == [tc EXCEPT !.entries[size] = Tail(@)]

(* MAYBE_INIT_TCACHE, then `label'.                                        *)
WithCache(t, l, label) ==
  IF tcache[t].at = NULL /\ ~tcache[t].shutting_down
  THEN Enter([l EXCEPT !.tried = FALSE, !.mem = l.p], "tcache_init", label)
  ELSE Goto([l EXCEPT !.tried = FALSE], label)

tcache_init(t) ==
  /\ At(t, "tcache_init") /\ Lock(t)
  /\ Set(t, Enter([loc[t] EXCEPT !.nb = request2size(TCACHE)], "int_malloc", "tcache_done"))
  /\ UNCHANGED <<world, av, tcache, held, calls>>

(* arena_get_retry has no other arena to offer: a second try in this one.  *)
TcacheDone(t) ==
  LET l == loc[t]
  IN  /\ At(t, "tcache_done") /\ Unlock(t)
      /\ IF l.victim = NULL /\ ~l.tried
         THEN Set(t, Goto([l EXCEPT !.tried = TRUE], "tcache_init")) /\ UNCHANGED tcache
         ELSE /\ Set(t, Return([l EXCEPT !.victim = NULL, !.tried = FALSE,
                                         !.p = l.mem, !.mem = NULL, !.have_lock = FALSE,
                                         !.own = @ \ {l.victim}]))
              /\ tcache' = [tcache EXCEPT ![t].at = l.victim]
      /\ UNCHANGED <<world, av, held, calls>>

-----------------------------------------------------------------------------
(* malloc.                                                                 *)

(* A request of more than PTRDIFF_MAX is refused at once.                  *)
__libc_malloc(t) ==
  /\ At(t, "malloc")
  /\ Set(t, IF loc[t].bytes > PTRDIFF_MAX THEN NotGot(loc[t])
            ELSE WithCache(t, loc[t], "malloc_cache"))
  /\ Private /\ UNCHANGED tcache

MallocCached(t) ==
  LET l    == loc[t]
      size == request2size(l.bytes)
  IN  /\ At(t, "malloc_cache")
      /\ IF HasCache(t, size) /\ tcache[t].entries[size] # <<>>
         THEN /\ Set(t, Got(l, tcache[t].entries[size][1]))
              /\ tcache' = [tcache EXCEPT ![t] = tcache_get(@, size)]
         ELSE Set(t, Goto(l, "malloc_lock")) /\ UNCHANGED tcache
      /\ Private

MallocLock(t) ==
  /\ At(t, "malloc_lock") /\ Lock(t)
  /\ Set(t, Enter([loc[t] EXCEPT !.nb = request2size(loc[t].bytes)],
                  "int_malloc", "malloc_done"))
  /\ UNCHANGED <<world, av, tcache, held, calls>>

MallocDone(t) ==
  LET l == loc[t]
  IN  /\ At(t, "malloc_done") /\ Unlock(t)
      /\ Set(t, IF l.victim = NULL /\ ~l.tried
                THEN Goto([l EXCEPT !.tried = TRUE], "malloc_lock")
                ELSE Return(l))
      /\ UNCHANGED <<world, av, tcache, held, calls>>

-----------------------------------------------------------------------------
(* _int_malloc, under the mutex: `nb' is the size of the chunk.            *)

(* The head of the fastbin is read, and what follows it.                   *)
FastLoad(l, head, label, empty) ==
  IF head = NULL THEN empty
  ELSE Goto([l EXCEPT !.tc_victim = head, !.pp = av.fd[head]], label)

_int_malloc(t) ==
  LET l == [loc[t] EXCEPT !.recycled = FALSE, !.return_cached = FALSE,
                          !.unsorted_count = 0, !.iters = 0]
  IN  /\ At(t, "int_malloc")
      /\ Set(t, IF l.nb <= global_max_fast
                THEN FastLoad(l, av.fastbinsY[l.nb], "fast_take", Goto(l, "small"))
                ELSE Goto(l, "small"))
      /\ Private /\ UNCHANGED tcache

(* catomic_compare_and_exchange_val_acq.                                   *)
Popped(m, size, p, pp) ==
  Check([m EXCEPT !.fastbinsY[size] = pp, !.fd[p] = NULL], chunksize(m, p) # size)

(* REMOVE_FB: again, if a chunk has been pushed in between.                *)
FastTake(t) ==
  LET l    == loc[t]
      head == av.fastbinsY[l.nb]
  IN  /\ At(t, "fast_take")
      /\ IF head = l.tc_victim
         THEN /\ av' = Popped(av, l.nb, l.tc_victim, l.pp)
              /\ Set(t, Goto([l EXCEPT !.victim = head, !.own = @ \cup {head}, !.recycled = TRUE,
                                       !.tc_victim = NULL, !.pp = NULL], "stash"))
         ELSE /\ Set(t, FastLoad(l, head, "fast_take", Goto(l, "small")))
              /\ UNCHANGED av
      /\ Inside /\ UNCHANGED tcache

(* The rest of the fastbin, as far as the cache has room for it.           *)
Stash(t) ==
  LET l    == loc[t]
      done == Return([l EXCEPT !.tc_victim = NULL, !.pp = NULL])
  IN  /\ At(t, "stash")
      /\ Set(t, IF Room(t, l.nb) THEN FastLoad(l, av.fastbinsY[l.nb], "stash_take", done)
                                 ELSE done)
      /\ Private /\ UNCHANGED tcache

StashTake(t) ==
  LET l    == loc[t]
      head == av.fastbinsY[l.nb]
  IN  /\ At(t, "stash_take")
      /\ IF head = l.tc_victim
         THEN /\ av' = Popped(av, l.nb, l.tc_victim, l.pp)
              /\ tcache' = [tcache EXCEPT ![t] = tcache_put(@, head, l.nb)]
              /\ Set(t, Goto(l, "stash"))
         ELSE /\ Set(t, FastLoad(l, head, "stash_take", Return(l)))
              /\ UNCHANGED <<av, tcache>>
      /\ Inside

(* The last chunks of a small bin, one for the user.                       *)
SmallBin(t) ==
  LET l     == loc[t]
      i     == smallbin_index(l.nb)
      bin   == av.bins[i]
      room  == IF HasCache(t, l.nb) THEN world.tcache_count - Len(tcache[t].entries[l.nb])
                                    ELSE 0
      n     == 1 + Max({0, Min({room, Len(bin) - 1})})
      taken == SubSeq(bin, Len(bin) - n + 1, Len(bin))
      put   == Front(taken)
  IN  /\ At(t, "small") /\ in_smallbin_range(l.nb) /\ bin # <<>>
      /\ av' = [av EXCEPT
                  !.bins[i] = SubSeq(@, 1, Len(@) - n),
                  !.hdr = [w \in Words |->
                             IF w - l.nb \in ToSet(taken)
                             THEN [av.hdr[w] EXCEPT !.prev_inuse = TRUE, !.prev_size = 0]
                             ELSE av.hdr[w]]]
      /\ tcache' = IF put = <<>> THEN tcache
                   ELSE [tcache EXCEPT ![t].entries[l.nb] = put \o @]
      /\ Set(t, Got(l, Last(taken)))
      /\ Inside

NoSmallBin(t) ==
  LET l == loc[t]
  IN  /\ At(t, "small")
      /\ \/ /\ in_smallbin_range(l.nb) /\ av.bins[smallbin_index(l.nb)] = <<>>
            /\ Set(t, Goto(l, "unsorted"))
         \/ /\ ~in_smallbin_range(l.nb)
            /\ Set(t, IF av.have_fastchunks THEN Enter(l, "consolidate", "unsorted")
                                            ELSE Goto(l, "unsorted"))
      /\ Private /\ UNCHANGED tcache

(* malloc_printerr for an unsorted chunk.                                  *)
Unsortable(m, p) ==
  LET next == next_chunk(m, p)
  IN  \/ chunksize(m, p) <= CHUNK_HDR_SZ \/ chunksize(m, p) > m.system_mem
      \/ chunksize(m, next) < CHUNK_HDR_SZ \/ chunksize(m, next) > m.system_mem
      \/ m.hdr[next].prev_size # chunksize(m, p) \/ prev_inuse(m, next)

(* One turn of the loop over the unsorted chunks.                          *)
UnsortedTurn(t) ==
  LET l    == loc[t]
      p    == Last(av.unsorted)
      size == chunksize(av, p)
      m    == Check(av, Unsortable(av, p))
  IN  /\ At(t, "unsorted") /\ av.unsorted # <<>> /\ l.iters < MAX_ITERS
      /\ IF /\ in_smallbin_range(l.nb) /\ Len(av.unsorted) = 1
            /\ p = av.last_remainder /\ size > l.nb + MINSIZE
         THEN av' = Allotted(m, p, l.nb, TRUE) /\ Set(t, Got(l, p)) /\ UNCHANGED tcache
         ELSE IF size = l.nb
         THEN /\ av' = set_inuse_bit_at_offset([m EXCEPT !.unsorted = Front(@)], p, size)
              /\ IF Room(t, l.nb)
                 THEN /\ tcache' = [tcache EXCEPT ![t] = tcache_put(@, p, l.nb)]
                      /\ Set(t, [l EXCEPT !.return_cached = TRUE])
                 ELSE Set(t, Got(l, p)) /\ UNCHANGED tcache
         ELSE /\ av' = Binned(m, p)
              /\ IF /\ l.return_cached /\ world.tcache_unsorted_limit > 0
                    /\ l.unsorted_count + 1 > world.tcache_unsorted_limit
                 THEN /\ Set(t, Got(l, tcache[t].entries[l.nb][1]))
                      /\ tcache' = [tcache EXCEPT ![t] = tcache_get(@, l.nb)]
                 ELSE /\ Set(t, [l EXCEPT !.unsorted_count = @ + 1, !.iters = @ + 1])
                      /\ UNCHANGED tcache
      /\ Inside

UnsortedEnd(t) ==
  LET l == loc[t]
  IN  /\ At(t, "unsorted") /\ (av.unsorted = <<>> \/ l.iters >= MAX_ITERS)
      /\ IF l.return_cached
         THEN /\ Set(t, Got(l, tcache[t].entries[l.nb][1]))
              /\ tcache' = [tcache EXCEPT ![t] = tcache_get(@, l.nb)]
         ELSE Set(t, Goto(l, "bins")) /\ UNCHANGED tcache
      /\ Private

(* A large request looks into its own bin.                                 *)
OwnBinFits(l) ==
  LET bin == av.bins[bin_index(l.nb)]
  IN  ~in_smallbin_range(l.nb) /\ bin # <<>> /\ chunksize(av, bin[1]) >= l.nb

TakeFromOwnBin(t) ==
  LET l == loc[t]
      p == BestFit(av, av.bins[bin_index(l.nb)], l.nb)
  IN  /\ At(t, "bins") /\ OwnBinFits(l)
      /\ av' = Allotted(av, p, l.nb, FALSE) /\ Set(t, Got(l, p))
      /\ Inside /\ UNCHANGED tcache

(* The bins behind that are marked; marks of empty ones are wiped on the   *)
(* way to the first that is not empty.                                     *)
SearchBins(t) ==
  LET l      == loc[t]
      marked == {i \in av.binmap : i > bin_index(l.nb)}
      full   == {i \in marked : av.bins[i] # <<>>}
      wiped  == {i \in marked : \A j \in full : i < j}
      m      == [av EXCEPT !.binmap = @ \ wiped]
  IN  /\ At(t, "bins") /\ ~OwnBinFits(l)
      /\ IF full = {} THEN av' = m /\ Set(t, Goto(l, "top"))
         ELSE LET p == Last(av.bins[Min(full)])
              IN  /\ av' = Allotted(Check(m, chunksize(m, p) < l.nb), p, l.nb, TRUE)
                  /\ Set(t, Got(l, p))
      /\ Inside /\ UNCHANGED tcache

use_top(t) ==
  LET l    == loc[t]
      size == chunksize(av, av.top)
  IN  /\ At(t, "top")
      /\ IF size >= l.nb + MINSIZE
         THEN av' = TakenFromTop(Check(av, size > av.system_mem), l.nb) /\ Set(t, Got(l, av.top))
         ELSE /\ av' = Check(av, size > av.system_mem)
              /\ Set(t, IF av.have_fastchunks
                        THEN Enter([l EXCEPT !.iters = 0], "consolidate", "unsorted")
                        ELSE Goto(l, "sysmalloc"))
      /\ Inside /\ UNCHANGED tcache

-----------------------------------------------------------------------------
(* malloc_consolidate: the fastbins are emptied one after the other.       *)

malloc_consolidate(t) ==
  /\ At(t, "consolidate")
  /\ av' = [av EXCEPT !.have_fastchunks = FALSE]
  /\ Set(t, Goto([loc[t] EXCEPT !.fb = MINSIZE], "consolidate_bin"))
  /\ Inside /\ UNCHANGED tcache

ConsolidateBin(t) ==
  LET l == loc[t]
      Merged(s) ==
        IF s.p = NULL THEN s
        ELSE [m |-> Consolidated(Check([s.m EXCEPT !.fd[s.p] = NULL],
                                       chunksize(s.m, s.p) # l.fb), s.p),
              p |-> s.m.fd[s.p]]
      after[n \in 0 .. LIMIT \div MINSIZE] ==
        IF n = 0 THEN [m |-> [av EXCEPT !.fastbinsY[l.fb] = NULL], p |-> av.fastbinsY[l.fb]]
        ELSE Merged(after[n - 1])
  IN  /\ At(t, "consolidate_bin")
      /\ av' = after[LIMIT \div MINSIZE].m
      /\ Set(t, IF l.fb = Max(FastSizes) THEN Return([l EXCEPT !.fb = 0])
                ELSE [l EXCEPT !.fb = @ + MALLOC_ALIGNMENT])
      /\ Inside /\ UNCHANGED tcache

-----------------------------------------------------------------------------
(* sysmalloc: more memory from the system.                                 *)

(* Where mmap can put a region: `mapped' are those there are.              *)
Places(m, size) ==
  {a \in MMAP_START .. LIMIT + 1 - size :
     a % PAGE = 0 /\ \A r \in m.mapped : a + size <= r.lo \/ r.hi <= a}

MMAP(m, size) == Min(Places(m, size))

Region(lo, size) == [lo |-> lo, hi |-> lo + size]

(* What the system can answer to sbrk, and to mmap when sbrk fails.        *)
Answers(m, size, mapsize) ==
  LET can == (IF m.brk + size <= MMAP_START THEN {"sbrk", "short"} ELSE {})
             \cup (IF Places(m, mapsize) # {} THEN {"mmap"} ELSE {})
      may == can \cap world.morecore
  IN  IF may = {} THEN {"none"} ELSE may \cup ({"none"} \cap world.morecore)

MapsDirectly(nb) == nb >= av.mmap_threshold /\ av.n_mmaps < world.n_mmaps_max

(* A region for this request alone.                                        *)
SysMap(t) ==
  LET l    == loc[t]
      size == ALIGN_UP(l.nb + 1, PAGE)
      p    == MMAP(av, size)
  IN  /\ At(t, "sysmalloc") /\ MapsDirectly(l.nb) /\ Places(av, size) # {}
      /\ av' = [av EXCEPT !.n_mmaps = @ + 1, !.mapped = @ \cup {Region(p, size)},
                          !.hdr[p] = [Nothing EXCEPT !.size = size, !.mmapped = TRUE]]
      /\ Set(t, Got(l, p))
      /\ Inside /\ UNCHANGED tcache

(* The heap grows by `size': the arena, and the limits of the new top.  In *)
(* a heap that is contiguous memory of others is counted as the arena's,   *)
(* and a second sbrk, which may fail, fills up the page.  Nobody moves the *)
(* break between the two: the code assumes so, in a comment.               *)
Sbrk(m, size, short) ==
  LET osize == chunksize(m, m.top)
      end   == m.top + osize
      front == m.brk % MALLOC_ALIGNMENT
      want  == ALIGN_UP(m.brk + size + front + osize, PAGE) - m.brk - size
      more  == IF short \/ m.brk + size + want > MMAP_START THEN 0 ELSE want
      Raised(n, gap) ==
        [m EXCEPT !.brk = @ + n, !.high = Max({@, m.brk + n}),
                  !.system_mem = @ + n + gap,
                  !.sbrk_base = IF @ = NULL THEN m.brk ELSE @]
  IN  IF m.brk = end THEN [m |-> Raised(size, 0), lo |-> m.top, hi |-> end + size]
      ELSE IF m.contiguous
      THEN [m  |-> Check(Raised(size + more, IF osize = 0 THEN 0 ELSE m.brk - end),
                         osize # 0 /\ m.brk < end),
            lo |-> m.brk + front, hi |-> m.brk + size + more]
      ELSE [m  |-> Check(Raised(size, 0), front # 0),
            lo |-> m.brk, hi |-> m.brk + size]

(* A region of mmap instead; the heap is not contiguous from now on.       *)
MapInstead(m, size) ==
  LET lo == MMAP(m, size)
  IN  [m  |-> [m EXCEPT !.mapped = @ \cup {Region(lo, size)}, !.contiguous = FALSE,
                        !.system_mem = @ + size,
                        !.sbrk_base = IF @ = NULL THEN lo ELSE @],
       lo |-> lo, hi |-> lo + size]

(* The assertions about the old top, but for that of CheckEnd.             *)
TopUnfit(m, nb) ==
  LET size == chunksize(m, m.top)
  IN  \/ (m.top # NULL /\ (size < MINSIZE \/ ~prev_inuse(m, m.top)))
      \/ size >= nb + MINSIZE

(* MORECORE; system_mem is raised before the new top has a header.         *)
sysmalloc(t) ==
  LET l       == loc[t]
      osize   == chunksize(av, av.top)
      off     == IF av.contiguous THEN osize ELSE 0
      size    == ALIGN_UP(l.nb + world.top_pad + MINSIZE - off, PAGE)
      mapsize == Max({ALIGN_UP(size + off, PAGE), MMAP_AS_MORECORE_SIZE})
      m       == CheckEnd(Check(av, TopUnfit(av, l.nb)))
      Grown(g) == av' = g.m /\ Set(t, Goto([l EXCEPT !.lo = g.lo, !.hi = g.hi], "sys_top"))
  IN  /\ At(t, "sysmalloc")
      /\ \/ ~MapsDirectly(l.nb)
         \/ Places(av, ALIGN_UP(l.nb + 1, PAGE)) = {} \/ "none" \in world.morecore
      /\ \E answer \in Answers(av, size, mapsize) :
           \/ answer \in {"sbrk", "short"} /\ Grown(Sbrk(m, size, answer = "short"))
           \/ answer = "mmap" /\ Grown(MapInstead(m, mapsize))
           \/ answer = "none" /\ av' = m /\ Set(t, Goto(l, "sys_done"))
      /\ Inside /\ UNCHANGED tcache

(* top is extended, or there is a new one; then two fenceposts end the     *)
(* old one, and what is left of it is freed.                               *)
SysTop(t) ==
  LET l     == loc[t]
      old   == av.top
      rest  == ALIGN_DOWN(chunksize(av, old) - 2 * CHUNK_HDR_SZ, MALLOC_ALIGNMENT)
      fresh == set_head([av EXCEPT !.top = l.lo], l.lo, l.hi - l.lo)
      ended == set_head(set_head(set_head(fresh, old, rest), old + rest, CHUNK_HDR_SZ),
                        old + rest + CHUNK_HDR_SZ, CHUNK_HDR_SZ)
      done  == [l EXCEPT !.lo = 0, !.hi = 0]
  IN  /\ At(t, "sys_top")
      /\ \/ /\ l.lo = old
            /\ av' = set_head(av, old, l.hi - old) /\ Set(t, Goto(done, "sys_done"))
         \/ /\ l.lo # old /\ old = NULL
            /\ av' = fresh /\ Set(t, Goto(done, "sys_done"))
         \/ /\ l.lo # old /\ old # NULL /\ av' = ended
            /\ Set(t, IF rest < MINSIZE THEN Goto(done, "sys_done")
                      ELSE Enter([done EXCEPT !.p = old, !.have_lock = TRUE,
                                              !.own = @ \cup {old}], "int_free", "sys_done"))
      /\ Inside /\ UNCHANGED tcache

SysDone(t) ==
  LET l == loc[t]
      m == [av EXCEPT !.max_system_mem = Max({@, av.system_mem})]
  IN  /\ At(t, "sys_done")
      /\ IF chunksize(m, m.top) >= l.nb + MINSIZE
         THEN av' = TakenFromTop(m, l.nb) /\ Set(t, Got(l, m.top))
         ELSE av' = m /\ Set(t, NotGot(l))
      /\ Inside /\ UNCHANGED tcache

-----------------------------------------------------------------------------
(* systrim: whole pages of top are given back; `pad' stays.                *)

(* The comparison is unsigned: a top of MINSIZE is not taken for a small   *)
(* one, and what it gives back is then negative.  Nobody moves the break   *)
(* between the three calls of sbrk that ask, release and ask again.        *)
systrim(t) ==
  LET l     == loc[t]
      area  == chunksize(av, av.top) - MINSIZE - 1
      extra == ALIGN_DOWN(area - l.pad, PAGE)
  IN  /\ At(t, "systrim")
      /\ IF \/ area \in 0 .. l.pad \/ extra = 0
            \/ av.brk # av.top + chunksize(av, av.top)
            \/ av.brk - extra > MMAP_START
         THEN Set(t, Return(l)) /\ UNCHANGED av
         ELSE /\ av' = [av EXCEPT !.brk = @ - extra, !.system_mem = @ - extra,
                                  !.high = Max({@, av.brk - extra})]
              /\ Set(t, Goto([l EXCEPT !.hi = av.brk - extra], "trim_top"))
      /\ Inside /\ UNCHANGED tcache

TrimTop(t) ==
  LET l == loc[t]
  IN  /\ At(t, "trim_top")
      /\ av' = set_head(av, av.top, l.hi - av.top)
      /\ Set(t, Return([l EXCEPT !.hi = 0]))
      /\ Inside /\ UNCHANGED tcache

-----------------------------------------------------------------------------
(* free.                                                                   *)

(* The region of a chunk of mmap's own is given back.                      *)
munmap_chunk(m, p) ==
  LET block == p - m.hdr[p].prev_size
      total == m.hdr[p].prev_size + chunksize(m, p)
      mem   == (p + CHUNK_HDR_SZ) % PAGE
  IN  Check([m EXCEPT !.n_mmaps = @ - 1, !.hdr[p] = Nothing,
                      !.mapped = @ \ {Region(block, total)}],
            \/ block % PAGE # 0 \/ total % PAGE # 0
            \/ mem \notin {0} \cup {2 ^ i : i \in 0 .. PAGE})

(* The thresholds follow the largest region that has been given back; the  *)
(* size is compared with its flag in it.                                   *)
Adjusted(m, size) ==
  IF size >= m.mmap_threshold /\ size < DEFAULT_MMAP_THRESHOLD_MAX
  THEN [m EXCEPT !.mmap_threshold = size, !.trim_threshold = 2 * size]
  ELSE m

__libc_free(t) ==
  LET l == loc[t]
  IN  /\ At(t, "free")
      /\ IF l.p # NULL /\ chunk_is_mmapped(av, l.p)
         THEN /\ av' = munmap_chunk(Adjusted(av, chunksize(av, l.p)), l.p)
              /\ Set(t, Return([l EXCEPT !.own = @ \ {l.p}, !.p = NULL]))
         ELSE /\ Set(t, IF l.p = NULL THEN Return(l)
                        ELSE WithCache(t, [l EXCEPT !.have_lock = FALSE], "int_free"))
              /\ UNCHANGED av
      /\ Inside /\ UNCHANGED tcache

(* The chunk behind cannot be one: the size it seems to have.              *)
NextUnfit(m, p) ==
  Tiny(m, next_chunk(m, p)) \/ chunksize(m, next_chunk(m, p)) >= m.system_mem

(* P->FD = old, for a chunk that goes to the fastbin with that head.       *)
Pointed(m, p) ==
  LET head == m.fastbinsY[chunksize(m, p)]
  IN  Check([m EXCEPT !.fd[p] = head], head = p)

(* A chunk for the cache, for a fastbin, or to be merged.  Without the     *)
(* mutex a size that looks wrong is looked at again with it.               *)
_int_free(t) ==
  LET l    == loc[t]
      size == chunksize(av, l.p)
      m    == Check(av, \/ size < MINSIZE \/ size % MALLOC_ALIGNMENT # 0
                        \/ HasCache(t, size) /\ l.p \in ToSet(tcache[t].entries[size]))
      Fast == [m EXCEPT !.have_fastchunks = TRUE]
  IN  /\ At(t, "int_free")
      /\ \/ /\ Room(t, size)
            /\ av' = m
            /\ tcache' = [tcache EXCEPT ![t] = tcache_put(@, l.p, size)]
            /\ Set(t, Return([l EXCEPT !.own = @ \ {l.p}, !.p = NULL]))
         \/ /\ ~Room(t, size) /\ size <= global_max_fast
            /\ IF NextUnfit(m, l.p) /\ ~l.have_lock
               THEN av' = m /\ Set(t, Goto(l, "fast_recheck"))
               ELSE /\ av' = Pointed(Check(Fast, NextUnfit(m, l.p)), l.p)
                    /\ Set(t, Goto(l, "fast_push"))
            /\ UNCHANGED tcache
         \/ /\ ~Room(t, size) /\ size > global_max_fast
            /\ av' = m /\ Set(t, Goto(l, "merge"))
            /\ UNCHANGED tcache
      /\ Inside

(* Slip: the test is not done again.                                       *)
FastGiveUp(t) ==
  /\ At(t, "fast_recheck") /\ mutex = NULL
  /\ av' = Check(av, TRUE) /\ Set(t, Goto(loc[t], "fast_push"))
  /\ Inside /\ UNCHANGED tcache

(* The mutex is released at once; then have_fastchunks is set.             *)
FastRecheck(t) ==
  LET l == loc[t]
  IN  /\ At(t, "fast_recheck") /\ mutex = NULL
      /\ av' = Pointed(Check([av EXCEPT !.have_fastchunks = TRUE], NextUnfit(av, l.p)), l.p)
      /\ Set(t, Goto(l, "fast_push"))
      /\ Inside /\ UNCHANGED tcache

(* Slip: a plain store, as if there were no other thread.                  *)
FastStore(t) ==
  LET l == loc[t]
  IN  /\ At(t, "fast_push")
      /\ av' = [av EXCEPT !.fastbinsY[chunksize(av, l.p)] = l.p]
      /\ Set(t, Return([l EXCEPT !.own = @ \ {l.p}, !.p = NULL]))
      /\ Inside /\ UNCHANGED tcache

(* catomic_compare_and_exchange_val_rel, and again if it fails.            *)
FastPush(t) ==
  LET l    == loc[t]
      size == chunksize(av, l.p)
      old  == av.fastbinsY[size]
      odd  == l.have_lock /\ old # NULL /\ chunksize(av, old) # size
  IN  /\ At(t, "fast_push")
      /\ IF old = av.fd[l.p]
         THEN /\ av' = Check([av EXCEPT !.fastbinsY[size] = l.p], odd)
              /\ Set(t, Return([l EXCEPT !.own = @ \ {l.p}, !.p = NULL]))
         ELSE av' = Pointed(av, l.p) /\ UNCHANGED loc
      /\ Inside /\ UNCHANGED tcache

(* What would show that this is no chunk in use.                           *)
Unfreeable(m, p) ==
  \/ p = m.top
  \/ m.contiguous /\ next_chunk(m, p) >= m.top + chunksize(m, m.top)
  \/ ~inuse(m, p)
  \/ NextUnfit(m, p)

(* A large chunk that comes of it has the fastbins consolidated, and top   *)
(* looked at; else the mutex is released at once.                          *)
Merge(t) ==
  LET l    == loc[t]
      done == [l EXCEPT !.own = @ \ {l.p}, !.p = NULL]
  IN  /\ At(t, "merge") /\ (l.have_lock \/ mutex = NULL)
      /\ av' = Consolidated(Check(av, Unfreeable(av, l.p)), l.p)
      /\ IF MergedSize(av, l.p) < FASTBIN_CONSOLIDATION_THRESHOLD
         THEN Set(t, Return(done)) /\ UNCHANGED mutex
         ELSE /\ mutex' = t
              /\ Set(t, IF av.have_fastchunks THEN Enter(done, "consolidate", "free_trim")
                                              ELSE Goto(done, "free_trim"))
      /\ UNCHANGED <<world, tcache, held, calls>>

FreeTrim(t) ==
  LET l == loc[t]
  IN  /\ At(t, "free_trim")
      /\ Set(t, IF chunksize(av, av.top) >= av.trim_threshold
                THEN Enter([l EXCEPT !.pad = world.top_pad], "systrim", "free_done")
                ELSE Goto(l, "free_done"))
      /\ Private /\ UNCHANGED tcache

FreeDone(t) ==
  /\ At(t, "free_done")
  /\ IF loc[t].have_lock THEN UNCHANGED mutex ELSE Unlock(t)
  /\ Set(t, Return(loc[t]))
  /\ UNCHANGED <<world, av, tcache, held, calls>>

-----------------------------------------------------------------------------
(* realloc.                                                                *)

(* `need' is what the old block was asked for, and its words to keep.      *)
__libc_realloc(t) ==
  LET l == loc[t]
  IN  /\ At(t, "realloc")
      /\ Set(t, IF l.oldp = NULL THEN Goto(l, "malloc")
                ELSE IF l.bytes = 0
                THEN Goto([l EXCEPT !.p = l.oldp, !.oldp = NULL], "free")
                ELSE IF chunk_is_mmapped(av, l.oldp) THEN Goto(l, "realloc_size")
                ELSE WithCache(t, l, "realloc_size"))
      /\ Private /\ UNCHANGED tcache

ReallocSize(t) ==
  LET l == loc[t]
  IN  /\ At(t, "realloc_size")
      /\ Set(t, IF l.bytes > PTRDIFF_MAX THEN NotGot(l)
                ELSE Goto([l EXCEPT !.nb = request2size(l.bytes)],
                          IF chunk_is_mmapped(av, l.oldp) THEN "remap" ELSE "realloc_lock"))
      /\ Private /\ UNCHANGED tcache

(* mremap may move the region.  The checks that mremap_chunk and realloc   *)
(* make of the pointer are left out: no client has one that fails them.    *)
mremap_chunk(m, p, nb) ==
  LET offset == m.hdr[p].prev_size
      total  == offset + chunksize(m, p)
      size   == ALIGN_UP(nb + offset + 1, PAGE)
      rest   == [m EXCEPT !.mapped = @ \ {Region(p - offset, total)}]
      to     == MMAP(rest, size)
  IN  [at |-> to + offset,
       m  |-> [rest EXCEPT !.mapped = @ \cup {Region(to, size)},
                           !.hdr[p] = Nothing,
                           !.hdr[to + offset] = [m.hdr[p] EXCEPT !.size = size - offset]]]

Remap(t) ==
  LET l      == loc[t]
      p      == l.oldp
      offset == av.hdr[p].prev_size
      size   == ALIGN_UP(l.nb + offset + 1, PAGE)
      same   == size = offset + chunksize(av, p)
      rest   == [av EXCEPT !.mapped = {r \in @ : r.lo # p - offset}]
      moved  == mremap_chunk(av, p, l.nb)
  IN  /\ At(t, "remap")
      /\ \/ same /\ Set(t, Got(l, p)) /\ UNCHANGED av
         \/ /\ ~same /\ Places(rest, size) # {}
            /\ av' = moved.m
            /\ Set(t, Got([l EXCEPT !.own = @ \ {p}, !.copied = Min({musable(av, p),
                                                                    musable(moved.m, moved.at)})],
                           moved.at))
         \/ /\ ~same /\ ("none" \in world.morecore \/ Places(rest, size) = {})
            /\ Set(t, IF chunksize(av, p) - 1 >= l.nb THEN Got(l, p)
                      ELSE Enter(l, "malloc", "realloc_copy"))
            /\ UNCHANGED av
      /\ Inside /\ UNCHANGED tcache

(* All that the old region holds is copied.                                *)
ReallocCopy(t) ==
  LET l == loc[t]
  IN  /\ At(t, "realloc_copy")
      /\ IF l.victim = NULL THEN Set(t, Return(l)) /\ UNCHANGED av
         ELSE /\ av' = munmap_chunk(av, l.oldp)
              /\ Set(t, Return([l EXCEPT !.copied = chunksize(av, l.oldp) - CHUNK_HDR_SZ,
                                         !.own = @ \ {l.oldp}]))
      /\ Inside /\ UNCHANGED tcache

ReallocLock(t) ==
  /\ At(t, "realloc_lock") /\ Lock(t)
  /\ Set(t, Enter(loc[t], "int_realloc", "realloc_unlock"))
  /\ UNCHANGED <<world, av, tcache, held, calls>>

(* The room behind what is needed is freed, if it is a chunk's.            *)
Trimmed(t, m, l, newp, newsize) ==
  LET rest == newsize - l.nb
      part == set_inuse_bit_at_offset(
                set_head(set_head_size(m, newp, l.nb), newp + l.nb, rest), newp + l.nb, rest)
  IN  IF rest < MINSIZE
      THEN /\ av' = set_inuse_bit_at_offset(set_head_size(m, newp, newsize), newp, newsize)
           /\ Set(t, Got(l, newp))
      ELSE /\ av' = part
           /\ Set(t, Goto([l EXCEPT !.p = newp + l.nb, !.have_lock = TRUE, !.victim = newp,
                                    !.own = @ \cup {newp, newp + l.nb}], "int_free"))

_int_realloc(t) ==
  LET l       == loc[t]
      oldp    == l.oldp
      oldsize == chunksize(av, oldp)
      next    == next_chunk(av, oldp)
      size    == oldsize + chunksize(av, next)
      m       == Check(av, \/ Tiny(av, oldp) \/ oldsize >= av.system_mem
                           \/ NextUnfit(av, oldp))
      free    == next # av.top /\ ~inuse(av, next)
      fits    == \/ oldsize >= l.nb
                 \/ next = av.top /\ size >= l.nb + MINSIZE
                 \/ free /\ size >= l.nb
  IN  /\ At(t, "int_realloc")
      /\ \/ oldsize >= l.nb /\ Trimmed(t, m, l, oldp, oldsize)
         \/ /\ oldsize < l.nb /\ next = av.top /\ size >= l.nb + MINSIZE
            /\ av' = set_head([set_head_size(Absorbed(m, next), oldp, l.nb) EXCEPT
                                 !.top = oldp + l.nb], oldp + l.nb, size - l.nb)
            /\ Set(t, Got(l, oldp))
         \/ /\ oldsize < l.nb /\ free /\ size >= l.nb
            /\ Trimmed(t, Absorbed(unlink_chunk(m, next), next), l, oldp, size)
         \/ ~fits /\ av' = m /\ Set(t, Enter(l, "int_malloc", "realloc_moved"))
      /\ Inside /\ UNCHANGED tcache

(* A chunk of the same nb, elsewhere; or the next one, by chance.          *)
ReallocMoved(t) ==
  LET l    == loc[t]
      oldp == l.oldp
      size == chunksize(av, oldp)
      p    == l.victim
  IN  /\ At(t, "realloc_moved")
      /\ \/ p = NULL /\ Set(t, NotGot(l)) /\ UNCHANGED av
         \/ /\ p # NULL /\ p = oldp + size
            /\ Trimmed(t, Absorbed(av, p), [l EXCEPT !.own = @ \ {p}], oldp,
                       size + chunksize(av, p))
         \/ /\ p # NULL /\ p # oldp + size
            /\ Set(t, Goto([l EXCEPT !.copied = size - 1, !.p = oldp, !.have_lock = TRUE],
                           "int_free"))
            /\ UNCHANGED av
      /\ Inside /\ UNCHANGED tcache

ReallocUnlock(t) ==
  LET l == loc[t]
  IN  /\ At(t, "realloc_unlock") /\ Unlock(t)
      /\ Set(t, IF l.victim = NULL THEN Enter(l, "malloc", "realloc_elsewhere")
                                   ELSE Return(l))
      /\ UNCHANGED <<world, av, tcache, held, calls>>

ReallocElsewhere(t) ==
  LET l == loc[t]
  IN  /\ At(t, "realloc_elsewhere")
      /\ Set(t, IF l.victim = NULL THEN Return(l)
                ELSE Goto([l EXCEPT !.copied = chunksize(av, l.oldp) - 1, !.p = l.oldp,
                                    !.have_lock = FALSE], "int_free"))
      /\ Private /\ UNCHANGED tcache

-----------------------------------------------------------------------------
(* memalign, valloc, pvalloc.                                              *)

(* A power of two, and a chunk's size at least.                            *)
Alignment(n) == Min({a \in {2 ^ i : i \in 2 .. n + 2} : a >= n})

_mid_memalign(t) ==
  LET l == loc[t]
  IN  /\ At(t, "memalign")
      /\ Set(t, IF l.alignment <= MALLOC_ALIGNMENT THEN Goto(l, "malloc")
                ELSE Goto([l EXCEPT !.alignment = Alignment(l.alignment)], "memalign_lock"))
      /\ Private /\ UNCHANGED tcache

(* _int_memalign asks for the worst case.                                  *)
_int_memalign(t) ==
  LET l    == loc[t]
      most == request2size(l.bytes) + l.alignment + MINSIZE
  IN  /\ At(t, "memalign_lock") /\ Lock(t)
      /\ Set(t, IF l.bytes > PTRDIFF_MAX \/ most > PTRDIFF_MAX
                THEN Goto([l EXCEPT !.victim = NULL], "memalign_done")
                ELSE Enter([l EXCEPT !.nb = request2size(most)], "int_malloc",
                           "memalign_lead"))
      /\ UNCHANGED <<world, av, tcache, held, calls>>

(* The leader is freed, unless it is mmap's: then the offset tells of it.  *)
MemalignLead(t) ==
  LET l       == loc[t]
      p       == l.victim
      m       == p + CHUNK_HDR_SZ
      brk     == ALIGN_UP(m, l.alignment) - CHUNK_HDR_SZ
      newp    == IF brk - p < MINSIZE THEN brk + l.alignment ELSE brk
      lead    == newp - p
      newsize == chunksize(av, p) - lead
      mapped  == [av EXCEPT !.hdr[p] = Nothing,
                            !.hdr[newp] = [av.hdr[p] EXCEPT !.size = newsize,
                                                            !.prev_size = @ + lead]]
      split   == set_head_size(set_inuse_bit_at_offset(set_head(av, newp, newsize),
                                                       newp, newsize), p, lead)
  IN  /\ At(t, "memalign_lead")
      /\ \/ p = NULL /\ Set(t, Goto(l, "memalign_done")) /\ UNCHANGED av
         \/ /\ p # NULL /\ m % l.alignment = 0
            /\ Set(t, Goto(l, "memalign_rest")) /\ UNCHANGED av
         \/ /\ p # NULL /\ m % l.alignment # 0
            /\ IF chunk_is_mmapped(av, p)
               THEN /\ av' = mapped
                    /\ Set(t, Goto([l EXCEPT !.victim = newp, !.own = {newp}],
                                   "memalign_done"))
               ELSE /\ av' = Check(split, newsize < request2size(l.bytes))
                    /\ Set(t, Enter([l EXCEPT !.victim = newp, !.p = p, !.have_lock = TRUE,
                                              !.own = {p, newp}], "int_free", "memalign_rest"))
      /\ Inside /\ UNCHANGED tcache

(* So is the room behind.                                                  *)
MemalignRest(t) ==
  LET l    == loc[t]
      p    == l.victim
      nb   == request2size(l.bytes)
      rest == chunksize(av, p) - nb
  IN  /\ At(t, "memalign_rest")
      /\ IF ~chunk_is_mmapped(av, p) /\ rest > MINSIZE
         THEN /\ av' = set_head_size(set_head(av, p + nb, rest), p, nb)
              /\ Set(t, Enter([l EXCEPT !.p = p + nb, !.have_lock = TRUE,
                                        !.own = @ \cup {p + nb}], "int_free", "memalign_done"))
         ELSE Set(t, Goto(l, "memalign_done")) /\ UNCHANGED av
      /\ Inside /\ UNCHANGED tcache

MemalignDone(t) ==
  LET l == loc[t]
  IN  /\ At(t, "memalign_done") /\ Unlock(t)
      /\ Set(t, IF l.victim = NULL /\ ~l.tried
                THEN Goto([l EXCEPT !.tried = TRUE], "memalign_lock")
                ELSE Return(l))
      /\ UNCHANGED <<world, av, tcache, held, calls>>

(* rounded_bytes; the byte that its mask adds is lost in request2size.     *)
__libc_pvalloc(t) ==
  LET l == loc[t]
  IN  /\ At(t, "pvalloc")
      /\ Set(t, Goto([l EXCEPT !.alignment = PAGE, !.bytes = ALIGN_UP(@, PAGE)], "memalign"))
      /\ Private /\ UNCHANGED tcache

-----------------------------------------------------------------------------
(* calloc.                                                                 *)

__libc_calloc(t) ==
  /\ At(t, "calloc")
  /\ Set(t, WithCache(t, loc[t], "calloc_lock"))
  /\ Private /\ UNCHANGED tcache

(* Slip: only top itself is taken for used memory.                         *)
OldTopSizeNow(m) == chunksize(m, m.top)

(* How far the memory from top on has been used already; unsigned.         *)
OldTopSize(m) ==
  Max({chunksize(m, m.top), (m.sbrk_base + m.max_system_mem - m.top + WORD) % WORD})

CallocLock(t) ==
  LET l    == loc[t]
      seen == [l EXCEPT !.oldtop = av.top, !.oldtopsize = OldTopSize(av), !.high = av.high,
                        !.nb = request2size(l.bytes)]
  IN  /\ At(t, "calloc_lock") /\ mutex = NULL
      /\ IF l.bytes > PTRDIFF_MAX
         THEN Set(t, NotGot(l)) /\ UNCHANGED mutex
         ELSE mutex' = t /\ Set(t, Enter(seen, "int_malloc", "calloc_done"))
      /\ UNCHANGED <<world, av, tcache, held, calls>>

(* A second try keeps oldtop.                                              *)
CallocDone(t) ==
  LET l == loc[t]
  IN  /\ At(t, "calloc_done") /\ Unlock(t)
      /\ Set(t, IF l.victim = NULL
                THEN IF l.tried THEN Return(l)
                     ELSE Goto([l EXCEPT !.tried = TRUE], "calloc_again")
                ELSE Goto(l, "clear"))
      /\ UNCHANGED <<world, av, tcache, held, calls>>

CallocAgain(t) ==
  /\ At(t, "calloc_again") /\ Lock(t)
  /\ Set(t, Enter(loc[t], "int_malloc", "calloc_done"))
  /\ UNCHANGED <<world, av, tcache, held, calls>>

(* `clean' is how many words are 0 then: those that have been cleared, and *)
(* all if the others are in memory that the heap had never had before.     *)
Clear(t) ==
  LET l     == loc[t]
      p     == l.victim
      csz   == chunksize(av, p)
      size  == IF p = l.oldtop /\ csz > l.oldtopsize THEN l.oldtopsize ELSE csz
      clear == size - 1
      all   == chunk_is_mmapped(av, p) \/ p + CHUNK_HDR_SZ + clear >= l.high
  IN  /\ At(t, "clear")
      /\ av' = Check(av, ~chunk_is_mmapped(av, p) /\ clear < 3)
      /\ Set(t, Return([l EXCEPT !.clean = IF all THEN musable(av, p) ELSE clear]))
      /\ Inside /\ UNCHANGED tcache

-----------------------------------------------------------------------------
(* malloc_trim, and the end of a thread.                                   *)

(* mtrim: what madvise does to the pages of free chunks is left out.       *)
__malloc_trim(t) ==
  /\ At(t, "trim") /\ Lock(t)
  /\ Set(t, Enter(loc[t], "consolidate", "trim_sys"))
  /\ UNCHANGED <<world, av, tcache, held, calls>>

TrimSys(t) ==
  /\ At(t, "trim_sys")
  /\ Set(t, Enter([loc[t] EXCEPT !.pad = loc[t].bytes], "systrim", "trim_done"))
  /\ Private /\ UNCHANGED tcache

TrimDone(t) ==
  /\ At(t, "trim_done") /\ Unlock(t)
  /\ Set(t, Return(loc[t]))
  /\ UNCHANGED <<world, av, tcache, held, calls>>

(* The cache is disabled first; `oldp' is tcache_tmp.                      *)
tcache_thread_shutdown(t) ==
  LET at == tcache[t].at
  IN  /\ At(t, "exit")
      /\ tcache' = [tcache EXCEPT ![t].at = NULL, ![t].shutting_down = TRUE]
      /\ Set(t, Goto([loc[t] EXCEPT !.oldp = at, !.own = {at}], "drain"))
      /\ Private

(* One entry after the other is freed, and then the cache itself.          *)
Drain(t) ==
  LET l    == loc[t]
      left == {s \in TcSizes : tcache[t].entries[s] # <<>>}
      size == Min(left)
      p    == tcache[t].entries[size][1]
  IN  /\ At(t, "drain")
      /\ IF left = {}
         THEN Set(t, Goto([l EXCEPT !.p = l.oldp, !.oldp = NULL], "free")) /\ UNCHANGED tcache
         ELSE /\ tcache' = [tcache EXCEPT ![t] = tcache_get(@, size)]
              /\ Set(t, Enter([l EXCEPT !.p = p, !.own = @ \cup {p}], "free", "drain"))
      /\ Private

-----------------------------------------------------------------------------
(* The clients, who free and resize only what they hold, once.             *)

Call(t) ==
  LET now == world.plan[calls + 1]
      Begin(op, bytes) == [Idle EXCEPT !.pc = op, !.op = op, !.stack = <<"answer">>,
                                       !.bytes = bytes]
  IN  /\ At(t, "idle") /\ calls < Len(world.plan) /\ calls' = calls + 1
      /\ t \in now.threads
      /\ \/ /\ \/ \E op \in {"malloc", "calloc", "pvalloc", "realloc"} \cap now.ops,
                     n \in now.sizes : Set(t, Begin(op, n))
               \/ /\ "memalign" \in now.ops
                  /\ \E n \in now.sizes, a \in world.alignments :
                       Set(t, [Begin("memalign", n) EXCEPT !.alignment = a])
               \/ "trim" \in now.ops /\ Set(t, Begin("trim", 0))
               \/ "exit" \in now.ops /\ tcache[t].at # NULL /\ Set(t, Begin("exit", 0))
            /\ UNCHANGED held
         \/ \E h \in held :
              /\ held' = held \ {h}
              /\ \/ /\ "free" \in now.ops
                    /\ Set(t, [Begin("free", 0) EXCEPT !.p = h.p, !.own = {h.p}])
                 \/ /\ "realloc" \in now.ops
                    /\ \E n \in now.sizes \cup {0} :
                         Set(t, [Begin("realloc", n) EXCEPT !.oldp = h.p, !.need = h.bytes,
                                                            !.own = {h.p}])
      /\ UNCHANGED <<world, av, mutex, tcache>>

(* A realloc that fails leaves the old block to its owner.                 *)
Answer(t) ==
  LET l == loc[t]
  IN  /\ At(t, "answer")
      /\ held' = held \cup (IF l.victim # NULL THEN {[p |-> l.victim, bytes |-> l.bytes]}
                            ELSE IF l.op = "realloc" /\ l.oldp # NULL
                            THEN {[p |-> l.oldp, bytes |-> l.need]} ELSE {})
      /\ Set(t, Idle)
      /\ UNCHANGED <<world, av, mutex, tcache, calls>>

(* Somebody else in the process moves the break, once.  It is done here    *)
(* when the next step is one that looks at the break: before, nothing      *)
(* depends on it.                                                          *)
ForeignSbrk ==
  /\ world.foreign > 0 /\ av.brk + world.foreign <= MMAP_START
  /\ \E t \in Threads : At(t, "sysmalloc") \/ At(t, "systrim")
  /\ world' = [world EXCEPT !.foreign = 0]
  /\ av' = [av EXCEPT !.brk = @ + world.foreign, !.high = Max({@, av.brk + world.foreign}),
                      !.alien = av.brk .. av.brk + world.foreign - 1]
  /\ UNCHANGED <<mutex, tcache, loc, held, calls>>

(* There is nothing left to do, or malloc has ended the process.           *)
Finished ==
  /\ \/ Stopped(av)
     \/ calls = Len(world.plan) /\ \A t \in Threads : loc[t].pc = "idle"
  /\ UNCHANGED vars

Init ==
  /\ world \in Worlds
  /\ av = malloc_init_state /\ mutex = NULL
  /\ tcache = [t \in Threads |-> NoCache] /\ loc = [t \in Threads |-> Idle]
  /\ held = {} /\ calls = 0

Take(t) ==
  \/ _int_malloc(t) \/ FastTake(t) \/ Stash(t) \/ StashTake(t) \/ SmallBin(t) \/ NoSmallBin(t)
  \/ UnsortedTurn(t) \/ UnsortedEnd(t) \/ TakeFromOwnBin(t) \/ SearchBins(t) \/ use_top(t)
  \/ malloc_consolidate(t) \/ ConsolidateBin(t)
  \/ SysMap(t) \/ sysmalloc(t) \/ SysTop(t) \/ SysDone(t)

Give(t) ==
  \/ __libc_free(t) \/ _int_free(t) \/ FastRecheck(t) \/ FastPush(t) \/ Merge(t)
  \/ FreeTrim(t) \/ FreeDone(t) \/ systrim(t) \/ TrimTop(t)
  \/ __malloc_trim(t) \/ TrimSys(t) \/ TrimDone(t) \/ tcache_thread_shutdown(t) \/ Drain(t)

Wrapper(t) ==
  \/ tcache_init(t) \/ TcacheDone(t)
  \/ __libc_malloc(t) \/ MallocCached(t) \/ MallocLock(t) \/ MallocDone(t)
  \/ __libc_realloc(t) \/ ReallocSize(t) \/ Remap(t) \/ ReallocCopy(t) \/ ReallocLock(t)
  \/ _int_realloc(t) \/ ReallocMoved(t) \/ ReallocUnlock(t) \/ ReallocElsewhere(t)
  \/ _mid_memalign(t) \/ _int_memalign(t) \/ MemalignLead(t) \/ MemalignRest(t)
  \/ MemalignDone(t) \/ __libc_pvalloc(t)
  \/ __libc_calloc(t) \/ CallocLock(t) \/ CallocDone(t) \/ CallocAgain(t) \/ Clear(t)

Next ==
  \/ \E t \in Threads : Call(t) \/ Wrapper(t) \/ Take(t) \/ Give(t) \/ Answer(t)
  \/ ForeignSbrk \/ Finished

Spec == Init /\ [][Next]_vars

-----------------------------------------------------------------------------
(* The assertions of a build with MALLOC_DEBUG, as a predicate.            *)

do_check_chunk(m, p) ==
  LET max_address == m.top + chunksize(m, m.top)
      min_address == max_address - m.system_mem
  IN  IF chunk_is_mmapped(m, p)
      THEN /\ m.contiguous /\ m.top # NULL => p < min_address \/ p >= max_address
           /\ (m.hdr[p].prev_size + chunksize(m, p)) % PAGE = 0
           /\ p % MALLOC_ALIGNMENT = 0
      ELSE IF p = m.top THEN chunksize(m, p) >= MINSIZE /\ prev_inuse(m, p)
      ELSE m.contiguous => p >= min_address /\ next_chunk(m, p) <= m.top

do_check_free_chunk(m, p) ==
  LET next == next_chunk(m, p)
  IN  /\ do_check_chunk(m, p) /\ ~inuse(m, p) /\ ~chunk_is_mmapped(m, p)
      /\ chunksize(m, p) >= MINSIZE
      /\ chunksize(m, p) % MALLOC_ALIGNMENT = 0 /\ p % MALLOC_ALIGNMENT = 0
      /\ m.hdr[next].prev_size = chunksize(m, p)
      /\ prev_inuse(m, p) /\ (next = m.top \/ inuse(m, next))

do_check_inuse_chunk(m, p) ==
  LET next == next_chunk(m, p)
      prv  == p - m.hdr[p].prev_size
  IN  /\ do_check_chunk(m, p)
      /\ ~chunk_is_mmapped(m, p) =>
           /\ inuse(m, p)
           /\ ~prev_inuse(m, p) => next_chunk(m, prv) = p /\ do_check_free_chunk(m, prv)
           /\ IF next = m.top THEN prev_inuse(m, next) /\ chunksize(m, next) >= MINSIZE
              ELSE ~inuse(m, next) => do_check_free_chunk(m, next)

(* What _int_malloc gives has no room for another chunk.                   *)
do_check_remalloced_chunk(m, p, s) ==
  /\ do_check_inuse_chunk(m, p)
  /\ chunksize(m, p) % MALLOC_ALIGNMENT = 0 /\ p % MALLOC_ALIGNMENT = 0
  /\ chunksize(m, p) - s \in 0 .. MINSIZE - 1

(* What is not recycled comes from the lower end of a free chunk.          *)
do_check_malloced_chunk(m, p, s) == do_check_remalloced_chunk(m, p, s) /\ prev_inuse(m, p)

do_check_malloc_state(m) ==
  LET Used == {p \in Words : /\ chunksize(m, p) >= MINSIZE /\ p # m.top
                             /\ ~chunk_is_mmapped(m, p) /\ inuse(m, p)}
  IN  m.top # NULL =>
        /\ m.contiguous => m.sbrk_base + m.system_mem = m.top + chunksize(m, m.top)
        /\ \A s \in FastSizes : \A p \in ToSet(Chain(m, m.fastbinsY[s])) :
             do_check_inuse_chunk(m, p) /\ chunksize(m, p) = s
        /\ \A p \in ToSet(m.unsorted) : do_check_free_chunk(m, p)
        /\ \A i \in Bins :
             /\ i \notin m.binmap => m.bins[i] = <<>>
             /\ \A k \in DOMAIN m.bins[i] :
                  LET p == m.bins[i][k]
                  IN  /\ do_check_free_chunk(m, p) /\ bin_index(chunksize(m, p)) = i
                      /\ k > 1 => chunksize(m, m.bins[i][k - 1]) >= chunksize(m, p)
        /\ \A p \in Used : do_check_inuse_chunk(m, p)
        /\ do_check_chunk(m, m.top)

-----------------------------------------------------------------------------
(* What it promises.                                                       *)

(* Every place a chunk can be in, and how many chunks all of them list.    *)
Placed ==
  {h.p : h \in held} \cup UNION {loc[t].own : t \in Threads}
  \cup ({tcache[t].at : t \in Threads} \ {NULL})
  \cup UNION {ToSet(tcache[t].entries[s]) : t \in Threads, s \in TcSizes}
  \cup UNION {ToSet(Chain(av, av.fastbinsY[s])) : s \in FastSizes}
  \cup ToSet(av.unsorted) \cup UNION {ToSet(av.bins[i]) : i \in Bins}

Listed ==
  LET OfThread(t) == Cardinality(loc[t].own) + (IF tcache[t].at = NULL THEN 0 ELSE 1)
                     + MapThenSumSet(LAMBDA s : Len(tcache[t].entries[s]), TcSizes)
  IN  Cardinality(held) + Len(av.unsorted)
      + MapThenSumSet(OfThread, Threads)
      + MapThenSumSet(LAMBDA s : Len(Chain(av, av.fastbinsY[s])), FastSizes)
      + MapThenSumSet(LAMBDA i : Len(av.bins[i]), Bins)

Heads == {p \in Words : chunksize(av, p) > 0}

(* Words p .. end - 1 are memory that the arena has, and not another's.    *)
OfArena(p, end) ==
  /\ \/ p >= START_BRK /\ end <= av.brk
     \/ \E r \in av.mapped : r.lo <= p /\ end <= r.hi
  /\ \A w \in av.alien : ~(p <= w /\ w < end)

(* No chunk is lost and none is in two places: at any moment each one      *)
(* belongs to one client, one call that has not returned, one tcache, one  *)
(* fastbin, the unsorted chunks or one bin; the chunks do not overlap,     *)
(* those of the heap follow one another without a gap, and all of them lie *)
(* in memory that the system has given to the arena.  While a thread trims *)
(* the heap top may be too large.                                          *)
ChunksWhole ==
  /\ Placed = {p \in Heads : chunksize(av, p) >= MINSIZE} \ {av.top}
  /\ Listed = Cardinality(Placed)
  /\ \A p, q \in Heads : p < q => \/ next_chunk(av, p) <= q
                                   \/ (p = av.top /\ mutex # NULL)
  /\ \A p \in Heads :
       IF chunk_is_mmapped(av, p)
       THEN Region(p - av.hdr[p].prev_size, chunksize(av, p) + av.hdr[p].prev_size) \in av.mapped
       ELSE /\ chunksize(av, p) >= MINSIZE /\ p # av.top => next_chunk(av, p) \in Heads
            /\ \/ OfArena(p, next_chunk(av, p))
               \/ (p = av.top /\ mutex # NULL)

(* The assertions of a build with MALLOC_DEBUG hold.  When no thread has   *)
(* the mutex those of do_check_malloc_state: boundary tags agree, no two   *)
(* free chunks are neighbours, every bin holds its sizes in order and is   *)
(* marked if it holds any.  And what _int_malloc returns is a chunk of the *)
(* right size which, unless it comes from a fastbin, follows a used one.   *)
StateChecked ==
  /\ mutex = NULL => do_check_malloc_state(av)
  /\ \A t \in Threads :
       LET l == loc[t]
           p == l.victim
       IN  /\ l.pc \in {"tcache_done", "malloc_done", "calloc_done", "memalign_lead",
                       "realloc_moved"}
           /\ p # NULL /\ ~chunk_is_mmapped(av, p)
           => IF l.recycled THEN do_check_remalloced_chunk(av, p, l.nb)
                            ELSE do_check_malloced_chunk(av, p, l.nb)

(* Clients that do nothing wrong are never told of a corruption or met by  *)
(* an assertion, whatever the others do meanwhile: none but the one of     *)
(* CheckEnd ever fails, and that one only where somebody else has moved    *)
(* the break and the page was not filled up: the system has refused, or    *)
(* the heap goes on in regions of mmap and the code does not ask for it.   *)
NeverAborts ==
  /\ ~av.aborted
  /\ av.off_page => /\ av.alien # {}
                    /\ "short" \in world.morecore \/ ~av.contiguous

(* "If can't allocate correction, try to at least find out current brk.    *)
(* It might be enough to proceed without failing": no call of a client     *)
(* that does nothing wrong ends the process, be the second sbrk refused or *)
(* not.                                                                    *)
ProceedsWithoutFailing == ~Stopped(av)

(* The block that a call answers has the room and the alignment that were  *)
(* asked for, a resized one all that the old one was to keep, one of       *)
(* calloc nothing but zeros; no copy runs over it; a realloc that fails    *)
(* leaves the old block as it was; and a block in use stays large enough.  *)
AnswersRight ==
  /\ \A t \in Threads : loc[t].pc = "answer" =>
       LET l == loc[t]
           p == l.victim
       IN  IF p = NULL THEN l.oldp # NULL => l.own = {l.oldp} /\ musable(av, l.oldp) >= l.need
           ELSE /\ l.own = {p} /\ musable(av, p) >= l.bytes
                /\ (p + CHUNK_HDR_SZ) % Max({l.alignment, MALLOC_ALIGNMENT}) = 0
                /\ l.oldp \notin {NULL, p} => l.copied >= Min({l.need, l.bytes})
                /\ l.copied <= musable(av, p)
                /\ l.op = "calloc" => l.clean >= l.bytes
  /\ \A h \in held : musable(av, h.p) >= h.bytes

=============================================================================
