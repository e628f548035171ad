----------------------------- MODULE MallocChunks -----------------------------
(***************************************************************************)
(* "Memory Allocator C/docs/malloc-impl.c", the malloc of glibc: chunks    *)
(* with boundary tags, the bins, and what every routine does to them.      *)
(*                                                                         *)
(* Addresses and sizes count words of SIZE_SZ bytes.  A chunk is named by  *)
(* its address; the memory it gives to the user begins two words further   *)
(* and ends with the word in which the next chunk would keep prev_size.    *)
(* A doubly linked bin is a sequence, from fd to bk; of the lists that are *)
(* linked through chunks only the fastbins keep their links, because there *)
(* threads meet without a lock.                                            *)
(***************************************************************************)
EXTENDS Integers, SequencesExt

CONSTANTS
  LIMIT,            \* the last address
  PAGE,             \* GLRO (dl_pagesize)
  START_BRK,        \* where the heap of sbrk begins
  MMAP_START,       \* where the area of mmap begins
  NSMALLBINS,       \* 64
  LargeSizes,       \* the size at which each large bin begins, ascending
  global_max_fast,  \* the largest chunk of a fastbin
  DEFAULT_MMAP_THRESHOLD,
  DEFAULT_TRIM_THRESHOLD

MALLOC_ALIGNMENT == 2
CHUNK_HDR_SZ == 2
MINSIZE == 4

NULL == 0
Words == {w \in 0 .. LIMIT : w % MALLOC_ALIGNMENT = 0}    \* where a chunk can be

(* LargeSizes begins where the small bins end.                             *)
MIN_LARGE_SIZE == NSMALLBINS * MALLOC_ALIGNMENT

ASSUME ChunkAssumption ==
  /\ {LIMIT, PAGE, START_BRK, MMAP_START, NSMALLBINS, global_max_fast,
      DEFAULT_MMAP_THRESHOLD, DEFAULT_TRIM_THRESHOLD} \subseteq Nat \ {0}
  /\ PAGE % MALLOC_ALIGNMENT = 0 /\ PAGE > MALLOC_ALIGNMENT
  /\ START_BRK < MMAP_START /\ MMAP_START % PAGE = 0 /\ (LIMIT + 1) % PAGE = 0
  /\ LargeSizes \in Seq(Nat) /\ LargeSizes # <<>> /\ LargeSizes[1] = MIN_LARGE_SIZE
  /\ \A i \in 2 .. Len(LargeSizes) : LargeSizes[i - 1] < LargeSizes[i]
  /\ global_max_fast < MIN_LARGE_SIZE

-----------------------------------------------------------------------------
(* Sizes.                                                                  *)

ALIGN_DOWN(n, unit) == n - (n % unit)
ALIGN_UP(n, unit) == ALIGN_DOWN(n + unit - 1, unit)

(* One word more than asked for, rounded to the alignment.                 *)
request2size(req) == Max({MINSIZE, ALIGN_UP(req + 1, MALLOC_ALIGNMENT)})

FastSizes == {s \in MINSIZE .. global_max_fast : s % MALLOC_ALIGNMENT = 0}

in_smallbin_range(sz) == sz < MIN_LARGE_SIZE

smallbin_index(sz) == sz \div MALLOC_ALIGNMENT

largebin_index(sz) ==
  NSMALLBINS - 1 + Cardinality({i \in DOMAIN LargeSizes : LargeSizes[i] <= sz})

bin_index(sz) == IF in_smallbin_range(sz) THEN smallbin_index(sz) ELSE largebin_index(sz)

Bins == 2 .. NSMALLBINS - 1 + Len(LargeSizes)

-----------------------------------------------------------------------------
(* The arena, with the memory below and the parameters in mp_.             *)

(* The first two words of a chunk.  A prev_size that is the user's is 0.   *)
Header == [size : Nat, prev_inuse : BOOLEAN, mmapped : BOOLEAN, prev_size : Nat]

Nothing == [size |-> 0, prev_inuse |-> FALSE, mmapped |-> FALSE, prev_size |-> 0]

(* initial_top is NULL here: a chunk of no size that is nowhere.  `alien'  *)
(* is the memory that others took with sbrk, `high' the highest brk there  *)
(* has been: both are auxiliary.                                           *)
malloc_init_state ==
  [hdr |-> [w \in Words |-> Nothing],
   fd |-> [w \in Words |-> NULL],
   fastbinsY |-> [s \in FastSizes |-> NULL],
   have_fastchunks |-> FALSE,
   top |-> NULL, last_remainder |-> NULL,
   unsorted |-> <<>>, bins |-> [i \in Bins |-> <<>>], binmap |-> {},
   system_mem |-> 0, max_system_mem |-> 0, contiguous |-> TRUE,
   brk |-> START_BRK, sbrk_base |-> NULL,
   mmap_threshold |-> DEFAULT_MMAP_THRESHOLD,
   trim_threshold |-> DEFAULT_TRIM_THRESHOLD,
   n_mmaps |-> 0, mapped |-> {}, alien |-> {}, high |-> START_BRK,
   aborted |-> FALSE, off_page |-> FALSE]

chunksize(m, p) == m.hdr[p].size
next_chunk(m, p) == p + chunksize(m, p)
prev_inuse(m, p) == m.hdr[p].prev_inuse
chunk_is_mmapped(m, p) == m.hdr[p].mmapped
inuse(m, p) == prev_inuse(m, next_chunk(m, p))

(* chunksize_nomask (p) <= CHUNK_HDR_SZ: the flags count.                  *)
Tiny(m, p) == \/ chunksize(m, p) < CHUNK_HDR_SZ
              \/ chunksize(m, p) = CHUNK_HDR_SZ /\ ~prev_inuse(m, p)

set_head(m, p, size) ==
  [m EXCEPT !.hdr[p] = [@ EXCEPT !.size = size, !.prev_inuse = TRUE, !.mmapped = FALSE]]

set_head_size(m, p, size) == [m EXCEPT !.hdr[p].size = size]

set_foot(m, p, size) == [m EXCEPT !.hdr[p + size].prev_size = size]

set_inuse_bit_at_offset(m, p, size) ==
  [m EXCEPT !.hdr[p + size].prev_inuse = TRUE, !.hdr[p + size].prev_size = 0]

clear_inuse_bit_at_offset(m, p, size) == [m EXCEPT !.hdr[p + size].prev_inuse = FALSE]

(* Where a chunk has been, in the middle of another one now.               *)
Absorbed(m, p) == [m EXCEPT !.hdr[p] = Nothing]

(* malloc_printerr, or an assertion of sysmalloc, if `wrong'.              *)
Check(m, wrong) == [m EXCEPT !.aborted = @ \/ wrong]

(* The assertion that old_end is at a page; a field of its own tells it    *)
(* from all the others.                                                    *)
CheckEnd(m) ==
  [m EXCEPT !.off_page = @ \/ (m.top # NULL /\ next_chunk(m, m.top) % PAGE # 0)]

(* One of them has ended the process.                                      *)
Stopped(m) == m.aborted \/ m.off_page

-----------------------------------------------------------------------------
(* Bins.                                                                   *)

Linked(m, p) == \/ p \in ToSet(m.unsorted)
                \/ \E i \in Bins : p \in ToSet(m.bins[i])

unlink_chunk(m, p) ==
  Check([m EXCEPT !.unsorted = RemoveFirst(@, p),
                  !.bins = [i \in Bins |-> RemoveFirst(@[i], p)]],
        \/ chunksize(m, p) # m.hdr[next_chunk(m, p)].prev_size
        \/ ~Linked(m, p))

(* A free chunk at p, in front of the unsorted ones.                       *)
FreeHead(m, p, size) ==
  set_foot(set_head([m EXCEPT !.unsorted = <<p>> \o @], p, size), p, size)

(* Large bins go from the largest to the smallest; of chunks of one size   *)
(* the new one becomes the second.                                         *)
LargePlace(m, bin, size) ==
  LET same == {k \in DOMAIN bin : chunksize(m, bin[k]) = size}
      more == {k \in DOMAIN bin : chunksize(m, bin[k]) > size}
  IN  IF same # {} THEN Min(same) + 1 ELSE Cardinality(more) + 1

(* The last of the unsorted chunks, placed in its bin.                     *)
Binned(m, p) ==
  LET size == chunksize(m, p)
      i    == bin_index(size)
      at   == IF in_smallbin_range(size) THEN 1 ELSE LargePlace(m, m.bins[i], size)
  IN  [m EXCEPT !.unsorted = Front(@), !.bins[i] = InsertAt(@, at, p),
                !.binmap = @ \cup {i}]

(* The smallest that fits, of several not the one the skip list goes by.   *)
BestFit(m, bin, nb) ==
  LET size == Min({chunksize(m, bin[k]) : k \in DOMAIN bin} \cap (nb .. LIMIT))
      same == {k \in DOMAIN bin : chunksize(m, bin[k]) = size}
  IN  IF Cardinality(same) > 1 THEN bin[Min(same) + 1] ELSE bin[Min(same)]

(* Exhaust, or split: a free chunk becomes the user's.                     *)
Allotted(m, victim, nb, advertise) ==
  LET size == chunksize(m, victim)
      rest == size - nb
      cut  == unlink_chunk(m, victim)
  IN  IF rest < MINSIZE THEN set_inuse_bit_at_offset(cut, victim, size)
      ELSE FreeHead([set_head(cut, victim, nb) EXCEPT
                       !.last_remainder = IF advertise /\ in_smallbin_range(nb)
                                          THEN victim + nb ELSE @],
                    victim + nb, rest)

(* The lower part of top.                                                  *)
TakenFromTop(m, nb) ==
  set_head(set_head([m EXCEPT !.top = @ + nb], m.top, nb),
           m.top + nb, chunksize(m, m.top) - nb)

(* Slip: the next chunk is not told that this one is free.                 *)
ConsolidatedUntold(m, p) ==
  LET next == next_chunk(m, p)
      base == IF prev_inuse(m, p) THEN p ELSE p - m.hdr[p].prev_size
      back == IF base = p THEN m ELSE Absorbed(unlink_chunk(m, base), p)
      join == next = m.top \/ ~inuse(m, next)
      size == next - base + IF join THEN chunksize(m, next) ELSE 0
  IN  IF next = m.top
      THEN [set_head(Absorbed(back, next), base, size) EXCEPT !.top = base]
      ELSE FreeHead(IF join THEN Absorbed(unlink_chunk(back, next), next) ELSE back,
                    base, size)

(* A chunk is freed: merged with its neighbours, into top or unsorted.     *)
Consolidated(m, p) ==
  LET next == next_chunk(m, p)
      base == IF prev_inuse(m, p) THEN p ELSE p - m.hdr[p].prev_size
      back == IF base = p THEN m
              ELSE Absorbed(unlink_chunk(Check(m, chunksize(m, base) # p - base), base), p)
      join == next = m.top \/ ~inuse(m, next)
      size == next - base + IF join THEN chunksize(m, next) ELSE 0
  IN  IF next = m.top
      THEN [set_head(Absorbed(back, next), base, size) EXCEPT !.top = base]
      ELSE FreeHead(IF join THEN Absorbed(unlink_chunk(back, next), next)
                            ELSE clear_inuse_bit_at_offset(back, next, 0),
                    base, size)

(* How large that chunk is then.                                           *)
MergedSize(m, p) ==
  LET next == next_chunk(m, p)
      base == IF prev_inuse(m, p) THEN p ELSE p - m.hdr[p].prev_size
  IN  next - base + IF next = m.top \/ ~inuse(m, next) THEN chunksize(m, next) ELSE 0

(* The chunks of a fastbin, from `head' on.                                *)
Chain(m, head) ==
  LET Further(c, i) == IF m.fd[Last(c)] = NULL THEN c ELSE Append(c, m.fd[Last(c)])
  IN  IF head = NULL THEN <<>>
      ELSE FoldLeft(Further, <<head>>, [i \in 1 .. LIMIT \div MINSIZE |-> i])

(* malloc_usable_size.                                                     *)
musable(m, p) ==
  IF chunk_is_mmapped(m, p) THEN chunksize(m, p) - CHUNK_HDR_SZ ELSE chunksize(m, p) - 1

=============================================================================
