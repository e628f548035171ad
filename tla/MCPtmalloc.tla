------------------------------ MODULE MCPtmalloc ------------------------------
(* Instances of Ptmalloc: each world is an initial state of its own, for   *)
(* one part of the allocator.                                              *)
EXTENDS Ptmalloc

CONSTANTS a, b

TheLargeSizes == <<10, 14>>

Step(threads, ops, sizes) == [threads |-> threads, ops |-> ops, sizes |-> sizes]
Times(n, step) == [i \in 1 .. n |-> step]

(* One thread, no cache: the bins, the unsorted chunks, top.               *)
OneThread ==
  [plan |-> Times(6, Step({a}, {"malloc", "free"}, {3, 9, 11})),
   alignments |-> {}, foreign |-> 0, morecore |-> {"sbrk"}, tcache_count |-> 0,
   tcache_unsorted_limit |-> 0, top_pad |-> 0, n_mmaps_max |-> 0]

(* A cache that is filled by free and from the unsorted chunks.            *)
Caching ==
  [OneThread EXCEPT !.plan = Times(5, Step({a}, {"malloc", "free", "exit"}, {3, 5})),
                    !.tcache_count = 1, !.tcache_unsorted_limit = 1]

(* The same with more chunks: three unsorted ones when a size fits.        *)
Returning ==
  [Caching EXCEPT !.plan = Times(2, Step({a}, {"malloc"}, {5}))
                           \o Times(4, Step({a}, {"malloc"}, {7}))
                           \o Times(4, Step({a}, {"free"}, {}))
                           \o Times(2, Step({a}, {"malloc"}, {5}))]

(* Two threads that race for a fastbin, one to fill its cache from it.     *)
Racing ==
  [OneThread EXCEPT !.plan = Times(5, Step({a, b}, {"malloc", "free"}, {3}))]

Stashing ==
  [Caching EXCEPT !.plan = Times(3, Step({b}, {"malloc"}, {3}))
                           \o <<Step({b}, {"exit"}, {})>>
                           \o Times(2, Step({b}, {"free"}, {}))
                           \o <<Step({a}, {"malloc"}, {3}), Step({b}, {"free"}, {})>>]

(* One trims a heap of which the other frees the last chunk.               *)
Trimming ==
  [OneThread EXCEPT !.plan = Times(3, Step({a, b}, {"malloc", "free", "trim"}, {3})),
                    !.top_pad = 28]

(* Everything that changes a block.                                        *)
Changes == {"malloc", "free", "realloc", "calloc", "memalign", "pvalloc"}

Changing ==
  [OneThread EXCEPT !.plan = Times(3, Step({a}, Changes, {3, 7, 41})),
                    !.alignments = {1, 3, 8}]

Growing ==
  [OneThread EXCEPT !.plan = Times(3, Step({a}, {"malloc"}, {3, 5}))
                             \o <<Step({a}, {"free"}, {}), Step({a}, {"realloc"}, {3, 5, 7})>>]

(* Memory that has been given back and comes again.                        *)
Clearing ==
  [OneThread EXCEPT !.plan = <<Step({a}, {"malloc"}, {11, 19}), Step({a}, {"free"}, {})>>
                             \o Times(3, Step({a}, {"malloc", "calloc", "trim"}, {11, 19}))]

(* Regions of mmap for large requests, and a system that refuses.          *)
Mapping ==
  [OneThread EXCEPT
     !.plan = Times(3, Step({a}, Changes, {3, 15})), !.alignments = {8},
     !.n_mmaps_max = 1, !.morecore = {"sbrk", "none"}]

(* Somebody else moves the break; the system refuses the rest of a page.   *)
Sharing ==
  [OneThread EXCEPT !.plan = Times(5, Step({a}, {"malloc", "free", "trim"}, {3, 11})),
                    !.foreign = 1, !.morecore = {"sbrk", "short"}]

(* The heap goes on in regions of mmap.                                    *)
Moving ==
  [OneThread EXCEPT !.plan = Times(4, Step({a}, {"malloc", "free"}, {3, 11})),
                    !.foreign = 2, !.morecore = {"sbrk", "mmap"}]

(* A thread without a cache frees, and the heap goes on elsewhere while it *)
(* makes one: the end of the old top is freed within that call.            *)
Nesting ==
  [OneThread EXCEPT !.plan = <<Step({b}, {"malloc"}, {9}), Step({a}, {"free"}, {})>>,
                    !.foreign = 1]

TheWorlds ==
  {OneThread, Caching, Returning, Racing, Stashing, Trimming, Changing, Growing, Clearing,
   Mapping, Sharing, Moving, Nesting}
=============================================================================
