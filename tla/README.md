# Verification of Low-Level-Programming

TLA+ models of the programs in this repository, TLC configurations that check
them on small instances, and TLAPS proofs that hold for every value of the
constants. Paths are relative to the root of the repository; `mem.c` alone means
`Memory Allocator C/src/mem.c`.

## The repository

The repository is a collection of independent programs, one per directory. Two of
them meet: the image rotation writes files that the sepia filter can read, and
`MCImageTools` composes them. The dictionary contains a copy of the I/O library,
and `Dictionary` extends its model. The others share no process, file or library;
inside each program the parts below do interact.

Two modules run programs that do not meet in one behaviour, so that one run of TLC
covers them: `MCSeminars` runs the reordering test to its end and then one of the
other programs of the seminars, `MCLabs` the image tools or the dictionary. While
one program runs the others stand still, in a state in which they have ended or not
been started, so that every behaviour of each program is explored as if it were alone,
and a property about one of them is decided by its behaviours only.

| Component | State | Operations | What is hard |
|---|---|---|---|
| Memory allocator (`Memory Allocator C/src`) | mapped pages, block headers in them | `heap_init`, `_malloc`, `_free`, `heap_term` | long sequences of splits and merges, `mmap` refusing or moving a region, size arithmetic, loops over a linked list |
| glibc malloc (`Memory Allocator C/docs/malloc-impl.c`) | one arena: chunks with boundary tags, fastbins, bins, top, mmapped chunks; a cache per thread | `malloc`, `free`, `realloc`, `calloc`, `memalign`, `pvalloc`, `malloc_trim`, end of a thread | fastbins without a lock, reads without the mutex, somebody else moving the break, `sbrk` and `mmap` refusing, second tries |
| Image rotation (`Image Rotation C/solution`) | images on the heap, two open files | read, rotate, write, clear | an error in one of several steps, ownership of memory and files, padding and index arithmetic |
| Sepia filter (`Sepia Filter C, ASM/src`) | the same, plus SIMD registers | read, filter in C and in assembly, write | loop bounds of the SIMD loop, agreement of the two filters, clean-up |
| Dictionary (`Dictionary ASM`) | a 256 byte buffer, a constant list | `read_line`, `find_word`, print | boundary of the buffer, end of input |
| I/O library (`IO Library ASM/lib.inc`) | buffers, the stack | reading, parsing and printing of words and numbers | boundary of the buffer, 64 bit wrap-around |
| Block heaps (`seminar6/heap-0.c`, `heap-1.c`) | the status of 16 blocks | `block_allocate`, `block_free` | a full heap, runs of blocks, freeing |
| Threads and processes (`seminar8`) | shared memory, pipes, semaphores, a mutex | fork, write/read, post/wait, lock/unlock | interleavings, store buffers, semaphores that outlive a process |
| Lists and expression trees (`seminar5`) | linked nodes | push, print | sequential and small |
| Exercises (`seminar2`, `seminar3`, `seminar4`, `seminar7`) | registers, stack | single procedures | sequential and small |

## The memory allocator

### How the model corresponds to the code

`MemAlloc` models `mem.c`. Its variables are what the program keeps:

* `mapped` is the set of mapped addresses, as `mmap` and `munmap` leave it;
* `hdr` maps an address to the `struct block_header` there (`next`, `capacity`,
  `is_free`); a block that has dropped off the list still has its header;
* `pc`, `cur`, `last`, `req`, `start`, `len` are the point the running call has
  reached and the local variables of the loops;
* `owned` is what the client knows: the blocks it holds and the sizes it asked
  for.

`listed`, `before` and the field `reg` of a header are auxiliary: nothing in a
guard or in the value of another variable depends on them.

The allocator is sequential. A step is a call with the straight-line code behind
it, or one turn of a loop: `FindTaken`, `FindMerge`, `FindTooSmall`, `FindGood`,
`FindEnd` and `RefindEnd` are the branches of `find_good_or_last` and its
callers; `Grow` and `GrowFails` are `grow_heap`; `Free`, `CoalesceMerge`,
`CoalesceEnd` are `_free`; `HeapTerm`, `TermScan`, `TermUnmap` are `heap_term`.
`ForeignHeader` and `Segv` say what the first read at `HEAP_START` does when the
heap is not there, and `NoHeapInit` begins a life of the heap without `heap_init`,
as the last test of `main.c` does (131-143). Sizes are words: `Wrap` is applied wherever a sum of the code
can pass `SIZE_MAX`.

`mmap` is the environment: with `MAP_FIXED_NOREPLACE` it gives the range asked
for if that is page aligned and free, with a mere hint any free range above
`HEAP_START`, and it may fail. The client obeys the contract of malloc and free:
it calls `heap_init` first, or never (`NoHeapInit`), frees only what it holds, and
uses nothing after `heap_term`. An argument or a state outside that contract is not modelled.

`Allocator` is the abstract promise of the whole: a request is answered with a
part of memory that is large enough and that nobody else holds, or refused.

### The runs

`MCMemAlloc` gives the instances. A header is one cell, a page four, a region at
least two pages: so a region holds two blocks and a remainder, a block can end in
the middle of a page, and a split can fail for want of one cell. Addresses end at
`LIMIT`, which leaves room for the first region, an extension and a region
elsewhere. `FOREIGN` pages decide which of these `mmap` can grant.

| Run | Shows |
|---|---|
| `mem_core` | Any legal sequence of `_malloc` and `_free` keeps the heap whole: blocks tile their regions without overlap and in mapped memory (`BlocksFillRegions`, `HeapWhole`), the list is one chain (`ListIsChain`), what is handed out is taken and large enough (`OwnedIsTaken`), the heap grows only when it must (`GrowOnlyWhenNeeded`) and a growth always suffices (`GrowSuffices`). The whole implements `Allocator` (`KeepsPromise`). |
| `mem_life` | Two lives of the heap, each begun with `heap_init` or without. In the first somebody else has mapped two zero pages from `HEAP_START` on, the scenario of `main.c:131-143`; the second is built on what the first has left mapped; one request is near `SIZE_MAX`. Of what was mapped before, `munmap` takes at most the one page at `HEAP_START` (`OthersStayMapped`; that it does take this one is told under Findings), and every call returns or faults (`CallsReturn`). |
| `mem_huge_owned`, `mem_lost` | Violations: see Findings. |

Memory cells are the only unbounded resource and `LIMIT` bounds them; `MAXEPOCH`
bounds the lives of the heap. `Queries` holds the smallest block and one that
forces the heap to grow; in `mem_life` also one of three quarters of a region and
one so large that sizes wrap. Deadlock is not checked: when the client stops
calling, or after a fault, the program stops.

Fairness is weak fairness of `Internal`, the steps of a call that is running: a
sequential program that is scheduled at all takes its next step. The client is
under no obligation to call.

### What is proved

`MemAllocProofs` proves, for every layout (`HDR`, `MINCAP`, `PAGE`, `REGIONMIN`
within `LayoutAssumption`), address space and set of requests:

| Theorem | States |
|---|---|
| `InductiveHolds` | the inductive invariant |
| `TypeCorrect` | `Spec => []TypeOK` |
| `HeapStaysWhole` | no overlap, nothing outside mapped memory, also while `heap_term` runs |
| `OwnedStaysTaken` | what `_malloc` handed out is taken and large enough |
| `SecondSearchFinds` | the search after `grow_heap` always finds a block, so ignoring the type of its result at `mem.c:205` is safe |
| `ListStaysChain` | the list is a chain in a linear order |
| `BlocksKeepRegionsFull` | between two blocks of a region there is no gap |
| `GrowsOnlyWhenNeeded` | the heap grows only if no listed free block can serve the request |
| `OthersKeepTheirPages` | `munmap` takes no page that was mapped when this life of the heap began: `before \subseteq mapped`, without the exception that `OthersStayMapped` makes |
| `PromiseKept` | `Spec => KeepsPromise`: the program implements `Allocator` |
| `HeldStayApart` | what clients hold does not overlap, said of the abstract state |

Two assumptions stand before each of them. `HeapStartIsFree`, nobody else maps
`HEAP_START`, excludes the scenario of `main.c:131-143`, in which the list begins in
somebody else's page (`mem_life` runs it, and `heap_term` unmaps that page). `ArgumentsFit`, no request is so near
`SIZE_MAX` that a size wraps, is needed: `mem_huge_owned` shows what happens
without it. `OthersKeepTheirPages` has a third, `RegionsAreWhole`: `REGION_MIN_SIZE`
is a multiple of the page, or not larger than one. With `2 * 4096`
(`mem_internals.h:8`) that holds for every page size that is a power of two.
Without it a region could end inside a page, `mmap` would still give the whole of
it, and the length that `munmap` is given would be rounded up.

None of the properties is inductive. `Inductive` adds what the code relies on
without saying so. `Heap`: links do not dangle, no two blocks link to the same
block, and no link crosses between the list and the blocks cut off from it;
without that a merge could absorb a block some other block still links to.
`SearchOnList`: the cursor of a search is on the list and `last` is at or before
it, so linking a region behind `last` never disconnects the cursor. `GoodAhead`:
during the second search a large enough free block is at or after the cursor;
this is where `GrowSuffices` comes from. `TermRuns`: while `heap_term` runs,
`start + len = cur`, and a link leads to a block or to memory that is unmapped
already. The proof has one lemma per action, and three lemmas about the heap
(`MergeKeepsHeap`, `TakeKeepsHeap`, `GrowKeepsHeap`) that say what a merge, a
split and a growth do to `Heap`.

The last five theorems add to `Inductive` what each needs:

* `BlocksFillRegions` is inductive together with `Inductive`.
* `PassedIsNoGood`: a free block that the search has passed is too small, and
  cannot be merged with the block behind it. A merge at the cursor must not make
  room in a block that has been passed; it does not, because such a block would
  have been merged when the cursor stood there.
* `OthersApart`: all blocks, and the range that `heap_term` has measured, lie in
  pages that were not mapped before. `LinksWhole` carries it: a link leads to the
  adjacent block or to the start of a page, so `heap_term` measures from the start
  of a page to the end of one.
* The refinement maps the blocks held to their contents (`Given`) and the label to
  a phase (`Phase`): a search and a growth are one request under way, merging
  after `_free` is over for the client when the mark has been set. `Locals` says
  which of the local variables is in use where. A fault counts as the phase the
  faulting call was in, which `start` tells.

### What is only model-checked

Liveness (`CallsReturn`), for which the prover has no rule. That the list stays a
chain in a linear order, which is what rules out an endless loop, is proved.

## The reordering test

`CpuReordering` models `seminar8/task4/cpu-reordering.c` on an x86 processor.
Each thread, and main, has a processor with a first-in first-out store buffer
`buf`: `Flush` takes the oldest store to `mem` at any time, a load looks into its
own buffer first, and `mfence` and the semaphore operations (locked instructions)
wait until the buffer is empty. A step of a thread is one memory access or one
semaphore operation; main's are the two resets, two posts and two waits of a
round, and the test of the two results. Before line 43 nothing runs
concurrently: `Init` is the state after the threads have been created.

`Litmus` is the same program on a machine without buffers, which is how its
author reads it. `SequentiallyConsistent` states that with its fences the
program implements `Litmus`: a store in a buffer counts as one that is still to
be executed (`PcBar`, `MainBar`).

Run `seminars` (three rounds, of 1000000 in the program; a round begins in the
same state as the first but for the values left in memory, and those are all
seen after one) checks that refinement, that no reordering is reported
(`NeverReordered`), that between two rounds nothing of the last is on its way
(`RoundsApart`: main could otherwise reset `x` too early or test results of the
wrong round), and that main ends (`Terminates`). Fairness is weak fairness of
each thread, of main and of each buffer: the scheduler runs every thread, a
processor writes its stores back.

Proved for any number of rounds: in `LitmusProofs`, `NeverBothZero`: `Litmus`
keeps `RoundInvariant`. Its parts are `Tokens`, which counts the semaphores
against the places of the threads, and `SecondSees`: of two threads that have
both loaded, one has loaded 1. In `CpuReorderingProofs`, `Refinement`: every step
of `CpuReordering` is a step of `Litmus` or none, from which `NoReordering`,
`RoundsStayApart` and `TypeCorrect` follow. The invariant there is `TSOInvariant`:
the types, `Buffers` (which stores can be waiting at which place), and
`RoundInvariant` seen through the mapping. The liveness part of
`SequentiallyConsistent`, and `Terminates`, are model-checked only.

## Processes that share an array

Two programs have a child change an array and a parent print it. `Echo` is what
both are for: each change is shown once, whole, in order.

`PingPong` models `seminar8/task3/semaphore.c`: an array in shared memory and two
named semaphores. Named semaphores outlive the processes, so a behaviour is a
sequence of sessions, each of which starts with what the last has left in `sem`
(`left`); the loops never end, so a session ends when both processes are killed,
each at any step. `fork` and `sem_open` may fail. The parent prints element by
element, and the child may change the array in between if the semaphores let it.

In the run `seminars`: an array of two, two changes per session, three sessions:
enough for a second session to start with a token left over, and for a third to
start with what two have left. `Echoes`: a session that finds the semaphores at
zero implements `Echo` (the program makes no promise otherwise, and a session that
finds a token may indeed print too early). `OneTokenPerSession`: wherever the
processes are killed, a session adds at most one token. `Answered`: no child waits
for ever while its parent lives. Fairness: weak fairness of `Child` and `Parent`;
the user who types, and whoever kills, is under no obligation.

Proved in `SemaphoreProofs`, for arrays of any size and any number of changes and
sessions: `SessionLeavesOneToken` (`PingSpec => []OneTokenPerSession`) and
`EchoesChanges` (`PingSpec => Echoes`). The invariant counts tokens over the places of
both processes (`Tokens`: what the parent has taken and not given back, the child
has given and not got back, and of a child that is gone nothing is known). For a
session that found the semaphores at zero, `Turns` says that a token, or the parent
at work, tells whether the last change has been printed. Hence the child cannot
write while a line is half printed, and `LineKept`: what is printed of a line is
the array in memory. A session that found tokens maps to an `Echo` that has not
begun.

`Pipes` models `seminar8/task2/pipes.c`: `ends` is the set of pipe ends each
process holds, for `read` ends and `write` fails according to who still holds
what. The array is sent whole, in a message smaller than `PIPE_BUF`. Either
process may be killed at any time. `pipes[1]` carries nothing in the program; its
ends are modelled because the processes close them.

In the run `seminars`: four changes through a pipe that holds two, so that the child
waits for a full pipe and the parent for an empty one. `PipeEchoes`: as `Echoes`
above, with no condition;
`NothingLeftUnread`: when the parent stops it has printed whatever reached the
pipe, also after the child was killed; `NobodyWaits`: neither
process waits for ever on the pipe when the other is gone, which depends on the
closing of unused ends. Fairness as above.

Proved in `SeminarProofs`, for arrays of any size, a pipe of any capacity and any
number of changes: `NothingIsLeftUnread` and `EchoesChanges`. In the invariant,
what is shown, the message the parent holds, the messages in the pipe and the
array the child is about to write are, in this order, the changes that were made
(`Printed`, `Piped`, `NoneMissing`); the message that says "finished" can only be
the last (`Piped`); and a child that has not reached its last `close` keeps its
write end, so that the parent sees the end of the pipe only when nothing more can
come (`ChildHolds`).

`MutexPrint` models `seminar8/task05/task05.c`, letter by letter: `bad_print`
prints a letter and flushes it, a mutex is held around each word, `main` creates,
joins and destroys. The run `seminars` (words of two and three letters, three
times each) checks `WordsWhole` and `AllIsPrinted`. Fairness is
weak fairness of each thread and of main. That is enough although the mutex is
not fair: the other thread runs out of words.

`WordsStayWhole`, in `SemaphoreProofs` as well because the argument is of the same
kind, proves `WordsWhole` for words of any length and any number of iterations.
The invariant: the mutex is held exactly by the thread that prints or is about to
unlock (`MutexKept`), and the last letters of the output are the beginning of the
word its holder is printing (`LetterNext`); while nobody holds it, the output ends
with a whole word.

Liveness (`Answered`, `NobodyWaits`, `AllIsPrinted`) is model-checked only.

## The block heap

`BlockHeap` models `seminar6/heap-1.c`: `status` is the array of marks, `held`
what the client has been given and not given back. The loop of `block_allocate`
is a step per block (`ScanTaken`, `ScanFree`, `ScanEnd`), with the locals of the
code; the marking of the run, which reads nothing, is one step; the loop of
`block_free` is a step per block. The client frees only what it holds and asks
for at least one block.

The run `seminars` (six blocks instead of sixteen; sizes 1, 2, 3 and 7, which never
fits) meets every pattern of runs and gaps that makes the search restart.
Everything it checks of the heap is also proved in `SeminarProofs`, for a heap and
requests of any size: `HeldWhole`, `NothingLost`, `SearchRight` (the search finds
the first run that fits, and one if there is one) and the types. The inductive
invariant `HeapInv` adds what the loop knows halfway
(no run among the blocks passed is long enough; `counter` is the length of the
run that ends at `i`), and, while a run is cleared, that the rest of it is still
marked.

## Image rotation

`Picture` holds the pure part of `Image Rotation C`: the four rotations of
`rotation.c` with their index formulas, `main`'s choice among them, `calc_padding`
and the layout of rows; and as a reference, a quarter turn by coordinates
(`Turned`), applied as often as the angle says (`Clockwise`).

`ImageRotation` models a run of the program: a step is a call that may fail
(opening, `malloc`, reading the header or a row, writing the header or a row) or
the straight-line code behind it. A byte of a file is named by its place in the
picture, `<<x, y, colour>>`, so that a byte that ends up in the wrong place is
seen whatever the picture shows. `live` are the objects of the heap. What the C
standard leaves undefined (a null or uninitialised pointer) is a choice between
going on and `Crash`, of which nothing is asked.

`Sepia` models `Sepia Filter C, ASM`: `main` reads `input.bmp`, filters it with
`filter_c` and with the SSE loop of `filter.asm`, and writes two files. A pixel is
three shades. The floats are exact thousandths: the coefficients have three digits,
so a sum is a whole number of thousandths, and the error of single precision is
less than one. It can decide only where a sum lies at the point between two
results; there `low` chooses. `filter_asm` keeps the vectors of the file in the
order in which the pixel's bytes are spread over them, rounds to the nearest and
saturates. Its loop goes on while the bytes left are not negative, so it filters
one pixel behind the image: the model lets it go on or fault.

In the run `labs` (`MCImageTools`): either the rotation runs and, when it has
succeeded, the user filters what it has written; or the filter runs alone. Sources
of width 0, 1, 2 and 4 and height 0, 1 and 3, which, turned, give rows of every
length modulo four, the empty picture, and pictures that are neither square nor
symmetric; whole, cut short by a byte, with four bytes of padding and with none
where rows are a multiple of four long, and not BMP at all; all angles of the
list, numbers off it, and numbers that reach it by truncation. For the filter
alone single pixels of ten shades of each colour, the ends of the range and the
points of saturation among them, and files that are missing, foreign or short.
Two iterations stand for the 500 of `amout_of_iters`; each overwrites the result
of the one before.

`RotatesClockwise`, `TargetReadsBack` (the program's own reader finds in the target
the picture that was written, and the sizes in the header are those of the file), `NothingLeaked` (whichever step
fails) and `TargetKept` (the target is not truncated before the source has been
read) are about the rotation; `FiltersAgree` says that the two files of the filter
hold pictures that differ by at most one shade; `ToolsAgree` that the filter reads
exactly the picture which the rotation has written. All this holds whatever the
padding, as long as both programs agree on it; `TargetConforms` asks for the layout
that `Image Rotation C/README.md:55-56` describes, and the run `image_gap` shows
that the target does not have it (see Findings). No fairness: nothing is
concurrent, and nothing is claimed to end. Deadlock is not checked, because the
programs end.

The six properties that hold are proved in `ImageToolsProofs`, as theorems of
`ToolsSpec`, the part of the run that is about images, for pictures of any size, any gap between rows,
any arguments and any input of the filter (`TurnsClockwise`, `TargetIsWhole`,
`NothingIsLeaked`, `TargetIsKept`, `FiltersDoAgree`, `ToolsFitTogether`).
`ImageAssumption` and `SepiaAssumption` say no more than what a source file and a
command line are.

* Of the operators: a cell has one row and one column (`DivMod`, `RowAndColumn`);
  the index formulas of `rotation.c` are one, two and three quarter turns (`Once`,
  `Twice`, `ThreeTimes`), so `main`'s choice by the angle is right
  (`SwitchIsRight`); byte *k* of a padded row is where the reader looks for it
  (`BytePlace`, `ByteOfRow`, `RowsHold`), so an image reads back as it was written
  (`ImageReadsBack`); the two ways of rounding a sum are at most one shade apart,
  and remain so when saturated (`OneShade`, `Lane`, `PixelsAgree`).
* Of the steps: `ToolsInv`, the inductive invariant `ToolsInvariantHolds` proves. At
  each label it says what the variables hold: `img` is what has been read so far
  (`ReadSoFar`), `rotated` the transformed image, `target` the rows written so far
  (`TargetWith`), `live` nothing before the first allocation and after the end
  (`Memory`); the filter's images are those of its input (`Filtered`), and when it
  runs after the rotation its input is the target (`OneAfterTheOther`). The
  properties follow from it and the lemmas.

Not modelled: a failure that only `fclose` reports; sizes in a header that
overflow; `check_valid_filename` and `close_file`, which the rotation never calls;
the times that the filter prints.

## The dictionary and the I/O library

`IOLibrary` models the procedures of `IO Library ASM/lib.inc` that keep state:
`read_char`, `read_word`, `parse_uint`, `parse_int`, `print_uint`, `print_int`. A
step reads one character, or is one call of a parsing or printing procedure. What
a store of `rax` does is kept: it writes the character and seven zeros
(`Store`), which is why a word ends where it should although its terminator is
written one byte too far. `buffer` goes on behind its end, with memory that
belongs to somebody else (`FOREIGN`). `r9` is the register: `parse_int` sets it
after a minus only, `parse_uint` leaves the last digit in it, `print_uint` its
divisor. The library has no program; a client reads words until one is refused,
parses each, and prints it or not.

`Dictionary` adds `Dictionary ASM`: `read_line` and `clear_stdin`, the list that
the macro `colon` builds, `find_word`, the messages and the exit.

In the run `labs` (`MCDictionary`): a buffer of three bytes instead of 256, words
of four bits instead of 64, every text of up to six letters and newlines for the
dictionary and of up to five signs, digits and blanks for the library. So lines
and words are shorter than the buffer, of its size less one, of its size, and
longer by one to three; numbers wrap; and an empty line is followed by anything.

* `AnsweredRight`: the answer to a line is the value of the last entry with that
  key, or the message that fits; an empty line gets that for a line too long.
* `WordReadWhole`: the string at the buffer after an accepted word is the next word
  of the text, whole, whatever was there before, and its length is returned. That
  its terminator lies inside the buffer is `WordFits`, which does not hold.
* `NumbersRight`: what is printed is read back as the same number, the smallest one
  included, and numbers are read as they are written, but for one that begins with a
  plus while a 1 is in `r9`. Without that exception it is `NumberAsWritten`, which
  does not hold.
* `EndsUnlessItWaits`: the program ends, unless `clear_stdin` waits for a newline
  that the input no longer has. Fairness is weak fairness of the one process; the
  user owes nothing, the end of the input is answered at once (`read_char`). That
  wait never ends: the exception is a hang of the program (see Findings).

Three runs of their own show what the code does not keep of what its comments say:
`dictionary_buffer` (`BufferKept`: nothing is written behind the buffer) and
`dictionary_word` (`WordFits`), with a buffer of nine bytes, longer than a store, and
words of one to twelve letters; and `dictionary_sign` (`NumberAsWritten`), with two
numbers with or without a sign.

Proved in `DictionaryProofs`, for texts of any length, a buffer of any size and any
list of entries: `AnswersAreRight`, `WordsAreReadWhole`, and `SpillIsBounded`, how bad
the overflow can become: no store ever goes more than seven bytes behind the buffer,
however long the text is. The
inductive invariant `Inv` (`DictionaryInvariantHolds`) says label by label what the
buffer holds. `LineIsRead`, `WordIsRead`: the characters read so far, and behind
them a zero of the last store, which is what makes the terminator written one byte
too far harmless (`Stored`, `Terminated`); a refused line is longer than a key can
be, or empty (`LineIsRefused`); no entry passed by `find_word` has the line as its
key (`ListIsSearched`). For `read_word` the calls made are matched with the words
of the text. `Words` numbers those by counting: the n-th word is at the start that
has n - 1 starts before it, and the lemmas `OneMore`, `WordNumber` and `WordUpTo`
do the counting. The keys of `DictionaryAssumption` are characters other than zero,
as a string of the assembler is.

`NumbersAreRight` proves `NumbersRight`, for words of any length and a machine word
of any width. Its second invariant says that a parsed number is what the word spells
and that `r9` is set only if an earlier word had a minus or ended in its last digit.
The lemmas under it say what the recursive functions compute for every argument:
`ParseUint` (the digits up to the first other sign, modulo the machine word),
`PrintUint` (as many digits as the number has, the first not a zero), `ParseInt`,
`PrintInt`. The induction they need is over a set of numbers rather than a formula
(`UpTo`: the numbers up to n for which it holds), because the provers cannot apply a
theorem that takes a formula; it rests on `Least`, a set of numbers has a least one.

`EndsUnlessItWaits` is model-checked only: the provers have no rules for liveness.

## The malloc of glibc

`Memory Allocator C/docs/malloc-impl.c` is the file beside the allocator that
shows how it is done in earnest. `MallocChunks` has its data (sizes and bins,
boundary tags, `unlink_chunk`, splitting and merging, the fastbin chains) and
`Ptmalloc` its control: a thread has a label `pc` and a stack of labels to return
to, and an action is named for the procedure, or the part of it, that it stands
for. Addresses and sizes count words of `SIZE_SZ`; `MINSIZE` is four words, the
alignment two. The flags are fields of a header of their own; a comparison of the
code that leaves them in a size is written as what it decides.

Steps are cut where threads can meet. Under `av->mutex` a step is a stretch of
code between two places at which a thread without the mutex can see or change
something: such a thread pushes on a fastbin (load of the head, check, store of
`fd`, compare and exchange: `Pointed`, `FastPush`), pops from one (`FastLoad`,
`FastTake`), reads the size of the chunk behind its own and `system_mem`
(`NextUnfit`, `FastRecheck`), or looks at `have_fastchunks`. Everything else a
thread reads is its own or under the mutex. `sbrk`, `mmap` and `mremap` are the
environment: they may refuse, `sbrk` may give what is left of a page only, and
somebody else may move the break (`ForeignSbrk`). The clients free what they hold,
and resize it, once.

Two places are coarser than that. `sysmalloc` calls `MORECORE` a second time to fill up
the page (2632, 2765), and `systrim` three times (2933, 2946, 2951); in the model all
calls of one procedure are one step, so that a `sbrk` of somebody else cannot come
between them. The code excludes that case too, in words: the comment at 2769-2774
calls it 'a safe assumption unless program is multithreaded but doesn't use locks and
a foreign sbrk occurred between our first and second calls'. What happens then is out of
reach of every property here. And `FastRecheck` takes the mutex, looks at `system_mem`,
releases the mutex and sets `have_fastchunks` (4456-4477) in one step: who comes in
between finds the flag set already, as one who comes a moment later does. The checks of the pointer that
`mremap_chunk` and `realloc` make (3021-3023, 3360-3363) are left out, as no client
has a pointer that fails them.

Run `ptmalloc` has thirteen worlds, initial states that differ in what the system
does, the tunable parameters, and the plan of calls (`MCPtmalloc` says which).
Each makes one part of the allocator meet its hard case: bins and the unsorted
chunks, a cache filled while malloc searches, two threads on one fastbin, one that
refills its cache from it, trimming beside a free without the mutex, every call
that changes a block, growth in place, `calloc` of memory that has been used,
`mmap` for large requests and when `sbrk` refuses, a moved break, a heap that goes
on in regions of `mmap`, and a thread without a cache whose `free` first has the
end of an old top freed. Memory is 95 words, a page eight, five small and two
large bins. Each world is explored completely; the calls of the plan bound it.

* `ChunksWhole`: at any moment each chunk is in exactly one place (a client, a
  call, a cache, a fastbin, the unsorted chunks, a bin), chunks do not overlap,
  those of the heap leave no gap, and all lie in memory of the arena.
* `StateChecked`: the assertions of `do_check_malloc_state` and
  `do_check_malloced_chunk` (of what comes from a fastbin, `do_check_remalloced_chunk`
  only: `recycled` tells), which a normal build never evaluates.
* `NeverAborts`: no correct client is told of a corruption or ended by an assertion,
  but for one. `CheckEnd` is the assertion of lines 2539-2542 that the old top ends at
  a page; it sets a field of its own (`off_page`), so that the exception is for this
  check and no other. It may fail only where somebody else has moved the break, and
  either the system has refused a second `sbrk` (line 2777) or the heap goes on in
  regions of `mmap`, where the code does not fill up the page. Run `ptmalloc_abort`
  asks for the property without the exception (`ProceedsWithoutFailing`) and finds it
  violated (see Findings).
* `AnswersRight`: room, alignment, contents kept by `realloc`, zeros of `calloc`
  (which trusts fresh memory of top), and the old block after a failed `realloc`.

Proved in `PtmallocProofs`, for any number of threads, any sizes and parameters
within the assumptions, and any plan of calls:

| Theorem | States |
|---|---|
| `ControlHolds` | each thread's stack holds the labels that its label returns to, each procedure is entered and left with the mutex or without, as it expects, and the mutex is held exactly by the thread that is at a label under it |
| `MutexIsHeld` | in particular the holder is at such a label, and two threads never are |
| `HolderAlone` | while a thread holds the mutex, no step of another changes `top`, a bin, the unsorted chunks, the size of the arena, or a header other than that of the chunk which that step itself gives to `munmap` or `mremap` |
| `BinsAreMarked` | a bin that holds a chunk is marked in `binmap` at every moment, so the search of `_int_malloc`, which wipes marks on its way, misses no chunk |
| `FreeingMerges` | `Consolidated` leaves right tags: one chunk for the run of free ones, told free on both sides or part of `top`, the same memory covered; the sizes that `unlink_chunk` compares agree |
| `AllottingSplits`, `TopSplits` | the same of a free chunk, and of `top`, that is handed out whole or cut in two |
| `StepsKeepTags` | so the step of `_int_free` that merges and the one of `_int_malloc` that cuts `top` turn right tags into right tags, as an action property of `Spec` |

`Control` is inductive: a procedure is called from several places, some of which
have the mutex, and `_int_free` is called with it or without (`have_lock`), so that
the invariant has to follow `have_lock` through the stack. `BinsAreMarked` adds that
the arena has its fields and only those bins; each operator of `MallocChunks` has a
lemma, and the loop of `malloc_consolidate` is an induction as above (`UpTo`).
`HolderAlone` needs both. `ThreadAssumption` (no thread is named as the free mutex
is) is the one assumption that these proofs added.

`Tagged` says when tags are right: no chunk reaches into another, the next chunk
follows at once, fenceposts are in use, and a chunk said to be free before another
is there, is large enough, is not `top`, and has no free chunk before it. That the
theorems about it have hypotheses that are met was checked by TLC in all thirteen
worlds: `Tagged` holds with the chunks of the heap whenever the mutex is free,
before each merge, and while `_int_malloc` searches; a chunk before its merge, and
each in a fastbin that is emptied, is one of them, in use and no smaller than
`MINSIZE`; each chunk of a bin is one of them and free; and requests are aligned.
The labels left out are `sys_top` and `trim_top`, between which and the system `top`
is rebuilt. `Tagged` is not proved of `Spec`: for that the invariant would have to
say that every chunk a client, a cache, a fastbin or a call under way holds is one
of those, in use, and held once, which is `ChunksWhole`.

No fairness is stated and no liveness claimed: nothing in the file makes a lock or
a compare and exchange fair. Deadlock is checked: a world ends only when the plan
is done.

Left out: further arenas and their heaps (`arena.c` is not in the repository, so
`arena_get_retry` is a second try in the same arena); `SINGLE_THREAD_P`, which is
false; hooks, memory tagging, `perturb`, a dumped heap, huge pages, `mallopt`,
`mallinfo`, `malloc_stats`, `malloc_info`; `madvise`, which changes the contents
of free memory only; statistics that nothing reads. `largebin_index` is a table
(`LargeSizes`) in place of its shifts, `binmap` a set.

## Findings

* `mem_lost`: `last` of `find_good_or_last` is the last *free* block it met, or
  the first block if none is free. `grow_heap` overwrites its link, and the blocks
  behind it are lost to the list. `heap_term` follows the list, so lost blocks
  stay mapped. A second `heap_init` may then get another address than
  `HEAP_START`; `_malloc` starts at the constant and faults (`Segv` in
  `mem_life`).
* `mem_huge_owned`: near `SIZE_MAX` the sizes wrap and `_malloc` returns a block
  that is too small and not marked taken.
* `image_gap`: `calc_padding` is 4, not 0, for rows that are a multiple of four bytes
  long (`serialization.c:10`, and `bmp.c:9` of the filter), although
  `Image Rotation C/README.md:55` says that those lines follow each other without
  skipping. The target is not what it should be at such widths, and conforming sources
  of such widths are misread (`RotatesClockwise` speaks of sources in the program's own
  layout only). Both programs do the same, so they read each other's files
  (`ToolsAgree`). They write the four bytes from an array of three
  (`serialization.c:86-88`).
* `dictionary_buffer`: a character is stored as eight bytes (`lib.asm:176`,
  `lib.inc:167`), so that a line of more than 249 characters writes behind the buffer
  of 256 that `read_line` is given, although 255 are allowed (`Dictionary ASM/README.md:100`).
* `dictionary_word`: `jg` at `lib.inc:166` accepts a word as long as the buffer, whose
  terminator is then behind it.
* `dictionary_sign`: `parse_int` (`lib.inc:221-261`) clears `r9` for neither a plus nor
  a number without sign. `-1` and then `+5`, read without printing in between, makes -5.
* `ptmalloc_abort`: when somebody else has moved the break and the second `sbrk` is
  refused, top ends within a page, and the assertion of `malloc-impl.c:2539-2542` ends
  the process when the heap grows next. The comment at 2768-2769 hopes that 'It might be
  enough to proceed without failing'. The model also reaches the assertion without a
  refusal, in a heap that goes on in regions of `mmap` after the break has moved.

Met while modelling, without a run of their own:

* `heap_term` begins at the constant `HEAP_START` and not at what `heap_init` has
  returned (`mem.c:237`). When the page there is somebody else's and reads as zeros,
  it finds the header of an empty block and unmaps that page, of a range of any
  length the first page only. The test at `main.c:131-143` maps ten pages of its own
  there, never calls `heap_init`, and lets `heap_term` do so; no document says that the
  page should stay, so there is no run, and `OthersStayMapped` names the page
  (`ForeignPage`).
* The angle is truncated to 16 bits before it is compared with the list
  (`console_io.c:43`), so that 65626 is taken for 90.
* `print_newline` (`lib.inc:45`) has its `\n` in single quotes, which is a backslash
  followed by an n; `print_char` prints the backslash.
* `clear_stdin` of the dictionary reads for ever when the input ends where it waits
  for a newline.
* The copies that the sepia filter makes in all iterations but the last are never
  freed, nor is `input.bmp` closed; after a failed read it frees a pointer that may
  not have been set.
* `systrim` computes with `top_size - MINSIZE - 1` unsigned: for a top of exactly
  `MINSIZE` it grows the heap by a page, and `malloc_trim` reports success
  (`malloc-impl.c:2919`). The run reaches it; nothing breaks.
* `sem_open` is called with decimal 644 (`semaphore.c:31`), a mode that its owner may
  not read; a second session of a user other than root then faults (`ChildFaults`).

## Conventions

A definition under a comment that begins with "Slip:" is not part of any
specification. It is a plausible mistake in the code modelled by the definition
that follows it: a dropped guard, a missing unlock, a padding that is not
counted. `PROJECT.json` pairs each property with a slip that breaks it.

Definitions keep the names of the code where there is one (`block_splittable`,
`from_bmp`, `change_arr`). A variable marked auxiliary records history for a
property; no guard depends on it but those that bound a run (`MAXCHANGES`,
`MAXWRITES`, `MAXSTARTS`, `MAXEPOCH`).

## Plan

Done, in this order: `Allocator`, `MemAlloc` and its proofs; `Litmus`,
`CpuReordering` and their proofs; `Echo`, `PingPong`, `Pipes`; `MutexPrint`;
`BlockHeap` and its proofs; `Picture`, `ImageRotation`; `Sepia` and the composition
of the image programs; `IOLibrary`, `Dictionary`; `MallocChunks`, `Ptmalloc`; and `MCSeminars` and `MCLabs`, which run the small
programs together.

The proofs came in the order `MemAllocProofs`, `SeminarProofs` (`BlockHeap` and
`Pipes`), `SemaphoreProofs` (`PingPong` and `MutexPrint`), `ImageToolsProofs`,
`DictionaryProofs`, `PtmallocProofs`. Each invariant was first added to a run of its
module.

What a next step would be: `ChunksWhole` as an invariant of `Ptmalloc`. It needs, for
each label, what the call under way holds, and `Tagged` (see the malloc of glibc) of
the chunks that all of them hold.

## What stays with TLC

* Liveness, for which the prover has no rules: `CallsReturn`, `Terminates`,
  `AllIsPrinted`, `Answered`, `NobodyWaits`, `EndsUnlessItWaits`, and the fairness of `Litmus` in `SequentiallyConsistent`.
* `ChunksWhole`, `StateChecked`, `NeverAborts`, `AnswersRight` of `Ptmalloc`. Fastbins
  are chains that the model follows by a fold, and the properties count chunks over
  them; and the invariant would have to say for each label what a call under way
  holds. What of them is proved: a conjunct of `StateChecked` (`BinsAreMarked`), what
  merging and splitting do (`FreeingMerges`, `AllottingSplits`, `TopSplits`), and that
  the mutex keeps all this from other threads (`HolderAlone`).

## Not modelled

* `mem_debug.c`, the allocator's `main.c` and tests: clients whose sequences of
  calls are among those of `MemAlloc`; that of `main.c:131-143`, which never calls
  `heap_init`, begins with `NoHeapInit`. The image tester compares two files.
* `seminar8/task1/fork.c`: one store, one sleep, one print; either order is
  possible and nothing is promised. `seminar6/heap-0.c`: the case of `heap-1.c`
  with every size 1.
* `seminar2` to `seminar5` and `seminar7`: single sequential procedures called
  with constants, or exercises about the machine's stack.
* Of glibc's malloc, what its section lists; of the I/O library, `string_copy` and
  the printing of strings.
