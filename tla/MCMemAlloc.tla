---------------------------- MODULE MCMemAlloc ----------------------------
(* Small instances of MemAlloc: a header of one cell, pages of four, so    *)
(* that a region of two pages holds two blocks and a block can end in the  *)
(* middle of a page.                                                       *)
EXTENDS MemAlloc

MCInitials == {0}
MCQueries  == {1, 7}      \* the smallest block; more than a fresh region has
MCForeign  == 28 .. 31    \* room for one extension, then a region elsewhere

LifeQueries == {1, 3, 6}
LifeForeign == 20 .. 23   \* no room to extend: every growth goes elsewhere

Premapped == 8 .. 15      \* pages from HEAP_START on, as in main.c:134

HugeQueries == {1, 62}    \* 62 + HDR + HDR is 0 modulo WORD

WideQueries == {1, 6, 62}

NoForeign == {}

=============================================================================
