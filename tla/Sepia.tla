-------------------------------- MODULE Sepia ---------------------------------
(***************************************************************************)
(* "Sepia Filter C, ASM": main filters input.bmp twice, with filter_c and  *)
(* with the SSE loop of filter.asm, and writes output1.bmp and output2.bmp.*)
(* A step is a call of main; every one may fail, whenever it is made.      *)
(*                                                                         *)
(* The floats are exact thousandths here.  Their error is less than one    *)
(* thousandth, so it decides only where a sum is rounded at the point      *)
(* between two results: there `low' chooses the lower one, once for all    *)
(* pixels.  The build is CMake's Debug: what simd_filter does to rbx and   *)
(* r12-r15 meets nothing that gcc keeps there without optimisation.        *)
(***************************************************************************)
EXTENDS Picture, Sequences

CONSTANTS
  Inputs,          \* the files that may be at input.bmp: see InputFiles
  amout_of_iters   \* 500

(* `bytes' are those behind the header, colours and padding.               *)
InputFiles ==
  [kind : {"missing", "short", "alien", "bmp"}, width : Nat, height : Nat,
   bytes : Seq(0 .. 255)]

ASSUME SepiaAssumption ==
  Inputs \subseteq InputFiles /\ amout_of_iters \in Nat \ {0}

VARIABLES
  stage,    \* where main is
  input,    \* input.bmp
  image,    \* what img points to
  out1,     \* the last result of filter_c
  out2,     \* the last result of filter_asm
  iters,    \* turns of the loops that are done
  output1,  \* the images in the two files, <<>> if they are not whole
  output2,
  code      \* the result of main

filter_vars == <<stage, input, image, out1, out2, iters, output1, output2, code>>

NoImage == [width |-> 0, height |-> 0, data |-> <<>>]

RUNNING == -1

-----------------------------------------------------------------------------
(* The filters.  A pixel is <<b, g, r>>.                                   *)

sat(v) == IF v > 255 THEN 255 ELSE v

(* A float is cut off when it becomes an integer.                          *)
Cut(sum, low) ==
  IF low /\ sum > 0 /\ sum % 1000 = 0 THEN (sum \div 1000) - 1 ELSE sum \div 1000

filter_c(p, low) ==
  LET r == p[3]
      g == p[2]
      b == p[1]
  IN  << sat(Cut(r * 272 + g * 534 + b * 131, low)),
         sat(Cut(r * 349 + g * 686 + b * 168, low)),
         sat(Cut(r * 393 + g * 769 + b * 189, low)) >>

(* cvtps2dq goes to the nearest integer.                                   *)
Nearest(sum, low) ==
  IF low /\ sum % 1000 = 500 THEN sum \div 1000 ELSE (sum + 500) \div 1000

b_vec == <<131, 168, 189>>
g_vec == <<534, 686, 769>>

(* Slip: the vector is written down from the highest element.              *)
r_vec_reversed == <<393, 349, 272>>

r_vec == <<272, 349, 393>>

process_matrix(p) ==
  [lane \in 1 .. 3 |-> p[1] * b_vec[lane] + p[2] * g_vec[lane] + p[3] * r_vec[lane]]

save_filtered(sums, low) == [lane \in 1 .. 3 |-> sat(Nearest(sums[lane], low))]

-----------------------------------------------------------------------------
(* Files.                                                                  *)

(* Slip: the rows follow each other.                                       *)
RowBytesPacked(width) == width * PIXEL_SIZE

RowBytes(width) == width * PIXEL_SIZE + calc_padding(width)

(* The image in a file, as from_bmp reads it: pixel k of column k % width. *)
Image(file) ==
  [width |-> file.width, height |-> file.height,
   data |-> [k \in Cells(file.width, file.height) |->
               LET at == (k \div file.width) * RowBytes(file.width)
                         + (k % file.width) * PIXEL_SIZE
               IN  [c \in 1 .. PIXEL_SIZE |-> file.bytes[at + c]]]]

(* The padding of the last row need not be there.                          *)
Complete(file) ==
  \/ file.width = 0 \/ file.height = 0
  \/ Len(file.bytes) >= RowBytes(file.width) * file.height - calc_padding(file.width)

(* Padding is zeros, a fourth byte of it what lies behind the three of     *)
(* zero_padding: nobody looks at either.                                   *)
PADDING == -1

to_bmp_file(im) ==
  [kind |-> "bmp", width |-> im.width, height |-> im.height,
   bytes |-> [n \in 1 .. im.height * RowBytes(im.width) |->
                LET row == (n - 1) \div RowBytes(im.width)
                    col == (n - 1) % RowBytes(im.width)
                IN  IF col < im.width * PIXEL_SIZE
                    THEN im.data[row * im.width + col \div PIXEL_SIZE][1 + (col % PIXEL_SIZE)]
                    ELSE PADDING]]

-----------------------------------------------------------------------------
(* main.                                                                   *)

Leave(c) == stage' = "ended" /\ code' = c

(* An access through a null or wild pointer, or a heap that is damaged.    *)
Fault == stage' = "crashed" /\ UNCHANGED code

(* Only the second of the two is looked at; the first is then a null       *)
(* pointer for fread.                                                      *)
open_input ==
  /\ stage = "open"
  /\ \/ input.kind # "missing" /\ stage' = "read" /\ UNCHANGED code
     \/ input.kind # "missing" /\ Fault
     \/ Leave(1)
  /\ UNCHANGED <<input, image, out1, out2, iters, output1, output2>>

(* Without memory for the image `free' gets the address of main's pointer; *)
(* behind a bad header data is whatever it was, and is freed.              *)
sepia_from_bmp ==
  /\ stage = "read"
  /\ \/ /\ input.kind = "bmp" /\ Complete(input)
        /\ image' = Image(input)
        /\ stage' = "create" /\ UNCHANGED code
     \/ (Leave(1) \/ Fault) /\ UNCHANGED image
  /\ UNCHANGED <<input, out1, out2, iters, output1, output2>>

create_outputs ==
  /\ stage = "create"
  /\ \/ stage' = "c" /\ UNCHANGED code
     \/ Leave(1)
  /\ UNCHANGED <<input, image, out1, out2, iters, output1, output2>>

(* copy_image does not look at what malloc returns.                        *)
FilterC ==
  /\ stage = "c"
  /\ \/ /\ \E low \in BOOLEAN :
             out1' = [image EXCEPT !.data = [k \in DOMAIN @ |-> filter_c(@[k], low)]]
        /\ iters' = (iters + 1) % amout_of_iters
        /\ stage' = IF iters' = 0 THEN "asm" ELSE "c"
        /\ UNCHANGED code
     \/ Fault /\ UNCHANGED <<out1, iters>>
  /\ UNCHANGED <<input, image, out2, output1, output2>>

(* The loop filters one pixel behind the image, in the room that malloc    *)
(* has left, or in what it keeps of the next chunk.                        *)
FilterAsm ==
  /\ stage = "asm"
  /\ \/ /\ \E low \in BOOLEAN :
             out2' = [image EXCEPT !.data =
                        [k \in DOMAIN @ |-> save_filtered(process_matrix(@[k]), low)]]
        /\ iters' = (iters + 1) % amout_of_iters
        /\ stage' = IF iters' = 0 THEN "write" ELSE "asm"
        /\ UNCHANGED code
     \/ Fault /\ UNCHANGED <<out2, iters>>
  /\ UNCHANGED <<input, image, out1, output1, output2>>

(* A row of no bytes counts as a failure; the second file is written also  *)
(* after the first has failed.                                             *)
sepia_to_bmp ==
  /\ stage = "write"
  /\ \E whole1, whole2 \in BOOLEAN :
       /\ whole1 \/ whole2 => image.width > 0 \/ image.height = 0
       /\ output1' = IF whole1 THEN <<to_bmp_file(out1)>> ELSE <<>>
       /\ output2' = IF whole2 THEN <<to_bmp_file(out2)>> ELSE <<>>
       /\ Leave(IF whole1 /\ whole2 THEN 0 ELSE 1)
  /\ UNCHANGED <<input, image, out1, out2, iters>>

FilterInit ==
  /\ stage = "open" /\ input \in Inputs
  /\ image = NoImage /\ out1 = NoImage /\ out2 = NoImage /\ iters = 0
  /\ output1 = <<>> /\ output2 = <<>> /\ code = RUNNING

FilterNext == \/ open_input \/ sepia_from_bmp \/ create_outputs
              \/ FilterC \/ FilterAsm \/ sepia_to_bmp

-----------------------------------------------------------------------------
(* Properties.                                                             *)

Near(p, q) == \A c \in 1 .. PIXEL_SIZE : p[c] - q[c] \in -1 .. 1

(* When main succeeds, the two files it has written, read again, hold      *)
(* pictures of the input's size that are nowhere more than one shade       *)
(* apart: the formulas of filter.c:21-23, which are cut off, and the       *)
(* vectors of filter.asm:47-52, which are rounded.                         *)
FiltersAgree ==
  code = 0 =>
    LET im1 == Image(output1[1])
        im2 == Image(output2[1])
    IN  /\ im1.width = input.width /\ im1.height = input.height
        /\ im2.width = input.width /\ im2.height = input.height
        /\ \A k \in Cells(input.width, input.height) : Near(im1.data[k], im2.data[k])

=============================================================================
