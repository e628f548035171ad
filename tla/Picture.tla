------------------------------- MODULE Picture --------------------------------
(***************************************************************************)
(* Images in memory and on disk, as "Image Rotation C" has them: the       *)
(* rotations of src/rotation.c with their index arithmetic, and the layout *)
(* of pixels in a file (src/serialization.c).  Rows are numbered from the  *)
(* bottom of the picture, as in a BMP file.                                *)
(***************************************************************************)
EXTENDS Integers

PIXEL_SIZE == 3

(* An image: `data' holds the pixels row by row.                           *)
Cells(width, height) == 0 .. width * height - 1

(* ROATATE: `source_pix' says where the pixel in row i, column j of the    *)
(* result comes from.                                                      *)
ROATATE(source_pix, source, width, height) ==
  [width  |-> width,
   height |-> height,
   data   |-> [k \in Cells(width, height) |->
                 source.data[source_pix[k \div width][k % width]]]]

(* Slip: the row is not counted down from the last one.                    *)
rotate_90_mirrored(source) ==
  LET pix == [i \in Nat |-> [j \in Nat |-> source.width * j + i]]
  IN  ROATATE(pix, source, source.height, source.width)

rotate_90(source) ==
  LET pix == [i \in Nat |-> [j \in Nat |-> source.width * (j + 1) - 1 - i]]
  IN  ROATATE(pix, source, source.height, source.width)

rotate_90_reverse(source) ==
  LET pix == [i \in Nat |-> [j \in Nat |-> source.width * (source.height - 1 - j) + i]]
  IN  ROATATE(pix, source, source.height, source.width)

rotate_180(source) ==
  LET pix == [i \in Nat |-> [j \in Nat |->
               source.width * (source.height - 1 - i) + (source.width - 1 - j)]]
  IN  ROATATE(pix, source, source.width, source.height)

copy_image(source) ==
  LET pix == [i \in Nat |-> [j \in Nat |-> i * source.width + j]]
  IN  ROATATE(pix, source, source.width, source.height)

(* Division as C does it, towards zero.                                    *)
Quotient(a, b) == IF a < 0 THEN -((-a) \div b) ELSE a \div b

Abs(n) == IF n < 0 THEN -n ELSE n

(* The switch of main.  (The sign of % does not matter under abs.)         *)
Transformed(angle, img) ==
  CASE Abs(Quotient(angle, 90)) % 2 = 0 ->
         IF angle = 0 THEN copy_image(img) ELSE rotate_180(img)
    [] Abs(Quotient(angle, 90)) = 1 ->
         IF angle < 0 THEN rotate_90_reverse(img) ELSE rotate_90(img)
    [] OTHER ->
         IF angle < 0 THEN rotate_90(img) ELSE rotate_90_reverse(img)

-----------------------------------------------------------------------------
(* The layout of a file.                                                   *)

calc_padding(width) == 4 - ((width * PIXEL_SIZE) % 4)

(* How many bytes of pixels precede row i.                                 *)
RowAt(width, padding, i) == i * (width * PIXEL_SIZE + padding)

-----------------------------------------------------------------------------
(* The reference: a quarter turn clockwise takes the pixel in column x of  *)
(* row y to row width - 1 - x and column y.                                *)

Pixel(img, x, y) == img.data[y * img.width + x]

Turned(img) ==
  [width  |-> img.height,
   height |-> img.width,
   data   |-> [k \in Cells(img.width, img.height) |->
                 LET x == k % img.height
                     y == k \div img.height
                 IN  Pixel(img, img.width - 1 - y, x)]]

(* An angle stands for as many quarter turns, counted modulo four.         *)
Clockwise(angle, img) ==
  LET once  == Turned(img)
      twice == Turned(once)
  IN  <<img, once, twice, Turned(twice)>>[1 + ((angle \div 90) % 4)]

=============================================================================
