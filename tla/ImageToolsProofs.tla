--------------------------- MODULE ImageToolsProofs ---------------------------
(* Proofs about the two image programs, run alone or one after the other   *)
(* (ToolsSpec): for pictures of any size, any gap between the rows of a    *)
(* source file, any arguments and any input of the filter.                 *)
EXTENDS MCImageTools, SequenceTheorems, TLAPS

(***************************************************************************)
(* Rows and columns.                                                       *)
(***************************************************************************)

(* A product grows with each of its factors.                               *)
LEMMA Times ==
  ASSUME NEW a \in Int, NEW b \in Int, a < b, NEW s \in Nat
  PROVE  a * s + s <= b * s
<1>1. (a + 1) * s <= b * s
  BY SMT
<1>2. (a + 1) * s = a * s + s
  BY SMT
<1> QED
  BY <1>1, <1>2, SMT

(* Division leaves a remainder.                                            *)
LEMMA Divided ==
  ASSUME NEW n \in Nat, NEW s \in Nat, s > 0
  PROVE  /\ n \div s \in Nat /\ n % s \in 0 .. s - 1
         /\ n = (n \div s) * s + (n % s)
<1> DEFINE d == n \div s
           m == n % s
<1>1. d \in Int /\ m \in 0 .. s - 1 /\ n = s * d + m
  BY SMT
<1>2. d >= 0
  BY SMT
<1> HIDE DEF d, m
<1>3. s * d = d * s
  BY <1>1, SMT
<1>4. d \in Nat /\ m \in 0 .. s - 1 /\ n = d * s + m
  BY <1>1, <1>2, <1>3, SMT
<1> QED
  BY <1>4, Zenon DEF d, m

(* What is less than a whole row apart lies in one row.                    *)
LEMMA Closer ==
  ASSUME NEW a \in Int, NEW b \in Int, NEW s \in Int, NEW m \in Int, NEW r \in Int,
         a + r = b + m, 0 <= r, m < s
  PROVE  ~(b + s <= a)
BY SMT

(* Division with a remainder has one answer only.                          *)
LEMMA DivMod ==
  ASSUME NEW s \in Nat \ {0}, NEW q \in Nat, NEW r \in 0 .. s - 1
  PROVE  (q * s + r) \div s = q /\ (q * s + r) % s = r
<1> DEFINE n == q * s + r
           d == n \div s
<1>0. n \in Nat
  BY SMT
<1>1. d \in Nat /\ n % s \in 0 .. s - 1 /\ n = d * s + (n % s)
  <2>1. s \in Nat /\ s > 0
    BY SMT
  <2> QED
    BY <1>0, <2>1, Divided, Zenon
<1> HIDE DEF n, d
<1>2. n = q * s + r
  BY DEF n
<1>3. /\ q \in Int /\ d \in Int /\ s \in Int /\ r \in Int /\ (n % s) \in Int
      /\ q * s \in Int /\ d * s \in Int
      /\ 0 <= r /\ r < s /\ 0 <= n % s /\ n % s < s
  BY <1>1, SMT
<1>4. q * s + r = d * s + (n % s)
  BY <1>1, <1>2, Zenon
<1>5. ~(d < q) /\ ~(q < d)
  <2>1. ~(d * s + s <= q * s)
    BY <1>3, <1>4, Closer, Zenon
  <2>2. ~(q * s + s <= d * s)
    BY <1>3, <1>4, Closer, Zenon
  <2> QED
    BY <1>3, <2>1, <2>2, Times, Zenon
<1>6. d = q
  BY <1>1, <1>3, <1>5, SMT
<1>7. n % s = r
  BY <1>3, <1>4, <1>6, SMT
<1> QED
  BY <1>6, <1>7 DEF n, d

(* A cell has a row and a column, and they say which cell it is.           *)
LEMMA RowAndColumn ==
  ASSUME NEW w \in Nat, NEW h \in Nat, NEW k \in Cells(w, h)
  PROVE  /\ w > 0 /\ h > 0
         /\ k \div w \in 0 .. h - 1 /\ k % w \in 0 .. w - 1
         /\ k = (k \div w) * w + (k % w)
<1>0. k \in Nat /\ k < w * h
  BY SMT DEF Cells
<1>1. w # 0 /\ h # 0
  BY <1>0, SMT
<1>2. k \div w \in Nat /\ k % w \in 0 .. w - 1 /\ k = (k \div w) * w + (k % w)
  <2>1. w > 0
    BY <1>1, SMT
  <2> QED
    BY <1>0, <2>1, Divided, Zenon
<1>3. ~(k \div w >= h)
  <2>1. ASSUME k \div w >= h PROVE h * w <= (k \div w) * w
    BY <1>2, <2>1, SMT
  <2> QED
    BY <1>0, <1>2, <2>1, SMT
<1> QED
  BY <1>1, <1>2, <1>3, SMT

(* The cell in a row and a column.                                         *)
LEMMA CellAt ==
  ASSUME NEW w \in Nat, NEW h \in Nat, NEW y \in 0 .. h - 1, NEW x \in 0 .. w - 1
  PROVE  /\ y * w + x \in Cells(w, h)
         /\ (y * w + x) \div w = y /\ (y * w + x) % w = x
<1>1. y * w + w <= h * w
  BY Times, SMT
<1>2. y * w + x \in Nat /\ y * w + x < w * h
  BY <1>1, SMT
<1> QED
  BY <1>2, DivMod, SMT DEF Cells

-----------------------------------------------------------------------------
(* Pictures.                                                               *)

(* The record of an image, with a value for every cell.                    *)
Framed(im) ==
  /\ im.width \in Nat /\ im.height \in Nat
  /\ im = [width |-> im.width, height |-> im.height, data |-> im.data]
  /\ im.data = [k \in Cells(im.width, im.height) |-> im.data[k]]

(* An image whose colours are in S.                                        *)
IsImage(im, S) ==
  /\ Framed(im)
  /\ \A k \in Cells(im.width, im.height) : im.data[k] \in [1 .. PIXEL_SIZE -> S]

(* The pixel in row y, column x is that of `source' at some place.         *)
LEMMA SameImage ==
  ASSUME NEW a, NEW b, Framed(a), Framed(b),
         a.width = b.width, a.height = b.height,
         \A y \in 0 .. a.height - 1, x \in 0 .. a.width - 1 : Pixel(a, x, y) = Pixel(b, x, y)
  PROVE  a = b
<1> DEFINE w == a.width
           h == a.height
<1>1. w \in Nat /\ h \in Nat
  BY DEF Framed
<1>2. ASSUME NEW k \in Cells(w, h) PROVE a.data[k] = b.data[k]
  <2>1. k \div w \in 0 .. h - 1 /\ k % w \in 0 .. w - 1 /\ k = (k \div w) * w + (k % w)
    BY <1>1, RowAndColumn, Zenon
  <2>2. Pixel(a, k % w, k \div w) = Pixel(b, k % w, k \div w)
    BY <2>1, Zenon
  <2> QED
    BY <2>1, <2>2 DEF Pixel
<1>3. a.data = b.data
  BY <1>2 DEF Framed
<1> QED
  BY <1>3 DEF Framed

(* Where a quarter turn takes the pixels from.                             *)
LEMMA QuarterTurn ==
  ASSUME NEW im, Framed(im)
  PROVE  /\ Framed(Turned(im))
         /\ Turned(im).width = im.height /\ Turned(im).height = im.width
         /\ \A y \in 0 .. im.width - 1, x \in 0 .. im.height - 1 :
              Pixel(Turned(im), x, y) = Pixel(im, im.width - 1 - y, x)
<1> DEFINE w == im.width
           h == im.height
<1>1. w \in Nat /\ h \in Nat
  BY DEF Framed
<1>2. Cells(h, w) = Cells(w, h)
  BY <1>1, SMT DEF Cells
<1>3. /\ Framed(Turned(im))
      /\ Turned(im).width = h /\ Turned(im).height = w
  BY <1>1, <1>2 DEF Framed, Turned
<1>4. ASSUME NEW y \in 0 .. w - 1, NEW x \in 0 .. h - 1
      PROVE  Pixel(Turned(im), x, y) = Pixel(im, w - 1 - y, x)
  <2> DEFINE k == y * h + x
  <2>1. k \in Cells(w, h) /\ k \div h = y /\ k % h = x
    BY <1>1, <1>2, CellAt, Zenon
  <2>2. Pixel(Turned(im), x, y) = Turned(im).data[k]
    BY <1>3 DEF Pixel
  <2> HIDE DEF k
  <2>3. Turned(im).data[k] = Pixel(im, w - 1 - (k \div h), k % h)
    BY <2>1 DEF Turned
  <2> QED
    BY <2>1, <2>2, <2>3, Zenon
<1> QED
  BY <1>3, <1>4


(* Where the index formulas of rotation.c take the pixels from.            *)
LEMMA Formulas ==
  ASSUME NEW w \in Nat, NEW h \in Nat, NEW y \in Int, NEW x \in Int
  PROVE  /\ w * (x + 1) - 1 - y = x * w + (w - 1 - y)
         /\ w * (h - 1 - x) + y = (h - 1 - x) * w + (w - 1 - (w - 1 - y))
         /\ w * (h - 1 - y) + (w - 1 - x) = (h - 1 - y) * w + (w - 1 - x)
<1>1. w * (x + 1) = x * w + w
  BY SMT
<1>2. w * (h - 1 - x) = (h - 1 - x) * w
  BY SMT
<1>3. w * (h - 1 - y) = (h - 1 - y) * w
  BY SMT
<1>4. x * w \in Int /\ (h - 1 - x) * w \in Int /\ (h - 1 - y) * w \in Int
  BY SMT
<1> QED
  BY <1>1, <1>2, <1>3, <1>4, SMT

LEMMA Copied ==
  ASSUME NEW im, Framed(im)
  PROVE  copy_image(im) = im
<1> DEFINE w == im.width
           h == im.height
<1>1. w \in Nat /\ h \in Nat
  BY DEF Framed
<1>2. ASSUME NEW k \in Cells(w, h) PROVE im.data[(k \div w) * w + (k % w)] = im.data[k]
  BY <1>1, RowAndColumn, Zenon
<1>3. \A k \in Cells(w, h) : k \div w \in Nat /\ k % w \in Nat
  BY <1>1, RowAndColumn
<1>4. copy_image(im) = [width |-> w, height |-> h,
                        data |-> [k \in Cells(w, h) |-> im.data[(k \div w) * w + (k % w)]]]
  BY <1>3 DEF copy_image, ROATATE
<1>5. [k \in Cells(w, h) |-> im.data[(k \div w) * w + (k % w)]] = im.data
  BY <1>2 DEF Framed
<1> QED
  BY <1>4, <1>5 DEF Framed

(* rotate_90 turns once, rotate_180 twice, rotate_90_reverse three times.  *)
LEMMA Once ==
  ASSUME NEW im, Framed(im)
  PROVE  rotate_90(im) = Turned(im)
<1> DEFINE w == im.width
           h == im.height
           to == rotate_90(im)
<1>1. w \in Nat /\ h \in Nat
  BY DEF Framed
<1>2. Framed(to) /\ to.width = h /\ to.height = w
  BY <1>1 DEF Framed, rotate_90, ROATATE
<1>3. ASSUME NEW y \in 0 .. w - 1, NEW x \in 0 .. h - 1
      PROVE  Pixel(to, x, y) = Pixel(Turned(im), x, y)
  <2> DEFINE k == y * h + x
  <2>1. k \in Cells(h, w) /\ k \div h = y /\ k % h = x
    BY <1>1, CellAt, Zenon
  <2>2. Pixel(to, x, y) = to.data[k]
    BY <1>2 DEF Pixel
  <2> HIDE DEF k
  <2>3. to.data[k] = im.data[w * (x + 1) - 1 - y]
    BY <2>1 DEF rotate_90, ROATATE
  <2>4. to.data[k] = Pixel(im, w - 1 - y, x)
    <3>1. y \in Int /\ x \in Int
      OBVIOUS
    <3>2. w * (x + 1) - 1 - y = x * w + (w - 1 - y)
      BY <1>1, <3>1, Formulas, Zenon
    <3> QED
      BY <2>3, <3>2 DEF Pixel
  <2> QED
    BY <2>2, <2>4, QuarterTurn, Zenon
<1> QED
  BY <1>2, <1>3, QuarterTurn, SameImage, Zenon

LEMMA Twice ==
  ASSUME NEW im, Framed(im)
  PROVE  rotate_180(im) = Turned(Turned(im))
<1> DEFINE w == im.width
           h == im.height
           to == rotate_180(im)
           one == Turned(im)
           two == Turned(one)
<1>1. w \in Nat /\ h \in Nat
  BY DEF Framed
<1>2. Framed(to) /\ to.width = w /\ to.height = h
  BY <1>1 DEF Framed, rotate_180, ROATATE
<1>3. Framed(one) /\ one.width = h /\ one.height = w
  BY QuarterTurn, Zenon
<1>4. Framed(two) /\ two.width = w /\ two.height = h
  BY <1>3, QuarterTurn, Zenon
<1>5. ASSUME NEW y \in 0 .. h - 1, NEW x \in 0 .. w - 1
      PROVE  Pixel(to, x, y) = Pixel(two, x, y)
  <2> DEFINE k == y * w + x
  <2>1. k \in Cells(w, h) /\ k \div w = y /\ k % w = x
    BY <1>1, CellAt, Zenon
  <2>2. Pixel(to, x, y) = to.data[k]
    BY <1>2 DEF Pixel
  <2> HIDE DEF k
  <2>3. to.data[k] = im.data[w * (h - 1 - y) + (w - 1 - x)]
    BY <2>1 DEF rotate_180, ROATATE
  <2>4. to.data[k] = Pixel(im, w - 1 - x, h - 1 - y)
    <3>1. y \in Int /\ x \in Int
      OBVIOUS
    <3>2. w * (h - 1 - y) + (w - 1 - x) = (h - 1 - y) * w + (w - 1 - x)
      BY <1>1, <3>1, Formulas, Zenon
    <3> QED
      BY <2>3, <3>2 DEF Pixel
  <2>5. Pixel(two, x, y) = Pixel(one, h - 1 - y, x)
    <3> HIDE DEF one, two
    <3> QED
      BY <1>3, QuarterTurn DEF two
  <2>6. Pixel(one, h - 1 - y, x) = Pixel(im, w - 1 - x, h - 1 - y)
    <3>1. h - 1 - y \in 0 .. h - 1
      BY <1>1, SMT
    <3> QED
      BY <3>1, QuarterTurn, Zenon
  <2> QED
    BY <2>2, <2>4, <2>5, <2>6, Zenon
<1> HIDE DEF to, two
<1>6. to = two
  BY <1>2, <1>4, <1>5, SameImage, Zenon
<1> QED
  BY <1>6 DEF to, two

LEMMA ThreeTimes ==
  ASSUME NEW im, Framed(im)
  PROVE  rotate_90_reverse(im) = Turned(Turned(Turned(im)))
<1> DEFINE w == im.width
           h == im.height
           to == rotate_90_reverse(im)
           two == Turned(Turned(im))
           three == Turned(two)
<1>1. w \in Nat /\ h \in Nat
  BY DEF Framed
<1>2. Framed(to) /\ to.width = h /\ to.height = w
  BY <1>1 DEF Framed, rotate_90_reverse, ROATATE
<1>3. Framed(two) /\ two.width = w /\ two.height = h
  BY QuarterTurn, Zenon
<1>4. Framed(three) /\ three.width = h /\ three.height = w
  BY <1>3, QuarterTurn, Zenon
<1>5. ASSUME NEW y \in 0 .. w - 1, NEW x \in 0 .. h - 1
      PROVE  Pixel(to, x, y) = Pixel(three, x, y)
  <2> DEFINE k == y * h + x
  <2>0. y \in Int /\ x \in Int /\ w - 1 - y \in 0 .. w - 1 /\ w - 1 - y \in Int
    BY <1>1, SMT
  <2>1. k \in Cells(h, w) /\ k \div h = y /\ k % h = x
    BY <1>1, CellAt, Zenon
  <2>2. Pixel(to, x, y) = to.data[k]
    BY <1>2 DEF Pixel
  <2> HIDE DEF k
  <2>3. to.data[k] = im.data[w * (h - 1 - x) + y]
    BY <2>1 DEF rotate_90_reverse, ROATATE
  <2>4. to.data[k] = Pixel(im, w - 1 - (w - 1 - y), h - 1 - x)
    <3>1. w * (h - 1 - x) + y = (h - 1 - x) * w + (w - 1 - (w - 1 - y))
      BY <1>1, <2>0, Formulas
    <3> QED
      BY <2>3, <3>1 DEF Pixel
  <2>5. Pixel(three, x, y) = Pixel(two, w - 1 - y, x)
    <3> HIDE DEF two, three
    <3> QED
      BY <1>3, QuarterTurn DEF three
  <2>6. Pixel(two, w - 1 - y, x) = Pixel(im, w - 1 - (w - 1 - y), h - 1 - x)
    <3> DEFINE v == rotate_180(im)
    <3>1. two = v
      BY Twice, Zenon
    <3> DEFINE n == x * w + (w - 1 - y)
    <3>2. v.width = w
      BY DEF rotate_180, ROATATE
    <3>3. n \in Cells(w, h) /\ n \div w = x /\ n % w = w - 1 - y
      BY <1>1, <2>0, CellAt, Zenon
    <3>4. w * (h - 1 - x) + (w - 1 - (w - 1 - y)) = (h - 1 - x) * w + (w - 1 - (w - 1 - y))
      BY <1>1, <2>0, Formulas
    <3>5. Pixel(v, w - 1 - y, x) = v.data[n]
      BY <3>2 DEF Pixel
    <3> HIDE DEF n
    <3>6. v.data[n] = im.data[w * (h - 1 - x) + (w - 1 - (w - 1 - y))]
      BY <2>0, <3>3 DEF rotate_180, ROATATE
    <3> HIDE DEF v
    <3> QED
      BY <3>1, <3>4, <3>5, <3>6 DEF Pixel
  <2> QED
    BY <2>2, <2>4, <2>5, <2>6, Zenon
<1> HIDE DEF to, three
<1>6. to = three
  BY <1>2, <1>4, <1>5, SameImage, Zenon
<1> QED
  BY <1>6 DEF to, three


(* The switch of main turns by as many quarters as the angle has.          *)
LEMMA SwitchIsRight ==
  ASSUME NEW im, Framed(im), NEW a \in Allowed
  PROVE  Transformed(a, im) = Clockwise(a, im)
<1> DEFINE one   == Turned(im)
           two   == Turned(one)
           three == Turned(two)
           t(n)  == <<im, one, two, three>>[1 + n]
<1>1. /\ copy_image(im) = im /\ rotate_90(im) = one
      /\ rotate_180(im) = two /\ rotate_90_reverse(im) = three
  BY Copied, Once, Twice, ThreeTimes, Zenon
<1>2. Clockwise(a, im) = t((a \div 90) % 4)
  BY DEF Clockwise
<1> HIDE DEF one, two, three
<1>3. t(0) = im /\ t(1) = one /\ t(2) = two /\ t(3) = three
  BY SMT
<1> HIDE DEF t
<1>4. CASE a = 0
  <2>1. a \in Int /\ a = 0
    BY <1>4, SMT
  <2>2. /\ (a \div 90) % 4 = 0 /\ Abs(Quotient(a, 90)) % 2 = 0
    BY <2>1, SMT DEF Abs, Quotient
  <2> QED
    BY <1>1, <1>2, <1>3, <1>4, <2>2 DEF Transformed
<1>5. CASE a = 90
  <2>1. a \in Int /\ a = 90
    BY <1>5, SMT
  <2>2. /\ (a \div 90) % 4 = 1 /\ Abs(Quotient(a, 90)) % 2 # 0
        /\ Abs(Quotient(a, 90)) = 1 /\ ~(a < 0)
    BY <2>1, SMT DEF Abs, Quotient
  <2> QED
    BY <1>1, <1>2, <1>3, <1>5, <2>2 DEF Transformed
<1>6. CASE a = -90
  <2>1. a \in Int /\ a + 90 = 0
    BY <1>6, SMT
  <2>2. /\ (a \div 90) % 4 = 3 /\ Abs(Quotient(a, 90)) % 2 # 0
        /\ Abs(Quotient(a, 90)) = 1 /\ a < 0
    BY <2>1, SMT DEF Abs, Quotient
  <2> QED
    BY <1>1, <1>2, <1>3, <1>6, <2>2 DEF Transformed
<1>7. CASE a = 180
  <2>1. a \in Int /\ a = 180
    BY <1>7, SMT
  <2>2. /\ (a \div 90) % 4 = 2 /\ Abs(Quotient(a, 90)) % 2 = 0
        /\ a # 0
    BY <2>1, SMT DEF Abs, Quotient
  <2> QED
    BY <1>1, <1>2, <1>3, <1>7, <2>2 DEF Transformed
<1>8. CASE a = -180
  <2>1. a \in Int /\ a + 180 = 0
    BY <1>8, SMT
  <2>2. /\ (a \div 90) % 4 = 2 /\ Abs(Quotient(a, 90)) % 2 = 0
        /\ a # 0
    BY <2>1, SMT DEF Abs, Quotient
  <2> QED
    BY <1>1, <1>2, <1>3, <1>8, <2>2 DEF Transformed
<1>9. CASE a = 270
  <2>1. a \in Int /\ a = 270
    BY <1>9, SMT
  <2>2. /\ (a \div 90) % 4 = 3 /\ Abs(Quotient(a, 90)) % 2 # 0
        /\ Abs(Quotient(a, 90)) # 1 /\ ~(a < 0)
    BY <2>1, SMT DEF Abs, Quotient
  <2> QED
    BY <1>1, <1>2, <1>3, <1>9, <2>2 DEF Transformed
<1>10. CASE a = -270
  <2>1. a \in Int /\ a + 270 = 0
    BY <1>10, SMT
  <2>2. /\ (a \div 90) % 4 = 1 /\ Abs(Quotient(a, 90)) % 2 # 0
        /\ Abs(Quotient(a, 90)) # 1 /\ a < 0
    BY <2>1, SMT DEF Abs, Quotient
  <2> QED
    BY <1>1, <1>2, <1>3, <1>10, <2>2 DEF Transformed
<1> QED
  BY <1>4, <1>5, <1>6, <1>7, <1>8, <1>9, <1>10 DEF Allowed

(* Turning moves pixels about and makes none.                              *)
LEMMA TurnedImage ==
  ASSUME NEW S, NEW im, IsImage(im, S)
  PROVE  IsImage(Turned(im), S)
<1> DEFINE w == im.width
           h == im.height
<1>1. Framed(im) /\ w \in Nat /\ h \in Nat
  BY DEF IsImage, Framed
<1>2. /\ Framed(Turned(im)) /\ Turned(im).width = h /\ Turned(im).height = w
  BY <1>1, QuarterTurn, Zenon
<1>3. ASSUME NEW k \in Cells(h, w)
      PROVE  Turned(im).data[k] \in [1 .. PIXEL_SIZE -> S]
  <2>1. k \div h \in 0 .. w - 1 /\ k % h \in 0 .. h - 1
    BY <1>1, RowAndColumn, Zenon
  <2>0. k \in Cells(w, h)
    BY <1>1, SMT DEF Cells
  <2>2. w - 1 - (k \div h) \in 0 .. w - 1
    BY <1>1, <2>1, SMT
  <2>3. (k % h) * w + (w - 1 - (k \div h)) \in Cells(w, h)
    BY <1>1, <2>1, <2>2, CellAt, Zenon
  <2>4. Turned(im).data[k] = im.data[(k % h) * w + (w - 1 - (k \div h))]
    BY <2>0 DEF Turned, Pixel
  <2> QED
    BY <2>3, <2>4 DEF IsImage
<1> QED
  BY <1>2, <1>3 DEF IsImage

LEMMA TransformedImage ==
  ASSUME NEW S, NEW im, IsImage(im, S), NEW a \in Allowed
  PROVE  IsImage(Transformed(a, im), S)
<1>1. IsImage(Turned(im), S) /\ IsImage(Turned(Turned(im)), S)
      /\ IsImage(Turned(Turned(Turned(im))), S)
  BY TurnedImage, Zenon
<1>2. Framed(im)
  BY DEF IsImage
<1>3. Transformed(a, im) \in
        {copy_image(im), rotate_90(im), rotate_180(im), rotate_90_reverse(im)}
  BY DEF Transformed
<1>4. /\ copy_image(im) = im /\ rotate_90(im) = Turned(im)
      /\ rotate_180(im) = Turned(Turned(im))
      /\ rotate_90_reverse(im) = Turned(Turned(Turned(im)))
  BY <1>2, Copied, Once, Twice, ThreeTimes, Zenon
<1> QED
  BY <1>1, <1>3, <1>4


-----------------------------------------------------------------------------
(* Files.                                                                  *)

(* Where colour c of a pixel lies among the bytes of a file whose rows     *)
(* have p bytes between them.                                              *)
LEMMA BytePlace ==
  ASSUME NEW w \in Nat, NEW h \in Nat, NEW p \in Nat, NEW k \in Cells(w, h),
         NEW c \in 1 .. PIXEL_SIZE,
         NEW at, at = RowAt(w, p, k \div w) + (k % w) * PIXEL_SIZE,
         NEW s, s = w * PIXEL_SIZE + p
  PROVE  /\ at \in Nat /\ s \in Nat /\ s > 0
         /\ at + c \in 1 .. h * s - p
         /\ (at + c - 1) \div s = k \div w
         /\ (at + c - 1) % s = (k % w) * PIXEL_SIZE + (c - 1)
         /\ (k % w) * PIXEL_SIZE + (c - 1) < w * PIXEL_SIZE
         /\ ((k % w) * PIXEL_SIZE + (c - 1)) \div PIXEL_SIZE = k % w
         /\ ((k % w) * PIXEL_SIZE + (c - 1)) % PIXEL_SIZE = c - 1
<1> DEFINE q == k \div w
           x == k % w
           r == x * 3 + (c - 1)
<1>1. q \in 0 .. h - 1 /\ x \in 0 .. w - 1 /\ w > 0
  BY RowAndColumn, Zenon
<1>2. s \in Nat /\ s > 0 /\ s = w * 3 + p
  BY <1>1, SMT DEF PIXEL_SIZE
<1>3. at = q * s + x * 3
  BY <1>2 DEF RowAt, PIXEL_SIZE
<1>4. c \in 1 .. 3
  BY DEF PIXEL_SIZE
<1> HIDE DEF q, x
<1>5. r \in 0 .. s - 1 /\ r < w * 3 /\ r \in Nat
  BY <1>1, <1>2, <1>4, SMT
<1>6. q * s \in Nat /\ x * 3 \in Nat
  BY <1>1, <1>2, SMT
<1>7. at + c - 1 = q * s + r
  BY <1>3, <1>4, <1>6, SMT
<1>8. (q * s + r) \div s = q /\ (q * s + r) % s = r
  <2>1. q \in Nat /\ s \in Nat \ {0}
    BY <1>1, <1>2, SMT
  <2> HIDE DEF r
  <2> QED
    BY <2>1, <1>5, DivMod, Zenon
<1>9. r \div 3 = x /\ r % 3 = c - 1
  <2>1. x \in Nat /\ 3 \in Nat \ {0} /\ c - 1 \in 0 .. 3 - 1
    BY <1>1, <1>4, SMT
  <2> QED
    BY <2>1, DivMod, Zenon
<1>10. at + c \in 1 .. h * s - p
  <2>1. q * s + s <= h * s /\ h * s \in Nat
    BY <1>1, <1>2, Times, SMT
  <2> QED
    BY <1>2, <1>4, <1>5, <1>6, <1>7, <2>1, SMT
<1>11. at \in Nat
  BY <1>3, <1>6, SMT
<1> QED
  BY <1>2, <1>5, <1>7, <1>8, <1>9, <1>10, <1>11 DEF q, x, PIXEL_SIZE

LEMMA Padding ==
  ASSUME NEW w \in Nat
  PROVE  calc_padding(w) \in 1 .. 4
<1>1. (w * PIXEL_SIZE) % 4 \in 0 .. 3
  BY SMT DEF PIXEL_SIZE
<1> QED
  BY <1>1, SMT DEF calc_padding

(* The bytes of files: the colours of Original and the padding.            *)
Colours == {PAD} \cup Nat \X Nat \X Nat

(* The first n rows of an image, as to_bmp writes them.                    *)
RowsOf(im, n) ==
  LET s == RowAt(im.width, calc_padding(im.width), 1)
  IN  [b \in 1 .. n * s |-> RowByte(im, (b - 1) \div s, (b - 1) % s)]

(* A byte of a row is one of the image or padding.                         *)
LEMMA ByteOfRow ==
  ASSUME NEW S, PAD \in S, NEW im, IsImage(im, S),
         NEW y \in 0 .. im.height - 1, NEW r \in Nat
  PROVE  RowByte(im, y, r) \in S
<1> DEFINE w == im.width
           h == im.height
           x == r \div 3
<1>1. w \in Nat /\ h \in Nat
  BY DEF IsImage, Framed
<1>2. ASSUME r < w * 3 PROVE im.data[y * w + x][1 + (r % 3)] \in S
  <2>1. x \in 0 .. w - 1 /\ 1 + (r % 3) \in 1 .. PIXEL_SIZE
    BY <1>1, <1>2, SMT DEF PIXEL_SIZE
  <2>2. y * w + x \in Cells(w, h)
    BY <1>1, <2>1, CellAt, Zenon
  <2> HIDE DEF x
  <2>3. im.data[y * w + x] \in [1 .. PIXEL_SIZE -> S]
    BY <2>2 DEF IsImage
  <2> QED
    BY <2>1, <2>3
<1>3. RowByte(im, y, r) = IF r < w * 3 THEN im.data[y * w + x][1 + (r % 3)] ELSE PAD
  BY DEF RowByte, Pixel, PIXEL_SIZE
<1> QED
  BY <1>2, <1>3

LEMMA RowsTyped ==
  ASSUME NEW S, PAD \in S, NEW im, IsImage(im, S), NEW n \in 0 .. im.height,
         NEW s, s = RowAt(im.width, calc_padding(im.width), 1)
  PROVE  /\ s \in Nat /\ s > 0 /\ s = im.width * PIXEL_SIZE + calc_padding(im.width)
         /\ RowsOf(im, n) \in Seq(S) /\ Len(RowsOf(im, n)) = n * s
         /\ \A b \in 1 .. n * s : RowsOf(im, n)[b] = RowByte(im, (b - 1) \div s, (b - 1) % s)
<1>1. im.width \in Nat /\ im.height \in Nat
  BY DEF IsImage, Framed
<1>2. s \in Nat /\ s > 0 /\ s = im.width * PIXEL_SIZE + calc_padding(im.width)
  BY <1>1, Padding, SMT DEF RowAt, PIXEL_SIZE
<1>3. RowsOf(im, n) = [b \in 1 .. n * s |-> RowByte(im, (b - 1) \div s, (b - 1) % s)]
  BY DEF RowsOf
<1>4. n \in Nat /\ n * s \in Nat
  BY <1>1, <1>2, SMT
<1>5. ASSUME NEW b \in 1 .. n * s
      PROVE  RowByte(im, (b - 1) \div s, (b - 1) % s) \in S
  <2>1. b - 1 \in Cells(s, n)
    BY <1>2, <1>4, SMT DEF Cells
  <2>2. (b - 1) \div s \in 0 .. n - 1 /\ (b - 1) % s \in 0 .. s - 1
    BY <1>2, <1>4, <2>1, RowAndColumn, Zenon
  <2>3. (b - 1) \div s \in 0 .. im.height - 1 /\ (b - 1) % s \in Nat
    BY <1>1, <1>2, <2>2, SMT
  <2> QED
    BY <2>3, ByteOfRow, Zenon
<1> DEFINE f == RowsOf(im, n)
<1>6. f \in [1 .. n * s -> S]
  BY <1>3, <1>5
<1>7. f \in Seq(S) /\ Len(f) = n * s
  <2> HIDE DEF f
  <2>1. f \in Seq(S)
    BY <1>4, <1>6, SeqDef
  <2>2. DOMAIN f = 1 .. n * s /\ DOMAIN f = 1 .. Len(f) /\ Len(f) \in Nat
    BY <1>6, <2>1, LenProperties
  <2> QED
    BY <1>4, <2>1, <2>2, SMT
<1> QED
  BY <1>2, <1>3, <1>7


(* Writing a row adds it behind the rows that are written.                 *)
LEMMA RowsGrow ==
  ASSUME NEW im, IsImage(im, Colours), NEW n \in 0 .. im.height - 1,
         NEW s, s = RowAt(im.width, calc_padding(im.width), 1)
  PROVE  RowsOf(im, n) \o [k \in 1 .. s |-> RowByte(im, n, k - 1)] = RowsOf(im, n + 1)
<1> DEFINE old == RowsOf(im, n)
           new == RowsOf(im, n + 1)
           one == [k \in 1 .. s |-> RowByte(im, n, k - 1)]
<1>0. PAD \in Colours
  BY DEF Colours
<1>1. im.height \in Nat /\ n \in 0 .. im.height /\ n + 1 \in 0 .. im.height
  BY SMT DEF IsImage, Framed
<1>2. /\ s \in Nat /\ s > 0
      /\ old \in Seq(Colours) /\ Len(old) = n * s
      /\ \A b \in 1 .. n * s : old[b] = RowByte(im, (b - 1) \div s, (b - 1) % s)
  BY <1>0, <1>1, RowsTyped
<1>3. /\ new \in Seq(Colours) /\ Len(new) = (n + 1) * s
      /\ \A b \in 1 .. (n + 1) * s : new[b] = RowByte(im, (b - 1) \div s, (b - 1) % s)
  <2>1. n + 1 \in 0 .. im.height
    BY <1>1
  <2> QED
    BY <1>0, <2>1, RowsTyped
<1>4. ASSUME NEW k \in 1 .. s PROVE one[k] \in Colours /\ one[k] = RowByte(im, n, k - 1)
  <2>1. k - 1 \in Nat
    BY <1>2, SMT
  <2> QED
    BY <1>0, <2>1, ByteOfRow
<1>5. one \in Seq(Colours) /\ Len(one) = s
  <2>1. one \in [1 .. s -> Colours]
    BY <1>4
  <2> HIDE DEF one
  <2>2. one \in Seq(Colours)
    BY <1>2, <2>1, SeqDef
  <2>3. DOMAIN one = 1 .. s /\ DOMAIN one = 1 .. Len(one) /\ Len(one) \in Nat
    BY <2>1, <2>2, LenProperties
  <2> QED
    BY <1>2, <2>2, <2>3, SMT
<1> HIDE DEF old, new, one
<1>6. /\ old \o one \in Seq(Colours) /\ Len(old \o one) = n * s + s
      /\ \A b \in 1 .. n * s + s :
           (old \o one)[b] = IF b <= n * s THEN old[b] ELSE one[b - n * s]
  <2>1. /\ old \o one \in Seq(Colours) /\ Len(old \o one) = Len(old) + Len(one)
        /\ \A b \in 1 .. Len(old) + Len(one) :
             (old \o one)[b] = IF b <= Len(old) THEN old[b] ELSE one[b - Len(old)]
    BY <1>2, <1>5, ConcatProperties, Zenon
  <2> QED
    BY <1>2, <1>5, <2>1, Zenon
<1>7. n \in Nat /\ n * s \in Nat /\ (n + 1) * s = n * s + s
  BY <1>1, <1>2, SMT
<1>8. ASSUME NEW b \in 1 .. n * s + s PROVE (old \o one)[b] = new[b]
  <2>1. CASE b <= n * s
    BY <1>2, <1>3, <1>6, <1>7, <2>1
  <2>2. CASE ~(b <= n * s)
    <3> DEFINE r == b - n * s - 1
    <3>1. r \in 0 .. s - 1 /\ r \in Nat /\ b - n * s \in 1 .. s /\ b - 1 = n * s + r
      <4>1. n * s \in Int /\ s \in Int /\ b \in Int /\ n * s + s \in Int
        BY <1>2, <1>7, SMT
      <4>2. b <= n * s + s /\ b > n * s
        BY <1>7, <2>2, <4>1, SMT
      <4> QED
        BY <4>1, <4>2, SMT
    <3>2. (n * s + r) \div s = n /\ (n * s + r) % s = r
      <4> HIDE DEF r
      <4>1. s \in Nat \ {0}
        BY <1>2, SMT
      <4> QED
        BY <1>7, <3>1, <4>1, DivMod, Zenon
    <3>3. new[b] = RowByte(im, n, r)
      BY <1>3, <1>7, <3>1, <3>2
    <3>4. one[b - n * s] = RowByte(im, n, r)
      BY <1>4, <3>1
    <3> QED
      BY <1>6, <2>2, <3>3, <3>4
  <2> QED
    BY <2>1, <2>2
<1>9. old \o one = new
  BY <1>3, <1>6, <1>7, <1>8, SeqEqual
<1> QED
  BY <1>9 DEF old, new, one

(* What is written holds every colour where a reader looks for it.         *)
LEMMA RowsHold ==
  ASSUME NEW im, IsImage(im, Colours), NEW k \in Cells(im.width, im.height),
         NEW c \in 1 .. PIXEL_SIZE,
         NEW p, p = calc_padding(im.width),
         NEW at, at = RowAt(im.width, p, k \div im.width) + (k % im.width) * PIXEL_SIZE
  PROVE  /\ at + c \in 1 .. RowAt(im.width, p, im.height)
         /\ RowsOf(im, im.height)[at + c] = im.data[k][c]
<1> DEFINE w == im.width
           h == im.height
           s == w * PIXEL_SIZE + p
           r == (k % w) * PIXEL_SIZE + (c - 1)
<1>0. w \in Nat /\ h \in Nat /\ p \in Nat /\ c \in 1 .. 3
  BY Padding, SMT DEF IsImage, Framed, PIXEL_SIZE
<1>1. /\ at \in Nat /\ s \in Nat /\ s > 0
      /\ at + c \in 1 .. h * s - p
      /\ (at + c - 1) \div s = k \div w
      /\ (at + c - 1) % s = r
      /\ r < w * PIXEL_SIZE
      /\ r \div PIXEL_SIZE = k % w
      /\ r % PIXEL_SIZE = c - 1
  <2>1. s = w * PIXEL_SIZE + p /\ w \in Nat /\ h \in Nat /\ p \in Nat
    BY <1>0
  <2> HIDE DEF s
  <2>2. /\ at \in Nat /\ s \in Nat /\ s > 0
        /\ at + c \in 1 .. h * s - p
        /\ (at + c - 1) \div s = k \div w
        /\ (at + c - 1) % s = (k % w) * PIXEL_SIZE + (c - 1)
        /\ (k % w) * PIXEL_SIZE + (c - 1) < w * PIXEL_SIZE
        /\ ((k % w) * PIXEL_SIZE + (c - 1)) \div PIXEL_SIZE = k % w
        /\ ((k % w) * PIXEL_SIZE + (c - 1)) % PIXEL_SIZE = c - 1
    BY <2>1, BytePlace, SMTT(60)
  <2> QED
    BY <2>2
<1>2. k = (k \div w) * w + (k % w)
  BY <1>0, RowAndColumn, Zenon
<1>3. h \in 0 .. h /\ PAD \in Colours /\ s = RowAt(w, p, 1)
  BY <1>0, <1>1 DEF Colours, RowAt
<1> HIDE DEF s, r
<1>4. h * s \in Nat /\ at + c \in 1 .. h * s /\ RowAt(w, p, h) = h * s
  BY <1>0, <1>1, SMT DEF RowAt, s
<1>5. RowsOf(im, h)[at + c] = RowByte(im, (at + c - 1) \div s, (at + c - 1) % s)
  BY <1>3, <1>4, RowsTyped
<1>6. RowByte(im, k \div w, r) = im.data[k][1 + (c - 1)]
  BY <1>1, <1>2 DEF RowByte, Pixel
<1>7. 1 + (c - 1) = c
  BY <1>0, SMT
<1> QED
  BY <1>1, <1>4, <1>5, <1>6, <1>7

(* The image from_bmp has read when n rows are behind it.                  *)
ReadSoFar(file, n) ==
  LET w == file.width
  IN  [width |-> w, height |-> file.height,
       data |-> [k \in Cells(w, n) |->
                   PixelAt(file, RowAt(w, calc_padding(w), k \div w) + (k % w) * PIXEL_SIZE)]]

LEMMA ReadOn ==
  ASSUME NEW file \in SourceFiles, NEW n \in Nat,
         NEW im, im = ReadSoFar(file, n),
         NEW at, at = RowAt(file.width, calc_padding(file.width), n)
  PROVE  [im EXCEPT !.data = [k \in Cells(im.width, n + 1) |->
                                IF k < n * im.width THEN @[k]
                                ELSE PixelAt(file, at + (k % im.width) * PIXEL_SIZE)]]
           = ReadSoFar(file, n + 1)
<1> DEFINE w == file.width
           from(k) == PixelAt(file, RowAt(w, calc_padding(w), k \div w) + (k % w) * PIXEL_SIZE)
<1>1. w \in Nat /\ im.width = w
  BY DEF SourceFiles, ReadSoFar
<1>2. ASSUME NEW k \in Cells(w, n + 1), ~(k < n * w) PROVE k \div w = n
  <2>1. k \in Nat /\ n * w \in Nat /\ k < n * w + w
    BY <1>1, SMT DEF Cells
  <2>2. w \in Nat \ {0} /\ k - n * w \in 0 .. w - 1 /\ k = n * w + (k - n * w)
    BY <1>1, <1>2, <2>1, SMT
  <2> QED
    BY <2>2, DivMod
<1>3. ASSUME NEW k \in Cells(w, n + 1), k < n * w
      PROVE  k \in Cells(w, n)
  BY <1>1, <1>3, SMT DEF Cells
<1>4. im.data = [k \in Cells(w, n) |-> from(k)]
  BY DEF ReadSoFar
<1> HIDE DEF from
<1>5. [k \in Cells(w, n + 1) |-> IF k < n * w THEN im.data[k]
                                 ELSE PixelAt(file, at + (k % w) * PIXEL_SIZE)]
        = [k \in Cells(w, n + 1) |-> from(k)]
  BY <1>2, <1>3, <1>4 DEF from
<1>6. ReadSoFar(file, n + 1) = [width |-> w, height |-> file.height,
                                data |-> [k \in Cells(w, n + 1) |-> from(k)]]
  BY DEF ReadSoFar, from
<1>7. im = [width |-> w, height |-> file.height, data |-> im.data]
  BY DEF ReadSoFar
<1> QED
  BY <1>1, <1>5, <1>6, <1>7


-----------------------------------------------------------------------------
(* The invariant of the rotation.                                          *)

(* What main has asked memory for by now: nothing before from_bmp, img     *)
(* until it rotates, and nothing is kept when it ends.                     *)
Memory ==
  /\ pc \in {"arguments", "open", "image", "ended"} => live = {}
  /\ pc \in {"header", "pixels", "read", "unread", "rotate"} => live \subseteq Objects({"img"})
  /\ live \subseteq Objects({"img", "rotated"})

(* The target is as it was until it is opened.                             *)
Untouched == pc \notin {"write", "unwritten", "ended"} => target = Old

(* How far from_bmp has come.                                              *)
Reading ==
  /\ pc \in {"arguments", "open", "image", "header"} => row = 0
  /\ pc = "pixels" => row = 0 /\ img = ReadSoFar(source, 0)
  /\ pc = "read" => row \in 0 .. source.height /\ img = ReadSoFar(source, row)

(* What main has found out by the time it rotates, and by the time it      *)
(* opens the target.                                                       *)
SourceRead ==
  pc \in {"rotate", "create", "write", "unwritten"} \/ target.opened =>
    img = ReadSoFar(source, source.height) /\ "source" \notin opened

AngleRead ==
  pc \in {"open", "image", "header", "pixels", "read", "rotate", "create", "write", "unwritten"}
    \/ target.opened => angle \in Allowed

Rotated ==
  pc \in {"create", "write", "unwritten"} \/ target.opened =>
    rotated = Transformed(angle, img)

(* The target when its header and n rows are written.                      *)
TargetWith(n) ==
  [opened |-> TRUE, header |-> create_bmp_header(rotated), bytes |-> RowsOf(rotated, n)]

Writing ==
  /\ pc = "write" => \/ target = Empty
                     \/ row \in 0 .. rotated.height /\ target = TargetWith(row)
  /\ status = 0 => pc = "ended" /\ target = TargetWith(rotated.height)

RotationInv ==
  /\ pc \in {"arguments", "open", "image", "header", "pixels", "read", "unread", "rotate",
             "create", "write", "unwritten", "ended", "crashed", "never"}
  /\ target.opened \in BOOLEAN
  /\ pc # "never" => source \in SourceFiles /\ argument \in Arguments
  /\ Memory /\ Untouched /\ Reading /\ SourceRead /\ AngleRead /\ Rotated /\ Writing

(* The invariant of the filter.                                            *)

(* The images the two filters make of an image.                            *)
ByC(im, low) == [im EXCEPT !.data = [k \in DOMAIN @ |-> filter_c(@[k], low)]]

ByAsm(im, low) ==
  [im EXCEPT !.data = [k \in DOMAIN @ |-> save_filtered(process_matrix(@[k]), low)]]

(* The filter runs alone, or after a rotation that has succeeded, on what  *)
(* that has written.                                                       *)
OneAfterTheOther ==
  stage # "waits" => pc = "never" \/ (status = 0 /\ input = TargetAsInput)

InputRead ==
  stage \in {"create", "c", "asm", "write"} \/ code = 0 =>
    Complete(input) /\ image = Image(input)

Filtered ==
  /\ stage \in {"asm", "write"} \/ code = 0 => \E low \in BOOLEAN : out1 = ByC(image, low)
  /\ stage = "write" \/ code = 0 => \E low \in BOOLEAN : out2 = ByAsm(image, low)
  /\ code = 0 => output1 = <<to_bmp_file(out1)>> /\ output2 = <<to_bmp_file(out2)>>

FilteringInv ==
  /\ stage \in {"waits", "open", "read", "create", "c", "asm", "write", "ended", "crashed"}
  /\ code = 0 => stage = "ended"
  /\ input \in InputFiles
  /\ pc = "never" => status = NONE
  /\ OneAfterTheOther /\ InputRead /\ Filtered

ToolsInv == RotationInv /\ FilteringInv


(* An argument is a number or is not there.                                *)
LEMMA OneArgument ==
  ASSUME NEW a \in Arguments, NEW n \in Range(a)
  PROVE  n = a[1]
<1>1. a \in Seq(Int) /\ Len(a) <= 1 /\ Len(a) \in Nat
  BY ImageAssumption, LenProperties
<1>2. DOMAIN a = 1 .. Len(a)
  BY <1>1, LenProperties
<1>3. PICK k \in DOMAIN a : n = a[k]
  BY DEF Range
<1>4. k = 1
  BY <1>1, <1>2, <1>3, SMT
<1> QED
  BY <1>3, <1>4

LEMMA HeaderWritten ==
  ASSUME NEW im
  PROVE  create_bmp_header(im) # <<>>
BY DEF create_bmp_header

(* What from_bmp has read when it has read all rows.                       *)
LEMMA SourceImage ==
  ASSUME NEW file \in SourceFiles
  PROVE  /\ IsImage(ReadSoFar(file, file.height), Colours)
         /\ ReadSoFar(file, file.height).width = file.width
         /\ ReadSoFar(file, file.height).height = file.height
<1> DEFINE w == file.width
           im == ReadSoFar(file, file.height)
           from(k) == RowAt(w, calc_padding(w), k \div w) + (k % w) * PIXEL_SIZE
<1>1. w \in Nat /\ file.height \in Nat /\ file.gap \in Nat
  BY DEF SourceFiles
<1>2. Framed(im) /\ im.width = w /\ im.height = file.height
  BY <1>1 DEF ReadSoFar, Framed
<1>3. ASSUME NEW k \in Cells(w, file.height), NEW c \in 1 .. PIXEL_SIZE
      PROVE  Byte(file, from(k) + c - 1) \in Colours
  <2> DEFINE at == from(k)
             s == w * PIXEL_SIZE + file.gap
  <2>1. calc_padding(w) \in Nat
    BY <1>1, Padding, SMT
  <2>2. w > 0 /\ k \div w \in Nat /\ k % w \in Nat
    BY <1>1, RowAndColumn, SMT
  <2>3. at \in Nat
    <3>1. w * PIXEL_SIZE + calc_padding(w) \in Nat
      BY <1>1, <2>1, SMT DEF PIXEL_SIZE
    <3>2. (k \div w) * (w * PIXEL_SIZE + calc_padding(w)) \in Nat
      BY <2>2, <3>1, SMT
    <3> QED
      BY <2>2, <3>2, SMT DEF RowAt, PIXEL_SIZE
  <2>4. at + c - 1 \in Nat /\ s \in Nat /\ s > 0
    <3> HIDE DEF at
    <3> QED
      BY <1>1, <2>2, <2>3, SMT DEF PIXEL_SIZE
  <2> HIDE DEF at, s
  <2>5. (at + c - 1) \div s \in Nat /\ (at + c - 1) % s \in Nat
    BY <2>4, Divided, SMT
  <2>6. ASSUME NEW col \in Nat
        PROVE  <<col \div PIXEL_SIZE, (at + c - 1) \div s, col % PIXEL_SIZE>> \in Colours
    <3>1. col \div PIXEL_SIZE \in Nat /\ col % PIXEL_SIZE \in Nat
      BY SMT DEF PIXEL_SIZE
    <3> QED
      BY <2>5, <3>1 DEF Colours
  <2>7. PAD \in Colours
    BY DEF Colours
  <2> QED
    BY <2>5, <2>6, <2>7 DEF Byte, s, at
<1>4. ASSUME NEW k \in Cells(w, file.height)
      PROVE  im.data[k] \in [1 .. PIXEL_SIZE -> Colours]
  <2>1. im.data[k] = PixelAt(file, from(k))
    BY DEF ReadSoFar
  <2> HIDE DEF from
  <2> QED
    BY <1>3, <2>1 DEF PixelAt
<1> QED
  BY <1>2, <1>4 DEF IsImage

(* What main writes is an image.                                           *)
LEMMA RotatedImage ==
  ASSUME RotationInv, pc \in {"create", "write", "unwritten"} \/ target.opened, pc # "never"
  PROVE  IsImage(rotated, Colours)
<1>1. /\ source \in SourceFiles /\ angle \in Allowed
      /\ img = ReadSoFar(source, source.height) /\ rotated = Transformed(angle, img)
  BY DEF RotationInv, SourceRead, AngleRead, Rotated
<1>2. IsImage(img, Colours)
  BY <1>1, SourceImage
<1> QED
  BY <1>1, <1>2, TransformedImage

(* Before the first row nothing is written.                                *)
LEMMA NoRows ==
  ASSUME NEW im, IsImage(im, Colours)
  PROVE  RowsOf(im, 0) = <<>> /\ 0 \in 0 .. im.height
<1>1. im.height \in Nat /\ PAD \in Colours
  BY DEF IsImage, Framed, Colours
<1>2. 0 \in 0 .. im.height
  BY <1>1, SMT
<1>3. PICK s : s = RowAt(im.width, calc_padding(im.width), 1)
  OBVIOUS
<1>4. RowsOf(im, 0) \in Seq(Colours) /\ Len(RowsOf(im, 0)) = 0 * s /\ s \in Nat
  BY <1>1, <1>2, <1>3, RowsTyped
<1>5. 0 * s = 0
  BY <1>4, SMT
<1> QED
  BY <1>2, <1>4, <1>5, EmptySeq

(* Every call of main keeps it.                                            *)
LEMMA StepRotation ==
  ASSUME RotationInv, [Next]_vars
  PROVE  RotationInv'
<1> USE DEF RotationInv, Memory, Untouched, Reading, SourceRead, AngleRead, Rotated, Writing,
            TargetWith
<1>1. CASE read_angle
  <2>1. ASSUME angle' = Int16(argument[1]), pc' = "open" PROVE angle' \in Allowed
    BY <1>1, <2>1, OneArgument DEF read_angle, Exit
  <2> QED
    BY <1>1, <2>1 DEF read_angle, Exit, Old
<1>2. CASE read_file
  BY <1>2 DEF read_file, Exit, Old
<1>3. CASE NewImage
  BY <1>3 DEF NewImage, Crash, Old, Objects
<1>4. CASE ReadHeader
  <2>1. ASSUME pc' = "pixels" PROVE img' = ReadSoFar(source, 0)
    <3>1. source \in SourceFiles
      BY <1>4 DEF ReadHeader
    <3>2. Cells(source.width, 0) = {}
      BY <3>1, SMT DEF Cells, SourceFiles
    <3>3. [k \in {} |-> PAD] = [k \in Cells(source.width, 0) |->
             PixelAt(source, RowAt(source.width, calc_padding(source.width), k \div source.width)
                             + (k % source.width) * PIXEL_SIZE)]
      BY <3>2
    <3> QED
      BY <1>4, <2>1, <3>3 DEF ReadHeader, ReadSoFar, Unset
  <2> QED
    BY <1>4, <2>1 DEF ReadHeader, Old
<1>5. CASE NewPixels
  <2>1. source.height \in Nat
    BY <1>5 DEF NewPixels, SourceFiles
  <2> QED
    BY <1>5, <2>1 DEF NewPixels, Old, Objects
<1>6. CASE ReadRow
  <2>1. /\ source \in SourceFiles /\ row \in 0 .. source.height /\ img = ReadSoFar(source, row)
        /\ row < img.height /\ img.height = source.height /\ img.width = source.width
    BY <1>6 DEF ReadRow, ReadSoFar
  <2>2. source.height \in Nat /\ row \in Nat /\ row + 1 \in 0 .. source.height
    BY <2>1, SMT DEF SourceFiles
  <2>3. ASSUME pc' = "read" PROVE row' = row + 1 /\ img' = ReadSoFar(source, row + 1)
    BY <1>6, <2>1, <2>2, <2>3, ReadOn DEF ReadRow
  <2> QED
    BY <1>6, <2>2, <2>3 DEF ReadRow, Old
<1>7. CASE ReadEnd
  BY <1>7 DEF ReadEnd, ReadSoFar, Old
<1>8. CASE ClearUnread
  BY <1>8 DEF ClearUnread, Exit, Crash, clear_images_memory, Objects, Old
<1>9. CASE Rotate
  BY <1>9 DEF Rotate, Crash, Objects, Old
<1>10. CASE write_file
  <2>1. /\ pc = "create" /\ target = Old /\ status # 0
        /\ UNCHANGED <<argument, source, angle, img, rotated, row>>
    BY <1>10 DEF write_file
  <2>2. CASE pc' = "write"
    BY <1>10, <2>1, <2>2 DEF write_file, Exit, Old, Empty
  <2>3. CASE pc' = "ended"
    <3>1. target' = Old /\ status' = 1 /\ live' = {}
      BY <1>10, <2>1, <2>3 DEF write_file, Exit, clear_images_memory
    <3>2. ~target'.opened /\ target'.opened \in BOOLEAN
      BY <3>1 DEF Old
    <3> QED
      BY <2>1, <2>3, <3>1, <3>2
  <2> QED
    BY <1>10, <2>2, <2>3 DEF write_file, Exit
<1>11. CASE WriteHeader
  <2>1. /\ pc = "write" /\ target = Empty /\ status # 0 /\ target.opened
        /\ UNCHANGED <<argument, source, angle, img, rotated, live, opened>>
    BY <1>11, HeaderWritten DEF WriteHeader, Empty, Old
  <2>2. CASE pc' = "write"
    <3>1. IsImage(rotated, Colours)
      BY <2>1, RotatedImage
    <3>2. target' = TargetWith(0) /\ row' = 0 /\ status' = status
      BY <1>11, <2>1, <2>2, <3>1, NoRows DEF WriteHeader, Empty, Old
    <3>3. TargetWith(0)' = [opened |-> TRUE, header |-> create_bmp_header(rotated),
                            bytes |-> RowsOf(rotated, 0)]
      BY <2>1
    <3>4. row' \in 0 .. rotated'.height
      BY <2>1, <3>1, <3>2, NoRows
    <3> QED
      BY <2>1, <2>2, <3>2, <3>3, <3>4
  <2>3. CASE pc' = "unwritten"
    BY <1>11, <2>1, <2>3 DEF WriteHeader
  <2> QED
    BY <1>11, <2>1, <2>2, <2>3 DEF WriteHeader
<1>12. CASE WriteRow
  <2>1. /\ pc = "write" /\ target.opened /\ status # 0
        /\ row \in 0 .. rotated.height /\ row < rotated.height /\ target = TargetWith(row)
        /\ UNCHANGED <<argument, source, angle, img, rotated, live, opened, status>>
    BY <1>12 DEF WriteRow, Empty, Old
  <2>2. CASE pc' = "write"
    <3>1. IsImage(rotated, Colours) /\ rotated.height \in Nat
      BY <2>1, RotatedImage DEF IsImage, Framed
    <3>2. row \in 0 .. rotated.height - 1 /\ row + 1 \in 0 .. rotated.height
      BY <2>1, <3>1, SMT
    <3>3. RowsOf(rotated, row) \o [k \in 1 .. Stride |-> RowByte(rotated, row, k - 1)]
            = RowsOf(rotated, row + 1)
      BY <3>1, <3>2, RowsGrow DEF Stride
    <3>4. target' = TargetWith(row + 1) /\ row' = row + 1
      BY <1>12, <2>1, <2>2, <3>3 DEF WriteRow
    <3> QED
      BY <2>1, <2>2, <3>2, <3>4
  <2>3. CASE pc' = "unwritten"
    BY <1>12, <2>1, <2>3 DEF WriteRow
  <2> QED
    BY <1>12, <2>1, <2>2, <2>3 DEF WriteRow
<1>13. CASE WriteEnd
  BY <1>13, HeaderWritten DEF WriteEnd, Exit, clear_images_memory, Old, Empty
<1>14. CASE WriteFails
  BY <1>14 DEF WriteFails, Exit, clear_images_memory, Old, Empty
<1>15. CASE UNCHANGED vars
  BY <1>15 DEF vars
<1> QED
  BY <1>1, <1>2, <1>3, <1>4, <1>5, <1>6, <1>7, <1>8, <1>9, <1>10, <1>11, <1>12, <1>13,
     <1>14, <1>15 DEF Next, from_bmp, to_bmp


-----------------------------------------------------------------------------
(* The files of the filter.                                                *)

(* from_bmp reads an image from a file that holds all its pixels.          *)
LEMMA InputImage ==
  ASSUME NEW file \in InputFiles, Complete(file)
  PROVE  /\ IsImage(Image(file), 0 .. 255)
         /\ Image(file).width = file.width /\ Image(file).height = file.height
<1> DEFINE w == file.width
           h == file.height
           p == calc_padding(w)
           s == w * PIXEL_SIZE + p
           from(k) == (k \div w) * RowBytes(w) + (k % w) * PIXEL_SIZE
<1>1. w \in Nat /\ h \in Nat /\ file.bytes \in Seq(0 .. 255) /\ p \in Nat
  BY Padding, SMT DEF InputFiles
<1>2. Framed(Image(file)) /\ Image(file).width = w /\ Image(file).height = h
  BY <1>1 DEF Framed, Image
<1>3. ASSUME NEW k \in Cells(w, h), NEW c \in 1 .. PIXEL_SIZE
      PROVE  file.bytes[from(k) + c] \in 0 .. 255
  <2>1. from(k) = RowAt(w, p, k \div w) + (k % w) * PIXEL_SIZE /\ s = w * PIXEL_SIZE + p
    BY DEF RowAt, RowBytes
  <2> HIDE DEF s, from
  <2>2. from(k) \in Nat /\ s \in Nat /\ from(k) + c \in 1 .. h * s - p
    BY <1>1, <2>1, BytePlace, SMTT(60)
  <2>3. w > 0 /\ h > 0
    BY <1>1, RowAndColumn, Zenon
  <2>4. Len(file.bytes) >= RowBytes(w) * h - p
    BY <1>1, <2>3, SMT DEF Complete
  <2>5. RowBytes(w) = s
    BY DEF RowBytes, s
  <2>6. s * h = h * s /\ h * s \in Int
    BY <1>1, <2>2, SMT
  <2>7. from(k) + c \in 1 .. Len(file.bytes)
    <3>1. Len(file.bytes) \in Nat /\ Len(file.bytes) >= h * s - p
      BY <1>1, <2>4, <2>5, <2>6, LenProperties
    <3> QED
      BY <1>1, <2>2, <2>6, <3>1, SMT
  <2> QED
    BY <1>1, <2>7, LenProperties
<1>4. ASSUME NEW k \in Cells(w, h)
      PROVE  Image(file).data[k] \in [1 .. PIXEL_SIZE -> 0 .. 255]
  <2>1. Image(file).data[k] = [c \in 1 .. PIXEL_SIZE |-> file.bytes[from(k) + c]]
    BY DEF Image
  <2> HIDE DEF from
  <2> QED
    BY <1>3, <2>1
<1> QED
  BY <1>2, <1>4 DEF IsImage

(* What to_bmp writes from_bmp reads.                                      *)
LEMMA ImageReadsBack ==
  ASSUME NEW S, NEW im, IsImage(im, S)
  PROVE  Image(to_bmp_file(im)) = im
<1> DEFINE w == im.width
           h == im.height
           p == calc_padding(w)
           s == w * PIXEL_SIZE + p
           from(k) == (k \div w) * RowBytes(w) + (k % w) * PIXEL_SIZE
           r(k, c) == (k % w) * PIXEL_SIZE + (c - 1)
           bytes == to_bmp_file(im).bytes
           back == Image(to_bmp_file(im))
<1>1. w \in Nat /\ h \in Nat /\ p \in Nat
  BY Padding, SMT DEF IsImage, Framed
<1>2. /\ Framed(back) /\ back.width = w /\ back.height = h
      /\ \A k \in Cells(w, h) :
           back.data[k] = [c \in 1 .. PIXEL_SIZE |-> bytes[from(k) + c]]
  <2> DEFINE file == to_bmp_file(im)
  <2>1. file.width = w /\ file.height = h
    BY DEF to_bmp_file
  <2> HIDE DEF file
  <2>2. Image(file) = [width |-> w, height |-> h,
                       data |-> [k \in Cells(w, h) |->
                                   [c \in 1 .. PIXEL_SIZE |-> file.bytes[from(k) + c]]]]
    BY <2>1 DEF Image
  <2> HIDE DEF from
  <2>3. /\ Framed(Image(file)) /\ Image(file).width = w /\ Image(file).height = h
        /\ \A k \in Cells(w, h) :
             Image(file).data[k] = [c \in 1 .. PIXEL_SIZE |-> file.bytes[from(k) + c]]
    BY <1>1, <2>2 DEF Framed
  <2> QED
    BY <2>3 DEF file
<1>3. ASSUME NEW k \in Cells(w, h), NEW c \in 1 .. PIXEL_SIZE
      PROVE  bytes[from(k) + c] = im.data[k][c]
  <2>1. from(k) = RowAt(w, p, k \div w) + (k % w) * PIXEL_SIZE /\ s = w * PIXEL_SIZE + p
    BY DEF RowAt, RowBytes
  <2>2. RowBytes(w) = s /\ r(k, c) = (k % w) * PIXEL_SIZE + (c - 1)
    BY DEF RowBytes
  <2>3. /\ from(k) \in Nat /\ s \in Nat /\ s > 0
        /\ from(k) + c \in 1 .. h * s - p
        /\ (from(k) + c - 1) \div s = k \div w
        /\ (from(k) + c - 1) % s = r(k, c)
        /\ r(k, c) < w * PIXEL_SIZE
        /\ r(k, c) \div PIXEL_SIZE = k % w
        /\ r(k, c) % PIXEL_SIZE = c - 1
    <3> HIDE DEF s, from
    <3> QED
      BY <1>1, <2>1, BytePlace, SMTT(60)
  <2>4. k = (k \div w) * w + (k % w)
    BY <1>1, RowAndColumn, Zenon
  <2> HIDE DEF s, from, r
  <2>5. PICK n : n = from(k) + c
    OBVIOUS
  <2>6. /\ (n - 1) \div s = k \div w /\ (n - 1) % s = r(k, c)
        /\ n \in 1 .. h * s
    <3>1. h * s \in Int
      BY <1>1, <2>3, SMT
    <3>2. from(k) + c \in 1 .. h * s
      BY <1>1, <2>3, <3>1, SMT
    <3> QED
      <4>1. n - 1 = from(k) + c - 1
        BY <2>3, <2>5, SMT DEF PIXEL_SIZE
      <4> QED
        BY <2>3, <2>5, <3>2, <4>1, Zenon
  <2>7. bytes[n] = im.data[k][1 + (c - 1)]
    <3>1. bytes = [b \in 1 .. h * s |->
                     IF (b - 1) % s < w * PIXEL_SIZE
                     THEN im.data[((b - 1) \div s) * w + ((b - 1) % s) \div PIXEL_SIZE]
                            [1 + (((b - 1) % s) % PIXEL_SIZE)]
                     ELSE PADDING]
      BY <2>2 DEF to_bmp_file
    <3> HIDE DEF bytes
    <3>2. bytes[n] = IF (n - 1) % s < w * PIXEL_SIZE
                     THEN im.data[((n - 1) \div s) * w + ((n - 1) % s) \div PIXEL_SIZE]
                            [1 + (((n - 1) % s) % PIXEL_SIZE)]
                     ELSE PADDING
      BY <2>6, <3>1
    <3> QED
      BY <2>3, <2>4, <2>6, <3>2
  <2>8. 1 + (c - 1) = c
    BY SMT DEF PIXEL_SIZE
  <2> QED
    BY <2>5, <2>7, <2>8
<1>4. ASSUME NEW k \in Cells(w, h) PROVE back.data[k] = im.data[k]
  <2>1. im.data[k] \in [1 .. PIXEL_SIZE -> S]
    BY DEF IsImage
  <2> HIDE DEF back, from, bytes
  <2>2. back.data[k] = [c \in 1 .. PIXEL_SIZE |-> im.data[k][c]]
    BY <1>2, <1>3
  <2> QED
    BY <2>1, <2>2
<1> HIDE DEF back
<1>5. back.data = im.data /\ Framed(im)
  BY <1>2, <1>4 DEF Framed, IsImage
<1> QED
  BY <1>2, <1>5 DEF Framed, back


-----------------------------------------------------------------------------
(* The filters.                                                            *)

(* The values of a colour.                                                 *)
Level == 0 .. 255

(* A sum that is cut off and the same sum rounded are at most one apart.   *)
LEMMA OneShade ==
  ASSUME NEW sum \in Nat, NEW low1, NEW low2
  PROVE  /\ Cut(sum, low1) \in Nat /\ Nearest(sum, low2) \in Nat
         /\ sat(Cut(sum, low1)) \in 0 .. 255 /\ sat(Nearest(sum, low2)) \in 0 .. 255
         /\ sat(Cut(sum, low1)) - sat(Nearest(sum, low2)) \in -1 .. 1
<1> DEFINE q == sum \div 1000
           r == sum % 1000
           v == Cut(sum, low1)
           n == Nearest(sum, low2)
<1>1. q \in Nat /\ r \in 0 .. 999 /\ sum = 1000 * q + r
  BY SMT
<1>2. (sum + 500) \div 1000 = IF r >= 500 THEN q + 1 ELSE q
  BY SMT
<1>3. v \in {q, q - 1} /\ (v = q - 1 => r = 0 /\ q > 0)
  <2>1. sum > 0 /\ r = 0 => q > 0
    BY <1>1, SMT
  <2> QED
    BY <1>1, <2>1 DEF Cut
<1>4. n \in {q, q + 1} /\ (n = q + 1 => r >= 500)
  BY <1>1, <1>2 DEF Nearest
<1> HIDE DEF q, r, v, n
<1>5. v \in Nat /\ n \in Nat
  BY <1>1, <1>3, <1>4, SMT
<1>6. v - n \in -1 .. 1
  BY <1>1, <1>3, <1>4, SMT
<1>7. sat(v) \in 0 .. 255 /\ sat(n) \in 0 .. 255 /\ sat(v) - sat(n) \in -1 .. 1
  BY <1>5, <1>6, SMT DEF sat
<1> QED
  BY <1>5, <1>7 DEF v, n

(* A colour of a pixel, from the vectors of coefficients i, j and l; the   *)
(* order in which the products are added does not matter.                  *)
LEMMA Lane ==
  ASSUME NEW b \in Level, NEW g \in Level, NEW r \in Level,
         NEW i \in Nat, NEW j \in Nat, NEW l \in Nat, NEW low1, NEW low2,
         NEW v, v = sat(Cut(r * l + g * j + b * i, low1)),
         NEW n, n = sat(Nearest(b * i + g * j + r * l, low2))
  PROVE  v \in Level /\ n \in Level /\ v - n \in -1 .. 1
<1>1. b * i \in Nat /\ g * j \in Nat /\ r * l \in Nat
  BY SMT DEF Level
<1>2. r * l + g * j + b * i \in Nat /\ b * i + g * j + r * l = r * l + g * j + b * i
  BY <1>1, SMT
<1>3. PICK sum \in Nat : sum = r * l + g * j + b * i
  BY <1>2
<1>4. v = sat(Cut(sum, low1)) /\ n = sat(Nearest(sum, low2))
  BY <1>2, <1>3
<1> QED
  BY <1>4, OneShade DEF Level

(* The two filters agree on a pixel.                                       *)
LEMMA PixelsAgree ==
  ASSUME NEW px \in [1 .. PIXEL_SIZE -> Level], NEW low1, NEW low2
  PROVE  /\ filter_c(px, low1) \in [1 .. PIXEL_SIZE -> Level]
         /\ save_filtered(process_matrix(px), low2) \in [1 .. PIXEL_SIZE -> Level]
         /\ Near(filter_c(px, low1), save_filtered(process_matrix(px), low2))
<1> DEFINE f == filter_c(px, low1)
           g == save_filtered(process_matrix(px), low2)
           sumC(n) == px[3] * r_vec[n] + px[2] * g_vec[n] + px[1] * b_vec[n]
           sumAsm(n) == px[1] * b_vec[n] + px[2] * g_vec[n] + px[3] * r_vec[n]
<1>1. px[1] \in Level /\ px[2] \in Level /\ px[3] \in Level
  BY DEF PIXEL_SIZE
<1>2. /\ b_vec[1] \in Nat /\ b_vec[2] \in Nat /\ b_vec[3] \in Nat
      /\ g_vec[1] \in Nat /\ g_vec[2] \in Nat /\ g_vec[3] \in Nat
      /\ r_vec[1] \in Nat /\ r_vec[2] \in Nat /\ r_vec[3] \in Nat
  BY SMT DEF b_vec, g_vec, r_vec
<1>3. /\ DOMAIN f = 1 .. 3 /\ f = [c \in 1 .. 3 |-> f[c]]
      /\ f[1] = sat(Cut(sumC(1), low1))
      /\ f[2] = sat(Cut(sumC(2), low1))
      /\ f[3] = sat(Cut(sumC(3), low1))
  BY SMT DEF filter_c, b_vec, g_vec, r_vec
<1>4. g = [lane \in 1 .. 3 |-> sat(Nearest(sumAsm(lane), low2))]
  BY DEF save_filtered, process_matrix
<1> HIDE DEF f, g
<1>5. /\ DOMAIN g = 1 .. 3 /\ g = [c \in 1 .. 3 |-> g[c]]
      /\ \A c \in 1 .. 3 : g[c] = sat(Nearest(sumAsm(c), low2))
  BY <1>4
<1>6. \A c \in 1 .. 3 : c = 1 \/ c = 2 \/ c = 3
  BY SMT
<1>7. ASSUME NEW c \in 1 .. 3
      PROVE  f[c] \in Level /\ g[c] \in Level /\ f[c] - g[c] \in -1 .. 1
  <2>1. b_vec[c] \in Nat /\ g_vec[c] \in Nat /\ r_vec[c] \in Nat
    BY <1>2, <1>6, Zenon
  <2>2. f[c] = sat(Cut(sumC(c), low1))
    BY <1>3, <1>6, Zenon
  <2>3. g[c] = sat(Nearest(sumAsm(c), low2))
    BY <1>5, Zenon
  <2> QED
    BY <1>1, <2>1, <2>2, <2>3, Lane, Zenon
<1>8. f \in [1 .. 3 -> Level] /\ g \in [1 .. 3 -> Level]
  BY <1>3, <1>5, <1>7
<1> QED
  BY <1>7, <1>8 DEF Near, PIXEL_SIZE, f, g

(* So they do on an image.                                                 *)
LEMMA ImagesAgree ==
  ASSUME NEW im, IsImage(im, Level), NEW low1, NEW low2
  PROVE  /\ IsImage(ByC(im, low1), Level) /\ IsImage(ByAsm(im, low2), Level)
         /\ ByC(im, low1).width = im.width /\ ByC(im, low1).height = im.height
         /\ ByAsm(im, low2).width = im.width /\ ByAsm(im, low2).height = im.height
         /\ \A k \in Cells(im.width, im.height) :
              Near(ByC(im, low1).data[k], ByAsm(im, low2).data[k])
<1> DEFINE cells == Cells(im.width, im.height)
           f == ByC(im, low1)
           g == ByAsm(im, low2)
<1>1. /\ im.width \in Nat /\ im.height \in Nat /\ DOMAIN im.data = cells
      /\ im = [width |-> im.width, height |-> im.height, data |-> im.data]
  BY DEF IsImage, Framed
<1>2. f = [width |-> im.width, height |-> im.height,
           data |-> [k \in cells |-> filter_c(im.data[k], low1)]]
  BY <1>1 DEF ByC
<1>3. g = [width |-> im.width, height |-> im.height,
           data |-> [k \in cells |-> save_filtered(process_matrix(im.data[k]), low2)]]
  BY <1>1 DEF ByAsm
<1> HIDE DEF f, g
<1>4. Framed(f) /\ Framed(g)
  BY <1>1, <1>2, <1>3 DEF Framed
<1>5. ASSUME NEW k \in cells
      PROVE  /\ f.data[k] \in [1 .. PIXEL_SIZE -> Level]
             /\ g.data[k] \in [1 .. PIXEL_SIZE -> Level]
             /\ Near(f.data[k], g.data[k])
  <2>1. im.data[k] \in [1 .. PIXEL_SIZE -> Level]
    BY DEF IsImage
  <2>2. /\ f.data[k] = filter_c(im.data[k], low1)
        /\ g.data[k] = save_filtered(process_matrix(im.data[k]), low2)
    BY <1>2, <1>3
  <2> QED
    <3>1. PICK px \in [1 .. PIXEL_SIZE -> Level] : px = im.data[k]
      BY <2>1
    <3>2. /\ filter_c(px, low1) \in [1 .. PIXEL_SIZE -> Level]
          /\ save_filtered(process_matrix(px), low2) \in [1 .. PIXEL_SIZE -> Level]
          /\ Near(filter_c(px, low1), save_filtered(process_matrix(px), low2))
      BY PixelsAgree, Zenon
    <3> QED
      BY <2>2, <3>1, <3>2, Zenon
<1> QED
  <2>1. /\ f.width = im.width /\ f.height = im.height
        /\ g.width = im.width /\ g.height = im.height
    BY <1>2, <1>3
  <2>2. IsImage(f, Level) /\ IsImage(g, Level)
    BY <1>4, <1>5, <2>1 DEF IsImage
  <2> QED
    BY <1>5, <2>1, <2>2, Zenon DEF f, g


-----------------------------------------------------------------------------
(* What a rotation that succeeds has written.                              *)

LEMMA TargetWhole ==
  ASSUME RotationInv, status = 0
  PROVE  /\ pc = "ended" /\ target.opened /\ IsImage(rotated, Colours)
         /\ target.header[1] = rotated.width /\ target.header[2] = rotated.height
         /\ target.header[3] = Len(target.bytes)
         /\ target.header[4] = Len(target.bytes) + BI_HEADER_SIZE
         /\ target.bytes \in Seq(Colours)
         /\ Len(target.bytes) = RowAt(rotated.width, calc_padding(rotated.width), rotated.height)
         /\ \A k \in Cells(rotated.width, rotated.height), c \in 1 .. PIXEL_SIZE, at \in Nat :
              at = RowAt(rotated.width, calc_padding(rotated.width), k \div rotated.width)
                     + (k % rotated.width) * PIXEL_SIZE =>
                /\ at + c \in 1 .. Len(target.bytes)
                /\ target.bytes[at + c] = rotated.data[k][c]
<1> DEFINE w == rotated.width
           h == rotated.height
           p == calc_padding(w)
           bytes == RowsOf(rotated, h)
<1>1. /\ pc = "ended" /\ target.opened /\ target.bytes = bytes
      /\ target.header = create_bmp_header(rotated)
  BY DEF RotationInv, Writing, TargetWith
<1>2. PICK im : im = rotated
  OBVIOUS
<1>3. IsImage(im, Colours) /\ im.width \in Nat /\ im.height \in Nat
  BY <1>1, <1>2, RotatedImage DEF IsImage, Framed
<1>4. PICK s : s = RowAt(im.width, calc_padding(im.width), 1)
  OBVIOUS
<1>5. /\ s \in Nat /\ s = im.width * PIXEL_SIZE + calc_padding(im.width)
      /\ RowsOf(im, im.height) \in Seq(Colours) /\ Len(RowsOf(im, im.height)) = im.height * s
  <2>1. im.height \in 0 .. im.height /\ PAD \in Colours
    BY <1>3 DEF Colours
  <2> QED
    BY <1>3, <1>4, <2>1, RowsTyped
<1>6. RowAt(im.width, calc_padding(im.width), im.height) = im.height * s
  BY <1>5 DEF RowAt
<1>7. /\ target.header[1] = w /\ target.header[2] = h
      /\ target.header[3] = RowAt(w, p, h) /\ target.header[4] = RowAt(w, p, h) + BI_HEADER_SIZE
  BY <1>1 DEF create_bmp_header
<1>8. ASSUME NEW k \in Cells(im.width, im.height), NEW c \in 1 .. PIXEL_SIZE, NEW at \in Nat,
             at = RowAt(im.width, calc_padding(im.width), k \div im.width)
                    + (k % im.width) * PIXEL_SIZE
      PROVE  /\ at + c \in 1 .. RowAt(im.width, calc_padding(im.width), im.height)
             /\ RowsOf(im, im.height)[at + c] = im.data[k][c]
  <2>1. PICK p1 : p1 = calc_padding(im.width)
    OBVIOUS
  <2>2. at = RowAt(im.width, p1, k \div im.width) + (k % im.width) * PIXEL_SIZE
    BY <1>8, <2>1, Zenon
  <2>3. /\ at + c \in 1 .. RowAt(im.width, p1, im.height)
        /\ RowsOf(im, im.height)[at + c] = im.data[k][c]
    BY <1>3, <2>1, <2>2, RowsHold, SMTT(60)
  <2> QED
    BY <2>1, <2>3, Zenon
<1> HIDE DEF w, h, p, bytes
<1>9. w = im.width /\ h = im.height /\ p = calc_padding(im.width) /\ bytes = RowsOf(im, im.height)
  BY <1>2 DEF w, h, p, bytes
<1>10. Len(target.bytes) = RowAt(w, p, h) /\ target.bytes \in Seq(Colours)
  BY <1>1, <1>5, <1>6, <1>9
<1>11. \A k \in Cells(w, h), c \in 1 .. PIXEL_SIZE, at \in Nat :
         at = RowAt(w, p, k \div w) + (k % w) * PIXEL_SIZE =>
           /\ at + c \in 1 .. Len(target.bytes)
           /\ target.bytes[at + c] = rotated.data[k][c]
  BY <1>1, <1>2, <1>8, <1>9, <1>10
<1> QED
  BY <1>1, <1>2, <1>3, <1>7, <1>10, <1>11 DEF w, h, p

(* The place of a pixel is a number.                                       *)
LEMMA PlaceIsNat ==
  ASSUME NEW w \in Nat, NEW h \in Nat, NEW k \in Cells(w, h)
  PROVE  RowAt(w, calc_padding(w), k \div w) + (k % w) * PIXEL_SIZE \in Nat
<1>1. k \div w \in Nat /\ k % w \in Nat
  BY RowAndColumn, SMT
<1>2. w * PIXEL_SIZE + calc_padding(w) \in Nat
  BY Padding, SMT DEF PIXEL_SIZE
<1>3. (k \div w) * (w * PIXEL_SIZE + calc_padding(w)) \in Nat
  BY <1>1, <1>2, SMT
<1> QED
  BY <1>1, <1>3, SMT DEF RowAt, PIXEL_SIZE

(* Read again as from_bmp does, it is the rotated image.                   *)
LEMMA TargetReadAgain ==
  ASSUME RotationInv, status = 0
  PROVE  ReadAgain(calc_padding(target.header[1])) = rotated
<1> DEFINE w == rotated.width
           h == rotated.height
           from(k) == RowAt(w, calc_padding(w), k \div w) + (k % w) * PIXEL_SIZE
<1>1. w \in Nat /\ h \in Nat /\ Framed(rotated)
  BY TargetWhole DEF IsImage, Framed
<1>2. ReadAgain(calc_padding(target.header[1])) =
        [width |-> w, height |-> h,
         data |-> [k \in Cells(w, h) |-> [c \in 1 .. PIXEL_SIZE |-> target.bytes[from(k) + c]]]]
  BY TargetWhole DEF ReadAgain
<1>3. ASSUME NEW k \in Cells(w, h)
      PROVE  [c \in 1 .. PIXEL_SIZE |-> target.bytes[from(k) + c]] = rotated.data[k]
  <2>1. from(k) \in Nat
    BY <1>1, PlaceIsNat
  <2>2. ASSUME NEW c \in 1 .. PIXEL_SIZE PROVE target.bytes[from(k) + c] = rotated.data[k][c]
    BY <2>1, TargetWhole, Zenon
  <2>3. rotated.data[k] \in [1 .. PIXEL_SIZE -> Colours]
    BY TargetWhole DEF IsImage
  <2> HIDE DEF from
  <2> QED
    BY <2>2, <2>3
<1> HIDE DEF from
<1>4. [k \in Cells(w, h) |-> [c \in 1 .. PIXEL_SIZE |-> target.bytes[from(k) + c]]]
        = rotated.data
  BY <1>1, <1>3 DEF Framed
<1> QED
  BY <1>1, <1>2, <1>4 DEF Framed

(* As an input of the filter it is a file of colours, and its image is the *)
(* rotated one.                                                            *)
LEMMA TargetIsInput ==
  ASSUME RotationInv, status = 0
  PROVE  TargetAsInput \in InputFiles /\ Image(TargetAsInput) = Painted(rotated)
<1> DEFINE w == rotated.width
           h == rotated.height
           paint(b) == Shade(b) % 256
           bytes == [n \in DOMAIN target.bytes |-> paint(target.bytes[n])]
           from(k) == RowAt(w, calc_padding(w), k \div w) + (k % w) * PIXEL_SIZE
<1>1. w \in Nat /\ h \in Nat /\ Framed(rotated)
  BY TargetWhole DEF IsImage, Framed
<1>2. TargetAsInput = [kind |-> "bmp", width |-> w, height |-> h, bytes |-> bytes]
  BY TargetWhole DEF TargetAsInput
<1>3. ASSUME NEW b \in Colours PROVE paint(b) \in 0 .. 255
  <2>1. Shade(b) \in Int
    <3>1. CASE b = PAD
      BY <3>1 DEF Shade
    <3>2. CASE b \in Nat \X Nat \X Nat
      <4>1. b[1] \in Nat /\ b[2] \in Nat /\ b[3] \in Nat
        BY <3>2
      <4>2. 90 * b[1] + 30 * b[2] + 7 * b[3] \in Int
        BY <4>1, SMT
      <4> QED
        BY <4>2 DEF Shade
    <3> QED
      BY <3>1, <3>2 DEF Colours
  <2>2. PICK n \in Int : n = Shade(b)
    BY <2>1
  <2>3. n % 256 \in 0 .. 255
    BY SMT
  <2> QED
    BY <2>2, <2>3
<1> HIDE DEF paint
<1>4. DOMAIN target.bytes = 1 .. Len(target.bytes) /\ Len(target.bytes) \in Nat
      /\ \A n \in 1 .. Len(target.bytes) : target.bytes[n] \in Colours
  BY TargetWhole, LenProperties
<1>5. bytes \in Seq(0 .. 255)
  <2>1. bytes \in [1 .. Len(target.bytes) -> Level]
    BY <1>3, <1>4 DEF Level
  <2> HIDE DEF bytes
  <2>2. PICK n \in Nat : n = Len(target.bytes)
    BY <1>4
  <2>3. bytes \in Seq(Level)
    BY <2>1, <2>2, SeqDef
  <2> QED
    BY <2>3 DEF Level
<1>6. TargetAsInput \in InputFiles
  BY <1>1, <1>2, <1>5 DEF InputFiles
<1>7. Image(TargetAsInput) =
        [width |-> w, height |-> h,
         data |-> [k \in Cells(w, h) |-> [c \in 1 .. PIXEL_SIZE |-> bytes[from(k) + c]]]]
  BY <1>2 DEF Image, RowAt, RowBytes
<1>8. Painted(rotated) =
        [width |-> w, height |-> h,
         data |-> [k \in Cells(w, h) |->
                     [c \in 1 .. PIXEL_SIZE |-> paint(rotated.data[k][c])]]]
  <2>1. PICK im : im = rotated
    OBVIOUS
  <2>2. /\ im = [width |-> w, height |-> h, data |-> im.data] /\ DOMAIN im.data = Cells(w, h)
    BY <1>1, <2>1 DEF Framed
  <2> DEFINE d == [k \in Cells(w, h) |->
                     [c \in 1 .. PIXEL_SIZE |-> Shade(im.data[k][c]) % 256]]
  <2>3. Painted(im) = [im EXCEPT !.data = d]
    BY <2>2 DEF Painted
  <2>4. Painted(im) = [width |-> w, height |-> h, data |-> d]
    <3> HIDE DEF d
    <3> QED
      BY <2>2, <2>3
  <2> QED
    BY <2>1, <2>4 DEF paint
<1>9. ASSUME NEW k \in Cells(w, h), NEW c \in 1 .. PIXEL_SIZE
      PROVE  bytes[from(k) + c] = paint(rotated.data[k][c])
  <2>1. from(k) \in Nat
    BY <1>1, PlaceIsNat
  <2>2. from(k) + c \in 1 .. Len(target.bytes) /\ target.bytes[from(k) + c] = rotated.data[k][c]
    BY <2>1, TargetWhole, Zenon
  <2> HIDE DEF from
  <2> QED
    BY <1>4, <2>2
<1> HIDE DEF from, bytes
<1>10. [k \in Cells(w, h) |-> [c \in 1 .. PIXEL_SIZE |-> bytes[from(k) + c]]]
         = [k \in Cells(w, h) |-> [c \in 1 .. PIXEL_SIZE |-> paint(rotated.data[k][c])]]
  BY <1>9
<1> QED
  BY <1>6, <1>7, <1>8, <1>10


-----------------------------------------------------------------------------
(* The invariant of both programs.                                         *)

LEMMA InitTools == ToolsInit => ToolsInv
<1> SUFFICES ASSUME ToolsInit PROVE ToolsInv
  OBVIOUS
<1>1. NoFile \in InputFiles
  <2>1. <<>> \in Seq(0 .. 255)
    BY EmptySeq
  <2> QED
    BY <2>1 DEF NoFile, InputFiles
<1>2. CASE Init /\ FilterIdle
  <2>1. RotationInv
    BY <1>2, ImageAssumption DEF Init, RotationInv, Memory, Untouched, Reading, SourceRead,
       AngleRead, Rotated, Writing, Old, NONE
  <2>2. FilteringInv
    BY <1>1, <1>2 DEF Init, FilterIdle, FilteringInv, OneAfterTheOther, InputRead, Filtered,
       RUNNING
  <2> QED
    BY <2>1, <2>2 DEF ToolsInv
<1>3. CASE FilterInit /\ RotationIdle
  <2>1. RotationInv
    BY <1>3 DEF RotationIdle, RotationInv, Memory, Untouched, Reading, SourceRead,
       AngleRead, Rotated, Writing, Old, NONE
  <2>2. FilteringInv
    BY <1>3, SepiaAssumption DEF FilterInit, RotationIdle, FilteringInv, OneAfterTheOther, InputRead,
       Filtered, RUNNING
  <2> QED
    BY <2>1, <2>2 DEF ToolsInv
<1> QED
  BY <1>2, <1>3 DEF ToolsInit

(* main of the rotation does nothing once it has ended.                    *)
LEMMA RotationRuns ==
  ASSUME Next
  PROVE  pc \notin {"ended", "never"} /\ pc' # "never"
BY DEF Next, from_bmp, to_bmp, read_angle, read_file, NewImage, ReadHeader, NewPixels, ReadRow,
       ReadEnd, ClearUnread, Rotate, write_file, WriteHeader, WriteRow, WriteEnd, WriteFails,
       Exit, Crash

LEMMA StepFilter ==
  ASSUME FilteringInv, FilterNext, UNCHANGED vars
  PROVE  FilteringInv'
<1> USE DEF FilteringInv, OneAfterTheOther, InputRead, Filtered
<1>0. /\ UNCHANGED <<pc, status, target>> /\ TargetAsInput' = TargetAsInput
      /\ stage # "waits" /\ code # 0
  BY DEF vars, TargetAsInput, FilterNext, open_input, sepia_from_bmp, create_outputs, FilterC,
     FilterAsm, sepia_to_bmp
<1>1. CASE open_input
  BY <1>0, <1>1 DEF open_input, Fault, Leave
<1>2. CASE sepia_from_bmp
  BY <1>0, <1>2 DEF sepia_from_bmp, Fault, Leave
<1>3. CASE create_outputs
  BY <1>0, <1>3 DEF create_outputs, Fault, Leave
<1>4. CASE FilterC
  <2>1. CASE Fault
    BY <1>0, <1>4, <2>1 DEF FilterC, Fault
  <2>2. CASE stage' \in {"asm", "c"}
    <3>1. \E low \in BOOLEAN : out1' = ByC(image, low)
      BY <1>4, <2>2 DEF FilterC, Fault, ByC
    <3>2. /\ image' = image /\ input' = input /\ code' = code /\ stage = "c"
      BY <1>4, <2>2 DEF FilterC, Fault
    <3>3. \E low \in BOOLEAN : out1' = ByC(image', low)
      BY <3>1, <3>2
    <3> QED
      BY <1>0, <2>2, <3>2, <3>3
  <2> QED
    BY <1>4, <2>1, <2>2 DEF FilterC
<1>5. CASE FilterAsm
  <2>1. CASE Fault
    BY <1>0, <1>5, <2>1 DEF FilterAsm, Fault
  <2>2. CASE stage' \in {"asm", "write"}
    <3>1. \E low \in BOOLEAN : out2' = ByAsm(image, low)
      BY <1>5, <2>2 DEF FilterAsm, Fault, ByAsm
    <3>2. /\ image' = image /\ input' = input /\ code' = code /\ out1' = out1 /\ stage = "asm"
      BY <1>5, <2>2 DEF FilterAsm, Fault
    <3>3. /\ \E low \in BOOLEAN : out2' = ByAsm(image', low)
          /\ \E low \in BOOLEAN : out1' = ByC(image', low)
      BY <3>1, <3>2
    <3> QED
      BY <1>0, <2>2, <3>2, <3>3
  <2> QED
    BY <1>5, <2>1, <2>2 DEF FilterAsm
<1>6. CASE sepia_to_bmp
  <2>1. /\ stage = "write" /\ stage' = "ended"
        /\ UNCHANGED <<input, image, out1, out2>>
    BY <1>6 DEF sepia_to_bmp, Leave
  <2>2. code' = 0 => output1' = <<to_bmp_file(out1)>> /\ output2' = <<to_bmp_file(out2)>>
    BY <1>6 DEF sepia_to_bmp, Leave
  <2> QED
    BY <1>0, <2>1, <2>2
<1> QED
  BY <1>1, <1>2, <1>3, <1>4, <1>5, <1>6 DEF FilterNext

LEMMA StepTools == ToolsInv /\ [ToolsNext]_<<vars, filter_vars>> => ToolsInv'
<1> SUFFICES ASSUME ToolsInv, [ToolsNext]_<<vars, filter_vars>> PROVE ToolsInv'
  OBVIOUS
<1> USE DEF ToolsInv
<1>1. CASE Next /\ UNCHANGED filter_vars
  <2>1. RotationInv'
    BY <1>1, StepRotation
  <2>2. pc' # "never" /\ stage = "waits"
    BY <1>1, RotationRuns DEF FilteringInv, OneAfterTheOther, RotationInv, Writing
  <2>3. UNCHANGED <<stage, input, image, out1, out2, output1, output2, code>>
    BY <1>1 DEF filter_vars
  <2>4. FilteringInv'
    BY <2>2, <2>3 DEF FilteringInv, OneAfterTheOther, InputRead, Filtered
  <2> QED
    BY <2>1, <2>4
<1>2. CASE FilterTheTarget
  <2>1. /\ UNCHANGED <<vars, image, out1, out2, output1, output2, code>>
        /\ status = 0 /\ stage = "waits" /\ stage' = "open" /\ input' = TargetAsInput
    BY <1>2 DEF FilterTheTarget
  <2>2. RotationInv'
    BY <2>1, StepRotation
  <2>3. TargetAsInput \in InputFiles
    BY <2>1, TargetIsInput
  <2>4. UNCHANGED <<pc, status, target>> /\ TargetAsInput' = TargetAsInput
    BY <2>1 DEF vars, TargetAsInput
  <2>5. FilteringInv'
    BY <2>1, <2>3, <2>4 DEF FilteringInv, OneAfterTheOther, InputRead, Filtered
  <2> QED
    BY <2>2, <2>5
<1>3. CASE FilterNext /\ UNCHANGED vars
  <2>1. RotationInv'
    BY <1>3, StepRotation
  <2> QED
    BY <1>3, <2>1, StepFilter
<1>4. CASE UNCHANGED <<vars, filter_vars>>
  <2>1. RotationInv'
    BY <1>4, StepRotation
  <2>2. /\ UNCHANGED <<pc, status, target, stage, input, image, out1, out2, output1, output2, code>>
        /\ TargetAsInput' = TargetAsInput
    BY <1>4 DEF vars, filter_vars, TargetAsInput
  <2>3. FilteringInv'
    BY <2>2 DEF FilteringInv, OneAfterTheOther, InputRead, Filtered
  <2> QED
    BY <2>1, <2>3
<1> QED
  BY <1>1, <1>2, <1>3, <1>4 DEF ToolsNext

(* The invariant holds whichever call fails, in the rotation, in the       *)
(* filter, and in the one after the other.                                 *)
THEOREM ToolsInvariantHolds == ToolsSpec => []ToolsInv
<1> QED
  BY InitTools, StepTools, PTL DEF ToolsSpec

-----------------------------------------------------------------------------
(* What follows from it.                                                   *)

(* All memory is given back whichever step fails (main.c:28-92).           *)
THEOREM NothingIsLeaked == ToolsSpec => []NothingLeaked
<1>1. ToolsInv => NothingLeaked
  BY DEF ToolsInv, RotationInv, Memory, NothingLeaked
<1> QED
  BY <1>1, ToolsInvariantHolds, PTL

(* The source is read to its end and closed before the target is opened    *)
(* (main.c:43-79).                                                         *)
THEOREM TargetIsKept == ToolsSpec => []TargetKept
<1>1. ToolsInv => TargetKept
  <2> SUFFICES ASSUME ToolsInv, target.opened
               PROVE  DOMAIN img.data = Cells(img.width, img.height) /\ "source" \notin opened
    BY DEF TargetKept
  <2>1. img = ReadSoFar(source, source.height) /\ "source" \notin opened
    BY DEF ToolsInv, RotationInv, SourceRead
  <2> QED
    BY <2>1 DEF ReadSoFar
<1> QED
  BY <1>1, ToolsInvariantHolds, PTL

(* A source whose rows are where from_bmp looks is read as it is.          *)
LEMMA OriginalRead ==
  ASSUME NEW file \in SourceFiles, file.gap = calc_padding(file.width)
  PROVE  ReadSoFar(file, file.height) =
           [width |-> file.width, height |-> file.height,
            data |-> [k \in Cells(file.width, file.height) |->
                        [c \in 1 .. PIXEL_SIZE |-> <<k % file.width, k \div file.width, c - 1>>]]]
<1> DEFINE w == file.width
           h == file.height
           p == file.gap
           s == w * PIXEL_SIZE + p
           from(k) == RowAt(w, p, k \div w) + (k % w) * PIXEL_SIZE
<1>1. w \in Nat /\ h \in Nat /\ p \in Nat
  BY DEF SourceFiles
<1>2. ASSUME NEW k \in Cells(w, h), NEW c \in 1 .. PIXEL_SIZE
      PROVE  Byte(file, from(k) + c - 1) = <<k % w, k \div w, c - 1>>
  <2>1. from(k) = RowAt(w, p, k \div w) + (k % w) * PIXEL_SIZE /\ s = w * PIXEL_SIZE + p
    OBVIOUS
  <2> HIDE DEF s, from
  <2>2. PICK n : n = from(k) + c - 1
    OBVIOUS
  <2>3. /\ n \div s = k \div w
        /\ n % s = (k % w) * PIXEL_SIZE + (c - 1)
        /\ (k % w) * PIXEL_SIZE + (c - 1) < w * PIXEL_SIZE
        /\ ((k % w) * PIXEL_SIZE + (c - 1)) \div PIXEL_SIZE = k % w
        /\ ((k % w) * PIXEL_SIZE + (c - 1)) % PIXEL_SIZE = c - 1
    BY <1>1, <2>1, <2>2, BytePlace, SMTT(60)
  <2>4. Byte(file, n) = IF n % s < w * PIXEL_SIZE
                        THEN <<(n % s) \div PIXEL_SIZE, n \div s, (n % s) % PIXEL_SIZE>>
                        ELSE PAD
    BY <2>1 DEF Byte
  <2>5. Byte(file, n) = <<k % w, k \div w, c - 1>>
    BY <2>3, <2>4
  <2> QED
    BY <2>2, <2>5
<1>3. \A k \in Cells(w, h) :
        PixelAt(file, from(k)) = [c \in 1 .. PIXEL_SIZE |-> <<k % w, k \div w, c - 1>>]
  <2> HIDE DEF from
  <2> QED
    BY <1>2 DEF PixelAt
<1>4. ReadSoFar(file, h) = [width |-> w, height |-> h,
                            data |-> [k \in Cells(w, h) |-> PixelAt(file, from(k))]]
  BY DEF ReadSoFar
<1> HIDE DEF from
<1> QED
  BY <1>3, <1>4

(* A rotation that succeeds has turned the picture clockwise by its angle, *)
(* whatever its size (main.c:52-70, rotation.c:23-54).                     *)
THEOREM TurnsClockwise == ToolsSpec => []RotatesClockwise
<1>1. ToolsInv => RotatesClockwise
  <2> SUFFICES ASSUME ToolsInv, status = 0, source.gap = calc_padding(source.width)
               PROVE  rotated = Clockwise(angle, Original)
    BY DEF RotatesClockwise
  <2>1. pc = "ended" /\ target.opened
    BY TargetWhole DEF ToolsInv
  <2>2. /\ source \in SourceFiles /\ angle \in Allowed
        /\ img = ReadSoFar(source, source.height) /\ rotated = Transformed(angle, img)
    BY <2>1 DEF ToolsInv, RotationInv, SourceRead, AngleRead, Rotated
  <2>3. img = Original
    BY <2>2, OriginalRead DEF Original
  <2>4. Framed(img)
    BY <2>2, SourceImage DEF IsImage
  <2> QED
    BY <2>2, <2>3, <2>4, SwitchIsRight
<1> QED
  BY <1>1, ToolsInvariantHolds, PTL

(* The program's own from_bmp reads the rotated image from the target, and *)
(* the header has the sizes that the target has (serialization.c:48-118).  *)
THEOREM TargetIsWhole == ToolsSpec => []TargetReadsBack
<1>1. ToolsInv => TargetReadsBack
  BY TargetWhole, TargetReadAgain DEF ToolsInv, TargetReadsBack
<1> QED
  BY <1>1, ToolsInvariantHolds, PTL

(* The filter reads the picture that the rotation has written              *)
(* (serialization.c:70-93 and bmp.c:45-63).                                *)
THEOREM ToolsFitTogether == ToolsSpec => []ToolsAgree
<1>1. ToolsInv => ToolsAgree
  <2> SUFFICES ASSUME ToolsInv, status = 0, stage \in {"create", "c", "asm", "write"}
               PROVE  image = Painted(rotated)
    BY DEF ToolsAgree
  <2>1. pc = "ended"
    BY TargetWhole DEF ToolsInv
  <2>2. input = TargetAsInput /\ image = Image(input)
    BY <2>1 DEF ToolsInv, FilteringInv, OneAfterTheOther, InputRead
  <2> QED
    BY <2>2, TargetIsInput DEF ToolsInv
<1> QED
  BY <1>1, ToolsInvariantHolds, PTL

(* The two filters make pictures of the input's size that are nowhere more *)
(* than one shade apart (filter.c:13-26, filter.asm:6-52).                 *)
THEOREM FiltersDoAgree == ToolsSpec => []FiltersAgree
<1>1. ToolsInv => FiltersAgree
  <2> SUFFICES ASSUME ToolsInv, code = 0 PROVE FiltersAgree
    BY DEF FiltersAgree
  <2>1. input \in InputFiles /\ Complete(input) /\ image = Image(input)
    BY DEF ToolsInv, FilteringInv, InputRead
  <2>2. /\ IsImage(image, Level)
        /\ image.width = input.width /\ image.height = input.height
    BY <2>1, InputImage DEF Level
  <2>3. PICK low1, low2 \in BOOLEAN : out1 = ByC(image, low1) /\ out2 = ByAsm(image, low2)
    BY DEF ToolsInv, FilteringInv, Filtered
  <2>4. output1[1] = to_bmp_file(out1) /\ output2[1] = to_bmp_file(out2)
    BY DEF ToolsInv, FilteringInv, Filtered
  <2>5. PICK im : im = image
    OBVIOUS
  <2>6. /\ IsImage(ByC(im, low1), Level) /\ IsImage(ByAsm(im, low2), Level)
        /\ ByC(im, low1).width = im.width /\ ByC(im, low1).height = im.height
        /\ ByAsm(im, low2).width = im.width /\ ByAsm(im, low2).height = im.height
        /\ \A k \in Cells(im.width, im.height) :
             Near(ByC(im, low1).data[k], ByAsm(im, low2).data[k])
    BY <2>2, <2>5, ImagesAgree
  <2>7. /\ Image(to_bmp_file(ByC(im, low1))) = ByC(im, low1)
        /\ Image(to_bmp_file(ByAsm(im, low2))) = ByAsm(im, low2)
    BY <2>6, ImageReadsBack
  <2> QED
    BY <2>2, <2>3, <2>4, <2>5, <2>6, <2>7 DEF FiltersAgree
<1> QED
  BY <1>1, ToolsInvariantHolds, PTL

=============================================================================
