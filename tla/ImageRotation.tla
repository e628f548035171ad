---------------------------- MODULE ImageRotation -----------------------------
(***************************************************************************)
(* "Image Rotation C": main of solution/src/main.c with what it calls.     *)
(* Files may be missing, malformed or cut short, memory and the disk may   *)
(* run out.  A step is a call that may fail, or one row of a picture.      *)
(*                                                                         *)
(* A byte of a file is <<x, y, c>>, colour c of the pixel in column x of   *)
(* row y of the source, or PAD.  What malloc and the disk refuse is not    *)
(* repeated: the step that asks for it may fail whenever it is taken.      *)
(***************************************************************************)
EXTENDS Picture, Sequences, SequencesExt

CONSTANTS
  Sources,   \* the source files: see SourceFiles
  INT_MAX,   \* 2147483647
  Arguments  \* the third argument: <<n>> for the number n, <<>> for none

PAD == <<>>

(* `kind' is "short" (no whole header), "alien" (another signature) or     *)
(* "bmp"; rows are `gap' bytes apart, and `size' bytes of pixels and gaps  *)
(* are there.                                                              *)
SourceFiles ==
  [kind : {"short", "alien", "bmp"}, width : Nat, height : Nat,
   gap : Nat, size : Nat]

ASSUME ImageAssumption ==
  /\ Sources \subseteq SourceFiles
  /\ INT_MAX \in Nat
  /\ \A a \in Arguments : a \in Seq(Int) /\ Len(a) <= 1

VARIABLES
  pc,       \* where main is
  argument, \* argv[3]
  source,   \* the source file
  angle,    \* int16_t angle
  img,      \* what img points to: header fields and pixels read so far
  rotated,  \* what rotated points to
  row,      \* the row that is read or written next
  live,     \* what malloc has given and free has not got back: see Objects
  junk,     \* img->data is uninitialised
  opened,   \* the files that are open
  target,   \* the file at the path of the target
  status    \* the result of main

vars == <<pc, argument, source, angle, img, rotated, row, live, junk, opened,
          target, status>>

Unset == [width |-> 0, height |-> 0, data |-> [k \in {} |-> PAD]]

(* A file that main has written; until it is opened the target is as it    *)
(* was before.                                                             *)
Old == [opened |-> FALSE, header |-> <<>>, bytes |-> <<>>]

Empty == [Old EXCEPT !.opened = TRUE]

NONE == -1   \* main has not ended

(* The structures of the images that these variables of main point to, and *)
(* their pixels.                                                           *)
Objects(images) == images \X {"image", "data"}

-----------------------------------------------------------------------------
Init ==
  /\ pc = "arguments" /\ argument \in Arguments /\ source \in Sources
  /\ angle = 0 /\ img = Unset /\ rotated = Unset /\ row = 0
  /\ live = {} /\ junk = FALSE /\ opened = {}
  /\ target = Old /\ status = NONE

Exit(code) == pc' = "ended" /\ status' = code

(* An access through a wild or null pointer: what comes then is undefined, *)
(* and nothing is asked of it.                                             *)
Crash == pc' = "crashed" /\ UNCHANGED status

(* (int16_t) of a long.                                                    *)
Int16(n) == ((n + 32768) % 65536) - 32768

Allowed == {0, 90, -90, 180, -180, 270, -270}

Converted(res) == res <= INT_MAX /\ res >= -INT_MAX - 1

read_angle ==
  /\ pc = "arguments"
  /\ IF \E n \in Range(argument) : Converted(n) /\ Int16(n) \in Allowed
     THEN /\ angle' = Int16(argument[1])
          /\ pc' = "open" /\ UNCHANGED status
     ELSE Exit(1) /\ UNCHANGED angle
  /\ UNCHANGED <<argument, source, img, rotated, live, junk, opened, target, row>>

(* Slip: both files are opened first.                                      *)
read_file_both ==
  /\ pc = "open"
  /\ \/ pc' = "image" /\ opened' = {"source"} /\ target' = Empty /\ UNCHANGED status
     \/ Exit(1) /\ UNCHANGED <<opened, target>>
  /\ UNCHANGED <<argument, source, angle, img, rotated, live, junk, row>>

read_file ==
  /\ pc = "open"
  /\ \/ pc' = "image" /\ opened' = {"source"} /\ UNCHANGED status
     \/ Exit(1) /\ UNCHANGED opened
  /\ UNCHANGED <<argument, source, angle, img, rotated, live, junk, target, row>>

-----------------------------------------------------------------------------
(* from_bmp.                                                               *)

(* Without memory for the image `free' gets the address of main's pointer, *)
(* and clear_images_memory a null pointer.                                 *)
NewImage ==
  /\ pc = "image"
  /\ \/ /\ live' = {<<"img", "image">>} /\ junk' = TRUE
        /\ pc' = "header" /\ UNCHANGED status
     \/ Crash /\ UNCHANGED <<live, junk>>
  /\ UNCHANGED <<argument, source, angle, img, rotated, opened, target, row>>

ReadHeader ==
  /\ pc = "header"
  /\ IF source.kind = "bmp"
     THEN /\ img' = [Unset EXCEPT !.width = source.width, !.height = source.height]
          /\ pc' = "pixels"
     ELSE pc' = "unread" /\ UNCHANGED img
  /\ UNCHANGED <<argument, source, angle, rotated, live, junk, opened, target, status, row>>

NewPixels ==
  /\ pc = "pixels"
  /\ junk' = FALSE
  /\ \/ live' = live \cup {<<"img", "data">>} /\ pc' = "read"
     \/ pc' = "unread" /\ UNCHANGED live
  /\ UNCHANGED <<argument, source, angle, img, rotated, opened, target, status, row>>

(* The byte at a place behind the header.                                  *)
Byte(file, at) ==
  LET stride == file.width * PIXEL_SIZE + file.gap
      col    == at % stride
  IN  IF col < file.width * PIXEL_SIZE
      THEN <<col \div PIXEL_SIZE, at \div stride, col % PIXEL_SIZE>>
      ELSE PAD

PixelAt(file, at) == [c \in 1 .. PIXEL_SIZE |-> Byte(file, at + c - 1)]

(* Nothing is read for a row without pixels: fseek goes past any end.      *)
ReadRow ==
  /\ pc = "read" /\ row < img.height
  /\ LET at == RowAt(img.width, calc_padding(img.width), row)
     IN  IF img.width = 0 \/ at + img.width * PIXEL_SIZE <= source.size
         THEN /\ img' = [img EXCEPT !.data =
                           [k \in Cells(img.width, row + 1) |->
                              IF k < row * img.width THEN @[k]
                              ELSE PixelAt(source, at + (k % img.width) * PIXEL_SIZE)]]
              /\ row' = row + 1 /\ UNCHANGED pc
         ELSE pc' = "unread" /\ UNCHANGED <<img, row>>
  /\ UNCHANGED <<argument, source, angle, rotated, live, junk, opened, target, status>>

ReadEnd ==
  /\ pc = "read" /\ row = img.height
  /\ pc' = "rotate" /\ opened' = {}
  /\ UNCHANGED <<argument, source, angle, img, rotated, live, junk, target, status, row>>

(* Slip: the structures themselves are forgotten.                          *)
clear_pixels(images) == live' = live \ (images \X {"data"})

clear_images_memory(images) == live' = live \ Objects(images)

(* main gives back what from_bmp has left.  Freeing an uninitialised       *)
(* pointer may do anything, nothing at all included.                       *)
ClearUnread ==
  /\ pc = "unread"
  /\ \/ Exit(1) /\ clear_images_memory({"img"})
     \/ junk /\ Crash /\ UNCHANGED live
  /\ UNCHANGED <<argument, source, angle, img, rotated, junk, opened, target, row>>

-----------------------------------------------------------------------------
(* The rest of main.  init_image does not look at what malloc returns: a   *)
(* null pointer is written to.                                             *)
Rotate ==
  /\ pc = "rotate"
  /\ \/ /\ rotated' = Transformed(angle, img)
        /\ live' = live \cup Objects({"rotated"})
        /\ pc' = "create" /\ UNCHANGED status
     \/ Crash /\ UNCHANGED <<rotated, live>>
  /\ UNCHANGED <<argument, source, angle, img, junk, opened, target, row>>

write_file ==
  /\ pc = "create"
  /\ \/ /\ pc' = "write" /\ opened' = {"target"} /\ target' = Empty
        /\ UNCHANGED <<live, status>>
     \/ /\ Exit(1) /\ clear_images_memory({"img", "rotated"})
        /\ UNCHANGED <<opened, target>>
  /\ UNCHANGED <<argument, source, angle, img, rotated, junk, row>>

(* to_bmp.  A header is <<biWidth, biHeight, biSizeImage, bfileSize>>.     *)
BI_HEADER_SIZE == 54

(* Slip: the padding is not counted.                                       *)
header_without_padding(im) ==
  LET data_size == im.width * PIXEL_SIZE * im.height
  IN  <<im.width, im.height, data_size, data_size + BI_HEADER_SIZE>>

create_bmp_header(im) ==
  LET data_size == RowAt(im.width, calc_padding(im.width), im.height)
  IN  <<im.width, im.height, data_size, data_size + BI_HEADER_SIZE>>

WriteHeader ==
  /\ pc = "write" /\ target.header = <<>>
  /\ \/ /\ target' = [target EXCEPT !.header = create_bmp_header(rotated)]
        /\ row' = 0 /\ UNCHANGED pc
     \/ pc' = "unwritten" /\ UNCHANGED <<target, row>>
  /\ UNCHANGED <<argument, source, angle, img, rotated, live, junk, opened, status>>

Stride == RowAt(rotated.width, calc_padding(rotated.width), 1)

(* Byte k of a row, from 0.                                                *)
RowByte(im, y, k) ==
  IF k < im.width * PIXEL_SIZE
  THEN Pixel(im, k \div PIXEL_SIZE, y)[1 + (k % PIXEL_SIZE)]
  ELSE PAD

(* fwrite of a row of no bytes returns 0, which counts as a failure.       *)
WriteRow ==
  /\ pc = "write" /\ target.header # <<>> /\ row < rotated.height
  /\ \/ /\ rotated.width > 0
        /\ target' = [target EXCEPT !.bytes = @ \o
                        [k \in 1 .. Stride |-> RowByte(rotated, row, k - 1)]]
        /\ row' = row + 1 /\ UNCHANGED pc
     \/ pc' = "unwritten" /\ UNCHANGED <<target, row>>
  /\ UNCHANGED <<argument, source, angle, img, rotated, live, junk, opened, status>>

WriteFails ==
  /\ pc = "unwritten"
  /\ clear_images_memory({"img", "rotated"}) /\ Exit(1)
  /\ UNCHANGED <<argument, source, angle, img, rotated, junk, opened, target, row>>

WriteEnd ==
  /\ pc = "write" /\ target.header # <<>> /\ row = rotated.height
  /\ opened' = {} /\ clear_images_memory({"img", "rotated"}) /\ Exit(0)
  /\ UNCHANGED <<argument, source, angle, img, rotated, junk, target, row>>

from_bmp == NewImage \/ ReadHeader \/ NewPixels \/ ReadRow \/ ReadEnd

to_bmp == WriteHeader \/ WriteRow \/ WriteEnd

Next == \/ read_angle \/ read_file \/ from_bmp \/ ClearUnread
        \/ Rotate \/ write_file \/ to_bmp \/ WriteFails

Spec == Init /\ [][Next]_vars

-----------------------------------------------------------------------------
(* Properties.                                                             *)

(* The picture in a source file whose rows are where from_bmp looks.       *)
Original ==
  [width  |-> source.width,
   height |-> source.height,
   data   |-> [k \in Cells(source.width, source.height) |->
                 [c \in 1 .. PIXEL_SIZE |->
                    <<k % source.width, k \div source.width, c - 1>>]]]

(* When main succeeds on a source that it can read, what it has made is    *)
(* the picture turned clockwise by the angle (lines 54-70 of main.c and    *)
(* rotation.c).  A width that is a multiple of four must be padded in the  *)
(* way of this program.                                                    *)
RotatesClockwise ==
  status = 0 /\ source.gap = calc_padding(source.width) =>
    rotated = Clockwise(angle, Original)

(* What main has written, read again with so many bytes behind the pixels  *)
(* of a row.                                                               *)
ReadAgain(gap) ==
  LET w == target.header[1]
      h == target.header[2]
  IN  [width  |-> w,
       height |-> h,
       data   |-> [k \in Cells(w, h) |->
                     LET at == RowAt(w, gap, k \div w) + (k % w) * PIXEL_SIZE
                     IN  [c \in 1 .. PIXEL_SIZE |-> target.bytes[at + c]]]]

(* The target of a run that succeeds is whole for this program: its own    *)
(* from_bmp reads the rotated image back from it, and its sizes are those  *)
(* the header names (serialization.c:48-118).  Whether other programs read *)
(* it is another question: see TargetConforms.                             *)
TargetReadsBack ==
  status = 0 => /\ ReadAgain(calc_padding(target.header[1])) = rotated
                /\ target.header[3] = Len(target.bytes)
                /\ target.header[4] = Len(target.bytes) + BI_HEADER_SIZE

(* Lines 55-56 of README.md: rows are supplemented to the nearest multiple *)
(* of four bytes, and follow each other without skipping when they are     *)
(* one already.                                                            *)
DocumentedPadding(width) == (4 - ((width * PIXEL_SIZE) % 4)) % 4

(* The target holds the rotated image in the documented layout.  The code  *)
(* does not keep this: calc_padding is 4, and not 0, for a row that is     *)
(* already a multiple of four bytes (serialization.c:10).                  *)
TargetConforms ==
  status = 0 => ReadAgain(DocumentedPadding(target.header[1])) = rotated

(* Whichever step fails, main ends with all memory given back.             *)
NothingLeaked == pc = "ended" => live = {}

(* The target is not touched before the source is read to its end and      *)
(* closed: an unreadable source costs nothing, and source and target may   *)
(* be the same file.                                                       *)
TargetKept == target.opened => /\ DOMAIN img.data = Cells(img.width, img.height)
                               /\ "source" \notin opened

=============================================================================
