----------------------------- MODULE MCImageTools -----------------------------
(* The two image programs one after the other: what ImageRotation has      *)
(* written is the input.bmp of Sepia.  Pictures of up to four by three     *)
(* pixels, among them one whose rows are a multiple of four bytes long,    *)
(* padded in both ways.  Sepia is also run alone, on bad files and on      *)
(* single pixels of all shades.                                            *)
EXTENDS ImageRotation, Sepia

Bitmap(w, h, gap) ==
  [kind |-> "bmp", width |-> w, height |-> h, gap |-> gap,
   size |-> RowAt(w, gap, h)]

Whole == {Bitmap(w, h, calc_padding(w)) : w \in {0, 1, 2, 4}, h \in {0, 1, 3}}
         \cup {Bitmap(4, h, 0) : h \in {1, 2}}

(* One byte of the last pixel is missing.                                  *)
Torn == {[p EXCEPT !.size = @ - p.gap - 1] : p \in {q \in Whole : q.size > q.gap}}

Bad == {[Bitmap(1, 1, 1) EXCEPT !.kind = k] : k \in {"short", "alien"}}

MCSources == Whole \cup Torn \cup Bad

Numbers == Allowed \cup {45, -450, 65536 + 90, -65536 - 180, 131072 + 90}

MCArguments == {<<>>} \cup {<<n>> : n \in Numbers}

-----------------------------------------------------------------------------
(* The shades of a source picture, all different.                          *)
Shade(byte) == IF byte = PAD THEN 0 ELSE 90 * byte[1] + 30 * byte[2] + 7 * byte[3]

Painted(im) ==
  [im EXCEPT !.data = [k \in DOMAIN @ |-> [c \in 1 .. PIXEL_SIZE |-> Shade(@[k][c]) % 256]]]

TargetAsInput ==
  [kind |-> "bmp", width |-> target.header[1], height |-> target.header[2],
   bytes |-> [n \in DOMAIN target.bytes |-> Shade(target.bytes[n]) % 256]]

NoFile == [kind |-> "missing", width |-> 0, height |-> 0, bytes |-> <<>>]

Shades == {0, 1, 64, 127, 128, 200, 254, 255}

Dot(b, g, r) == [kind |-> "bmp", width |-> 1, height |-> 1, bytes |-> <<b, g, r, 0>>]

(* Multiples of 125 make sums that are whole shades, and others that lie   *)
(* in the middle of two.                                                   *)
MCInputs == {NoFile, [NoFile EXCEPT !.kind = "short"], [NoFile EXCEPT !.kind = "alien"],
             [Dot(1, 2, 3) EXCEPT !.height = 2]}
            \cup {Dot(b, g, r) : b, g, r \in Shades \cup {250, 125}}

FilterIdle ==
  /\ input = NoFile /\ stage = "waits" /\ image = NoImage
  /\ out1 = NoImage /\ out2 = NoImage /\ iters = 0
  /\ output1 = <<>> /\ output2 = <<>> /\ code = RUNNING

RotationIdle ==
  /\ pc = "never" /\ argument = <<>>
  /\ source = [Bitmap(1, 1, 1) EXCEPT !.kind = "short"]
  /\ angle = 0 /\ img = Unset /\ rotated = Unset /\ row = 0 /\ live = {}
  /\ junk = FALSE /\ opened = {} /\ target = Old /\ status = NONE

ToolsInit == (Init /\ FilterIdle) \/ (FilterInit /\ RotationIdle)

(* The user filters what the rotation has made.                            *)
FilterTheTarget ==
  /\ status = 0 /\ stage = "waits"
  /\ stage' = "open" /\ input' = TargetAsInput
  /\ UNCHANGED <<vars, image, out1, out2, iters, output1, output2, code>>

ToolsNext == \/ Next /\ UNCHANGED filter_vars
             \/ FilterTheTarget
             \/ FilterNext /\ UNCHANGED vars

ToolsSpec == ToolsInit /\ [][ToolsNext]_<<vars, filter_vars>>

(* What the rotation writes the filter reads: the same picture, whatever   *)
(* its width (serialization.c:70-93 and bmp.c:45-63).                      *)
ToolsAgree == status = 0 /\ stage \in {"create", "c", "asm", "write"} => image = Painted(rotated)

=============================================================================
