------------------------------- MODULE MenuBmp -------------------------------
(***************************************************************************)
(* tools/make_menu_bmp.py: menu16.bmp is generated from myrkr.ico and      *)
(* committed beside it.  Pixels are <<r, g, b, a>>; an icon is its frame   *)
(* of SIZE x SIZE, x and y counted from the top left, or NoFrame.          *)
(***************************************************************************)
EXTENDS Naturals, Sequences

CONSTANT SIZE         \* 16 in the tool

NoFrame == <<>>
Grid    == (0..SIZE - 1) \X (0..SIZE - 1)

\* premultiplied, rounded
Premul(c, a) == (c * a + 127) \div 255

\* the n-th scanline of the file, n from 1: the rows run bottom-up
RowOf(n) == SIZE - n

\* build: the scanlines, each pixel <<b, g, r, a>>
Scanline(icon, y) ==
  [x \in 1..SIZE |-> LET p == icon[<<x - 1, y>>]
                     IN <<Premul(p[3], p[4]), Premul(p[2], p[4]), Premul(p[1], p[4]), p[4]>>]
BuildBmp(icon) == [n \in 1..SIZE |-> Scanline(icon, RowOf(n))]

\* exit codes of main: with --check, and without
CheckCode(pillow, icon, bmp) ==
  IF ~pillow THEN 0 ELSE IF icon = NoFrame \/ bmp = <<>> \/ bmp # BuildBmp(icon) THEN 1 ELSE 0
MakeCode(pillow, icon) == IF ~pillow THEN 2 ELSE IF icon = NoFrame THEN 1 ELSE 0

\* What a menu draws of a 32-bit bitmap is the icon: at every place the channels
\* are the icon's times its alpha, to the nearest step, and never above the alpha.
Shows(bmp, icon) ==
  \A q \in Grid :
     LET p == icon[q]
         d == bmp[SIZE - q[2]][q[1] + 1]
     IN /\ d[4] = p[4]
        /\ \A i \in 1..3 : /\ d[4 - i] <= p[4]
                           /\ 510 * d[4 - i] <= 2 * p[i] * p[4] + 255
                           /\ 2 * p[i] * p[4] <= 510 * d[4 - i] + 255
=============================================================================
