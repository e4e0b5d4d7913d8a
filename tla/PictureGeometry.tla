-------------------------- MODULE PictureGeometry ---------------------------
(***************************************************************************)
(* Where a pixel of the helped device's screen goes and comes back from:   *)
(* scaleImage (internal/desktop/capture_windows.go), fitRect and the       *)
(* pointer's arithmetic (cmd/client-windows/remote.go) and                 *)
(* normalizeAbsolute (internal/input/input_windows.go).  Sizes are [w, h], *)
(* points [x, y], rectangles [x0, y0, x1, y1], all in pixels.              *)
(***************************************************************************)
EXTENDS Integers

\* math.Round(a / b), at least 1.
Rounded(a, b) == IF 2 * a < b THEN 1 ELSE (2 * a + b) \div (2 * b)

\* scaleImage: the size of the frame, the screen's own if that fits in m.
Scaled(s, m) ==
  IF s.w <= m.w /\ s.h <= m.h THEN s
  ELSE IF m.w * s.h <= m.h * s.w
       THEN [w |-> m.w, h |-> Rounded(s.h * m.w, s.w)]
       ELSE [w |-> Rounded(s.w * m.h, s.h), h |-> m.h]

\* fitRect: the largest rectangle of s's shape in the middle of area, all of it
\* as long as no picture is there.
FitRect(area, s) ==
  IF s.w = 0 \/ s.h = 0 THEN area ELSE
  LET dx == area.x1 - area.x0
      dy == area.y1 - area.y0
      tall == (dx * s.h) \div s.w > dy
      h == IF tall THEN dy ELSE (dx * s.h) \div s.w
      w == IF tall THEN (h * s.w) \div s.h ELSE dx
      x == area.x0 + (dx - w) \div 2
      y == area.y0 + (dy - h) \div 2
  IN [x0 |-> x, y0 |-> y, x1 |-> x + w, y1 |-> y + h]

Inside(p, r) == p.x >= r.x0 /\ p.x < r.x1 /\ p.y >= r.y0 /\ p.y < r.y1

\* The pixel at p, in the coordinates of r, of a picture of size s drawn into r.
PixelAt(p, r, s) ==
  [x |-> ((p.x - r.x0) * s.w) \div (r.x1 - r.x0), y |-> ((p.y - r.y0) * s.h) \div (r.y1 - r.y0)]

\* normalizeAbsolute in one direction divides by this: the picture has n pixels,
\* and full are those of the screen, which stands in where there is no picture.
Divisor(n, full) ==
  LET source == IF n <= 0 THEN full ELSE n IN (IF source <= 1 THEN 1 ELSE source) - 1

\* A position in SendInput's absolute coordinates; without a meaning for divisor 0.
Normalize(v, n, full) == (v * 65535) \div Divisor(n, full)
=============================================================================
