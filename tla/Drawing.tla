------------------------------- MODULE Drawing ------------------------------
(***************************************************************************)
(* What the driver of the display draws into its picture (ssd1306.c), each *)
(* primitive as the set of its points, against what it is to look like.    *)
(* A primitive is drawn white on an empty picture, a text over a white one.*)
(***************************************************************************)
EXTENDS Integers, Sequences, FiniteSets

CONSTANTS
  SSD1306_WIDTH, SSD1306_HEIGHT,
  FontWidth, FontHeight,
  Font,       \* for each character the dots of its cell, <<column, row>>
  Strings,    \* texts that are drawn
  Scales,
  Corners,    \* corners of triangles
  Circles     \* circles that are drawn, <<x, y, radius>>

VARIABLES
  lit,     \* points that are lit in SSD1306_Buffer
  drawn    \* the primitive that was drawn on the empty picture

vars == <<lit, drawn>>

Screen == (0..SSD1306_WIDTH - 1) \X (0..SSD1306_HEIGHT - 1)
Xs == 0..SSD1306_WIDTH
Ys == 0..SSD1306_HEIGHT

(* The values of an unsigned coordinate.                                    *)
Unsigned16 == 256 * 256

(* Coordinates and the error of a circle have 16 bits and a sign, a row in  *)
(* DrawFilledRectangle has 8 bits.  Corners are on the panel; circles do    *)
(* not reach over its left and upper edge, where a filled one goes around.  *)
DrawingAssumption ==
  /\ {SSD1306_WIDTH, SSD1306_HEIGHT, FontWidth, FontHeight} \subseteq Nat \ {0}
  /\ 4 * SSD1306_WIDTH <= Unsigned16 /\ SSD1306_HEIGHT < 255
  /\ \A ch \in DOMAIN Font : Font[ch] \subseteq (0..FontWidth - 1) \X (0..FontHeight - 1)
  /\ Scales \subseteq Nat \ {0}
  /\ \A str \in Strings : str \in Seq(DOMAIN Font)
  /\ Corners \subseteq Screen
  /\ \A c \in Circles : c[3] \in Nat /\ c[1] \in c[3]..SSD1306_WIDTH - 1 /\ c[2] \in c[3]..SSD1306_HEIGHT - 1

Abs(a) == IF a < 0 THEN -a ELSE a
Least(a, b) == IF a <= b THEN a ELSE b
Most(a, b) == IF a <= b THEN b ELSE a
Sign(from, to) == IF from < to THEN 1 ELSE -1

(* DrawPixel: what lies off the panel is left out.                          *)
DrawPixels(points) == points \cap Screen
-----------------------------------------------------------------------------
(* What n rounds of a loop make of what it starts with.                     *)
Rounds(Round(_, _), start, n) ==
  LET made[i \in 0..n] == IF i = 0 THEN start ELSE Round(made[i - 1], i)
  IN  made[n]

(* The walk of DrawLine from one end to the other, err being its error.     *)
WalkOn(a, b, s) ==
  LET dx == Abs(b[1] - a[1])
      dy == Abs(b[2] - a[2])
      right == s.err > -dx
      down == s.err < dy
      to == <<s.at[1] + (IF right THEN Sign(a[1], b[1]) ELSE 0),
              s.at[2] + (IF down THEN Sign(a[2], b[2]) ELSE 0)>>
  IN  IF s.at = b THEN s
      ELSE [at |-> to, points |-> s.points \cup {to},
            err |-> s.err - (IF right THEN dy ELSE 0) + (IF down THEN dx ELSE 0)]

Walk(a, b) ==
  LET dx == Abs(b[1] - a[1])
      dy == Abs(b[2] - a[2])
      \* integer division in C goes towards zero
      err == IF dx > dy THEN dx \div 2 ELSE -(dy \div 2)
  IN  Rounds(LAMBDA s, i : WalkOn(a, b, s), [at |-> a, points |-> {a}, err |-> err], dx + dy)

Clip(x, y) == <<Least(x, SSD1306_WIDTH - 1), Least(y, SSD1306_HEIGHT - 1)>>

DrawLine(x0, y0, x1, y1) ==
  LET a == Clip(x0, y0)
      b == Clip(x1, y1)
  IN  IF a[1] = b[1] THEN {a[1]} \X (Least(a[2], b[2])..Most(a[2], b[2]))
      ELSE IF a[2] = b[2] THEN (Least(a[1], b[1])..Most(a[1], b[1])) \X {a[2]}
      ELSE Walk(a, b).points

(* Mutant: a width that leaves the panel is cut one point short.            *)
WithinShort(from, size, bound) == IF from + size >= bound THEN bound - from - 2 ELSE size
Within(from, size, bound) == IF from + size >= bound THEN bound - from ELSE size

DrawRectangle(x, y, w0, h0) ==
  LET w == Within(x, w0, SSD1306_WIDTH)
      h == Within(y, h0, SSD1306_HEIGHT)
  IN  IF x >= SSD1306_WIDTH \/ y >= SSD1306_HEIGHT THEN {}
      ELSE DrawLine(x, y, x + w, y) \cup DrawLine(x, y + h, x + w, y + h)
             \cup DrawLine(x, y, x, y + h) \cup DrawLine(x + w, y, x + w, y + h)

DrawFilledRectangle(x, y, w0, h0) ==
  LET w == Within(x, w0, SSD1306_WIDTH)
      h == Within(y, h0, SSD1306_HEIGHT)
  IN  IF x >= SSD1306_WIDTH \/ y >= SSD1306_HEIGHT THEN {}
      ELSE UNION {DrawLine(x, y + i, x + w, y + i) : i \in 0..h}

DrawTriangle(p, q, r) ==
  DrawLine(p[1], p[2], q[1], q[2]) \cup DrawLine(q[1], q[2], r[1], r[2])
    \cup DrawLine(r[1], r[2], p[1], p[2])

(* A line from each point of one side to the opposite corner.               *)
FillOn(p, q, r, s) ==
  LET deltax == Abs(q[1] - p[1])
      deltay == Abs(q[2] - p[2])
      wide == deltax >= deltay
      den == Most(deltax, deltay)
      carry == s.num + Least(deltax, deltay) >= den
  IN  [x |-> s.x + (IF ~(wide \/ carry) THEN 0 ELSE IF q[1] >= p[1] THEN 1 ELSE -1),
       y |-> s.y + (IF ~(~wide \/ carry) THEN 0 ELSE IF q[2] >= p[2] THEN 1 ELSE -1),
       num |-> s.num + Least(deltax, deltay) - (IF carry THEN den ELSE 0),
       points |-> s.points \cup DrawLine(s.x, s.y, r[1], r[2])]

DrawFilledTriangle(p, q, r) ==
  LET den == Most(Abs(q[1] - p[1]), Abs(q[2] - p[2]))
  IN  Rounds(LAMBDA s, i : FillOn(p, q, r, s),
             [x |-> p[1], y |-> p[2], num |-> den \div 2, points |-> {}], den + 1).points

(* The points of an eighth of the circle, of which the others are mirrored. *)
TurnOn(s) ==
  LET y == IF s.f >= 0 THEN s.y - 1 ELSE s.y
      f == IF s.f >= 0 THEN s.f - 2 * y ELSE s.f
  IN  IF s.x >= s.y THEN s
      ELSE [x |-> s.x + 1, y |-> y, f |-> f + 1 + 2 * (s.x + 1),
            points |-> s.points \cup {<<s.x + 1, y>>}]

Eighth(r) ==
  Rounds(LAMBDA s, i : TurnOn(s), [x |-> 0, y |-> r, f |-> 1 - r, points |-> {<<0, r>>}], r).points

Mirrored(x0, y0, points) ==
  UNION {{<<x0 + sx * p[1], y0 + sy * p[2]>>, <<x0 + sx * p[2], y0 + sy * p[1]>>} :
           sx \in {-1, 1}, sy \in {-1, 1}, p \in points}
DrawCircle(x0, y0, r) == DrawPixels(Mirrored(x0, y0, Eighth(r)))

(* DrawLine takes unsigned coordinates: left of the panel is far right.     *)
U16(a) == a % Unsigned16
DrawFilledCircle(x0, y0, r) ==
  LET Across(y, half) == DrawLine(U16(x0 - half), U16(y), x0 + half, U16(y))
  IN  DrawPixels({<<x0, y0 + r>>, <<x0, y0 - r>>, <<x0 + r, y0>>, <<x0 - r, y0>>})
        \cup Across(y0, r)
        \cup UNION {Across(y0 + p[2], p[1]) \cup Across(y0 - p[2], p[1])
                      \cup Across(y0 + p[1], p[2]) \cup Across(y0 - p[1], p[2]) :
                    p \in Eighth(r) \ {<<0, r>>}}

(* PutcScaled: every dot of the character becomes a block, and the rest of  *)
(* its cell is blanked.                                                     *)
Block(x, y, dots, scale) ==
  {<<x + d[1] * scale + sx, y + d[2] * scale + sy>> :
     d \in dots, sx \in 0..scale - 1, sy \in 0..scale - 1}
Cell == (0..FontWidth - 1) \X (0..FontHeight - 1)

PutcScaled(s, ch, y, scale) ==
  [x |-> s.x + FontWidth * scale,
   picture |-> (s.picture \ Block(s.x, y, Cell, scale))
                 \cup DrawPixels(Block(s.x, y, Font[ch], scale))]

(* PutsScaled: it stops at the first character that begins off the panel.   *)
PutsScaled(picture, str, x0, y, scale) ==
  Rounds(LAMBDA s, i : IF s.x >= SSD1306_WIDTH \/ y >= SSD1306_HEIGHT THEN s
                       ELSE PutcScaled(s, str[i], y, scale),
         [x |-> x0, picture |-> picture], Len(str)).picture

(* disp_volume_bar: a frame, and in it a bar as long as the volume.         *)
disp_volume_bar(y, vol) ==
  DrawRectangle(0, y, SSD1306_WIDTH - 1, 6)
    \cup DrawFilledRectangle(1, y + 1, ((SSD1306_WIDTH - 2) * vol) \div 255, 4)
-----------------------------------------------------------------------------
Blank == [op |-> "none", at |-> << >>]
Init == lit = {} /\ drawn = Blank

Draws(op, at, points) ==
  lit' = points /\ drawn' = [op |-> op, at |-> at]

Fill == drawn # Blank /\ lit' = {} /\ drawn' = Blank
Line ==
  \E a, b \in Xs \X Ys : Draws("line", <<a, b>>, DrawLine(a[1], a[2], b[1], b[2]))
Rectangle ==
  \E a, b \in Xs \X Ys :
    \/ Draws("rectangle", <<a, b>>, DrawRectangle(a[1], a[2], b[1], b[2]))
    \/ Draws("filled rectangle", <<a, b>>, DrawFilledRectangle(a[1], a[2], b[1], b[2]))
Triangle ==
  \E p, q, r \in Corners :
    \/ Draws("triangle", <<p, q, r>>, DrawTriangle(p, q, r))
    \/ Draws("filled triangle", <<p, q, r>>, DrawFilledTriangle(p, q, r))
Circle ==
  \E c \in Circles :
    \/ Draws("circle", c, DrawCircle(c[1], c[2], c[3]))
    \/ Draws("filled circle", c, DrawFilledCircle(c[1], c[2], c[3]))
Text ==
  \E a \in Xs \X Ys, str \in Strings, scale \in Scales :
    Draws("text", <<a, str, scale>>, PutsScaled(Screen, str, a[1], a[2], scale))
Volume ==
  \E vol \in 0..255 : Draws("volume", <<1, vol>>, disp_volume_bar(1, vol))

Next ==
  \/ Fill
  \/ drawn = Blank /\ (Line \/ Rectangle \/ Triangle \/ Circle \/ Text \/ Volume)
Spec == Init /\ [][Next]_vars
-----------------------------------------------------------------------------
(* What the primitives are to look like.                                    *)
Box(a, size) ==
  {p \in Screen : a[1] <= p[1] /\ p[1] <= a[1] + size[1]
                  /\ a[2] <= p[2] /\ p[2] <= a[2] + size[2]}

(* Both ends, one point a column or a row, none further off than half one.  *)
IsLine(points, a, b) ==
  LET dx == b[1] - a[1]
      dy == b[2] - a[2]
      long == Most(Abs(dx), Abs(dy))
  IN  /\ {a, b} \subseteq points /\ Cardinality(points) = long + 1
      /\ \A p \in points :
           /\ Abs(2 * ((p[1] - a[1]) * dy - (p[2] - a[2]) * dx)) <= long
           /\ Least(a[1], b[1]) <= p[1] /\ p[1] <= Most(a[1], b[1])
           /\ Least(a[2], b[2]) <= p[2] /\ p[2] <= Most(a[2], b[2])

IsText(points, a, str, scale) ==
  \A p \in Screen :
    LET x == p[1] - a[1]
        y == p[2] - a[2]
        k == (x \div (FontWidth * scale)) + 1
    IN  (p \in points) =
          IF 0 <= x /\ 0 <= y /\ k <= Len(str) /\ y < FontHeight * scale
            THEN <<(x % (FontWidth * scale)) \div scale, y \div scale>> \in Font[str[k]]
            ELSE TRUE

(* Whatever is drawn looks as it is meant to and stays on the panel, also   *)
(* where it reaches over the right or the lower edge.                       *)
LooksAsMeant ==
  LET at == drawn.at
  IN  /\ lit \subseteq Screen
      /\ CASE drawn.op = "line" ->
               IsLine(lit, Clip(at[1][1], at[1][2]), Clip(at[2][1], at[2][2]))
           [] drawn.op = "rectangle" ->
               LET box == Box(at[1], at[2])
               IN  lit = {p \in box : \E d \in {<<1, 0>>, <<-1, 0>>, <<0, 1>>, <<0, -1>>} :
                                        <<p[1] + d[1], p[2] + d[2]>> \notin box}
           [] drawn.op = "filled rectangle" -> lit = Box(at[1], at[2])
           [] drawn.op \in {"triangle", "filled triangle"} ->
               /\ {at[1], at[2], at[3]} \subseteq lit
               /\ \A p \in lit, i \in 1..2 : \E k, l \in 1..3 :
                    at[k][i] <= p[i] /\ p[i] <= at[l][i]
           [] drawn.op \in {"circle", "filled circle"} ->
               \A p \in Screen :
                 LET r == at[3]
                     d == (p[1] - at[1]) * (p[1] - at[1]) + (p[2] - at[2]) * (p[2] - at[2]) - r * r
                 IN  IF Abs(d) > r THEN (p \in lit) = (drawn.op = "filled circle" /\ d < 0)
                     ELSE TRUE
           [] drawn.op = "text" -> IsText(lit, at[1], at[2], at[3])
           [] drawn.op = "volume" ->
               at[2] < 255 => lit \subseteq disp_volume_bar(1, at[2] + 1)
           [] OTHER -> TRUE
=============================================================================
