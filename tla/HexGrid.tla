------------------------------ MODULE HexGrid ------------------------------
(***************************************************************************)
(* stdlib/hexgrid/hex.go: hexagons in cube coordinates.  A fractional      *)
(* coordinate is an integer numerator over a denominator, and the nudge is *)
(* one part in NudgeParts.  The code computes in float64, whose rounding   *)
(* noise is far below the nudge (for coordinates up to thousands), so it   *)
(* decides only between exact ties; which way is not known, so it is an    *)
(* input.  And tag.locus.go: where the cells of a locus are laid out.      *)
(***************************************************************************)
EXTENDS Integers, Sequences

CONSTANT NudgeParts

NewHex(q, r) == [q |-> q, r |-> r, s |-> -q - r]

\* directionSE, NE, N, NW, SW, S
directions == <<NewHex(1, 0), NewHex(1, -1), NewHex(0, -1),
                NewHex(-1, 0), NewHex(-1, 1), NewHex(0, 1)>>

Absolute(n) == IF n < 0 THEN -n ELSE n

HexAdd(a, b) == NewHex(a.q + b.q, a.r + b.r)
HexSubtract(a, b) == NewHex(a.q - b.q, a.r - b.r)
HexLength(h) == (Absolute(h.q) + Absolute(h.r) + Absolute(h.s)) \div 2
HexDistance(a, b) == HexLength(HexSubtract(a, b))
HexNeighbor(h, direction) == HexAdd(h, directions[direction])

\* roundToInt(num / den): to the nearest integer, halves away from zero.
RoundToInt(num, den) ==
    IF num < 0 THEN -((2 * (-num) + den) \div (2 * den)) ELSE (2 * num + den) \div (2 * den)

\* q and r are equally far from their nearest integers, and farther than s from its own:
\* the nudge, being the same for both, does not settle which of them moved most.
Tied(q, r, den) ==
    LET off(x) == Absolute(RoundToInt(x, den) * den - x)
    IN  off(q) = off(r) /\ off(q) > off(-q - r)

\* fractionalHex.Round: the coordinate that moved most follows from the other two; noise
\* says whether q seems to have moved more than r when they are tied.
FractionalRound(q, r, den, noise) ==
    LET s     == -q - r
        rq    == RoundToInt(q, den)
        rr    == RoundToInt(r, den)
        rs    == RoundToInt(s, den)
        qDiff == Absolute(rq * den - q)
        rDiff == Absolute(rr * den - r)
        sDiff == Absolute(rs * den - s)
    IN  IF (qDiff > rDiff \/ (noise /\ qDiff = rDiff)) /\ qDiff > sDiff THEN [q |-> -rr - rs, r |-> rr, s |-> rs]
        ELSE IF rDiff > sDiff THEN [q |-> rq, r |-> -rq - rs, s |-> rs]
        ELSE [q |-> rq, r |-> rr, s |-> -rq - rr]

\* hexLerp: the coordinate i steps of n from x to y, nudged, over LerpDen(n).
LerpDen(n) == NudgeParts * (IF n = 0 THEN 1 ELSE n)
HexLerp(x, y, i, n) ==
    IF n = 0 THEN x * NudgeParts + 1 ELSE (x * (n - i) + y * i) * NudgeParts + n

\* The points of the line from a to b that noise may set either way.
Ties(a, b) ==
    LET n == HexDistance(a, b)
    IN  {k \in 1..(n + 1) :
            Tied(HexLerp(a.q, b.q, k - 1, n), HexLerp(a.r, b.r, k - 1, n), LerpDen(n))}

\* HexLineDraw: N + 1 points from a to b; at those of noise q seems to have moved more.
HexLineDraw(a, b, noise) ==
    LET n == HexDistance(a, b)
    IN  [k \in 1..(n + 1) |->
            FractionalRound(HexLerp(a.q, b.q, k - 1, n), HexLerp(a.r, b.r, k - 1, n),
                            LerpDen(n), k \in noise)]

Larger(x, y) == IF x > y THEN x ELSE y
Smaller(x, y) == IF x < y THEN x ELSE y

\* HexRange: the hexagons listed around a center.
HexRange(center, radius) ==
    UNION {{HexAdd(center, NewHex(dx, dy)) :
               dy \in Larger(-radius, -dx - radius)..Smaller(radius, -dx + radius)} :
           dx \in (-radius)..radius}

HexRectangleGrid(width, height) ==
    UNION {{NewHex(q, r) : r \in (-(q \div 2))..(height - (q \div 2) - 1)} : q \in 0..(width - 1)}

\* The noise depends on the two ends only, so a line comes out the same every time.
HexHasLineOfSight(center, target, blocking, noise) ==
    \A i \in 1..(HexDistance(center, target) + 1) :
        HexLineDraw(center, target, noise)[i] \notin blocking

HexFieldOfView(source, candidates, blocking, noise) ==
    {h \in candidates : \/ blocking = {} \/ HexDistance(source, h) <= 1
                        \/ HexHasLineOfSight(source, h, blocking, noise)}

-----------------------------------------------------------------------------
(* Locus layouts *)

LocusHexSpiral ==
    << <<0, 0>>,
       <<1, 0>>, <<0, 1>>, <<-1, 1>>, <<-1, 0>>, <<0, -1>>, <<1, -1>>,
       <<2, 0>>, <<1, 1>>, <<0, 2>>, <<-1, 2>>, <<-2, 2>>, <<-2, 1>>,
       <<-2, 0>>, <<-1, -1>>, <<0, -2>>, <<1, -2>>, <<2, -2>>, <<2, -1>>,
       <<3, 0>>, <<2, 1>>, <<1, 2>>, <<0, 3>>, <<-1, 3>>, <<-2, 3>>,
       <<-3, 3>>, <<-3, 2>>, <<-3, 1>>, <<-3, 0>>, <<-2, -1>>, <<-1, -2>>,
       <<0, -3>>, <<1, -3>>, <<2, -3>>, <<3, -3>>, <<3, -2>>, <<3, -1>> >>
SpiralHex(cell) == NewHex(LocusHexSpiral[cell + 1][1], LocusHexSpiral[cell + 1][2])

\* Positions are in units of the spacing: halves of it, and of its height, on the spiral;
\* a ring and a place among its equal parts on the circles.
locusHexSpiralPos(cell) ==
    IF cell < 0 \/ cell >= Len(LocusHexSpiral) THEN <<0, 0>>
    ELSE <<2 * SpiralHex(cell).q + SpiralHex(cell).r, SpiralHex(cell).r>>
locusLinearPos(cell) == <<cell, 0>>
locusTorusPos(cell) == IF cell < 0 \/ cell >= 64 THEN <<0, 0>> ELSE <<cell % 8, cell \div 8>>

\* cellToRing: rings of 6, 12, 18... cells follow cell 0.
cellToRing(cell) ==
    LET start[ring \in 1..(cell + 1)] == IF ring = 1 THEN 1 ELSE start[ring - 1] + 6 * (ring - 1)
        ring == CHOOSE r \in 1..(cell + 1) : cell >= start[r] /\ cell < start[r] + 6 * r
    IN  <<ring, cell - start[ring]>>
locusRadialPos(cell) == IF cell <= 0 THEN <<0, 0>> ELSE cellToRing(cell)

\* The registered kits: how many cells each lays out.
LocusKits == [spiral |-> Len(LocusHexSpiral), linear |-> 64, radial |-> Len(LocusHexSpiral), torus |-> 64]
Layouts(cell) == [spiral |-> locusHexSpiralPos(cell), linear |-> locusLinearPos(cell),
                  radial |-> locusRadialPos(cell), torus |-> locusTorusPos(cell)]

\* No kit lays two of its cells in one place; the spiral walks around the centre, ring by
\* ring, and agrees with the circles on the ring of each cell.
LayoutLaw(cell) ==
    /\ \A kit \in DOMAIN LocusKits : cell < LocusKits[kit] =>
          \A d \in 0..(cell - 1) : Layouts(d)[kit] # Layouts(cell)[kit]
    /\ cell \in 1..(Len(LocusHexSpiral) - 1) =>
          /\ HexLength(SpiralHex(cell)) = locusRadialPos(cell)[1]
          /\ cellToRing(cell)[2] > 0 => HexDistance(SpiralHex(cell), SpiralHex(cell - 1)) = 1

-----------------------------------------------------------------------------
\* However noise breaks the ties, a line runs from a to b over neighbours, stays on the
\* grid (q + r + s = 0) and differs from the line backwards at ties only; the range around
\* a hexagon is the ball of the distance, which is the number of neighbour steps; and
\* nothing in view is hidden by what lies beyond it.
HexLaw(a, b, radius) ==
    LET n == HexDistance(a, b)
    IN  /\ \A noise \in SUBSET Ties(a, b) :
              LET line == HexLineDraw(a, b, noise)
              IN  /\ line[1] = a /\ line[n + 1] = b
                  /\ \A i \in 1..n : HexDistance(line[i], line[i + 1]) = 1
                  /\ \A i \in DOMAIN line : line[i].q + line[i].r + line[i].s = 0
                  /\ \A back \in SUBSET Ties(b, a) : \A i \in DOMAIN line \ Ties(a, b) :
                        HexLineDraw(b, a, back)[n + 2 - i] = line[i]
                  /\ n > 1 => LET beyond == HexAdd(b, HexSubtract(b, line[n]))
                              IN  /\ b \in HexFieldOfView(a, {b}, {beyond}, noise)
                                  /\ b \notin HexFieldOfView(a, {b}, {line[n]}, noise)
        /\ b \in HexRange(a, radius) <=> n <= radius
        /\ n > 0 => \E d \in 1..6 : HexDistance(HexNeighbor(a, d), b) = n - 1
        /\ \A d \in 1..6 : HexDistance(HexNeighbor(a, d), b) >= n - 1
=============================================================================
