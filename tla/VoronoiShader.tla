---------------------------- MODULE VoronoiShader ----------------------------
(***************************************************************************)
(* How the geometry shaders of Voronoi.fx draw a triangle and an edge into *)
(* one slice: they cut it at the depth of the slice, and project every     *)
(* piece onto the slice along a normal that has to point there.            *)
(*                                                                         *)
(* Of a corner only its depth is kept, of a normal only the sign of its z, *)
(* of an edge also whether it is upright: its ends differ in depth only.   *)
(* A point is given by the weights of the corners in it, up to a factor;   *)
(* an edge is the side of a triangle from corner 1 to corner 2.            *)
(***************************************************************************)
EXTENDS Integers

Corners == 1 .. 3
Sign(x) == IF x < 0 THEN -1 ELSE 1
Distance(x, y) == IF x < y THEN y - x ELSE x - y

\* The sum of the weights of a point, and its depth times that sum.
Weight(p) == p[1] + p[2] + p[3]
Depth(p, z) == p[1] * z[1] + p[2] * z[2] + p[3] * z[3]

-----------------------------------------------------------------------------
(* Cutting                                                                 *)

Corner(i) == [k \in Corners |-> IF k = i THEN 1 ELSE 0]

\* interpolate: the point between two corners in the depth s, with its weights
\* multiplied by the distance of the corners, zDist.
Between(z, s, i, j) ==
  LET sign == Sign(z[j] - z[i]) IN
  [k \in Corners |-> CASE k = i -> sign * (z[j] - s)
                       [] k = j -> sign * (s - z[i])
                       [] OTHER -> 0]

\* The arguments of TriangleCalcDistanceAndAppend and EdgeProjectOntoSlice.
\* greater: bSliceDepthGreater
Piece(points, greater) == [points |-> points, greater |-> greater]

Whole(n, greater) == {Piece([k \in 1 .. n |-> Corner(k)], greater)}

\* Mutant: with the first corner above, the third is tested as with it below.
LoneUnturned(z, s) ==
  IF z[1] < s THEN IF z[2] < s THEN 3 ELSE IF z[3] < s THEN 2 ELSE 1
              ELSE IF z[2] > s THEN 3 ELSE IF z[3] < s THEN 2 ELSE 1

\* The corner that is alone on its side of the slice, in the order of the
\* tests in VoronoiTriangleGS: cases 2.3, 2.2, 1.1 and 1.3, 1.2, 2.1 there.
Lone(z, s) ==
  IF z[1] < s THEN IF z[2] < s THEN 3 ELSE IF z[3] < s THEN 2 ELSE 1
              ELSE IF z[2] > s THEN 3 ELSE IF z[3] > s THEN 2 ELSE 1

\* Mutant: the quadrangle is divided alike on both sides of the slice.
CutAtSame(i, j, k, a, b, below) ==
  {Piece(<<Corner(k), a, b>>, ~below),
   Piece(<<Corner(i), Corner(j), IF below THEN a ELSE b>>, below),
   Piece(<<Corner(j), a, b>>, below)}

\* The three pieces: the lone corner k with the points a and b, where the slice
\* cuts the edges from i and from j to it, and the rest, a quadrangle.
CutAt(i, j, k, a, b, below) ==
  {Piece(<<Corner(k), a, b>>, ~below),
   Piece(<<Corner(i), Corner(j), IF below THEN a ELSE b>>, below),
   Piece(<<Corner(IF below THEN j ELSE i), a, b>>, below)}

\* VoronoiTriangleGS, for a triangle that is not perpendicular to the slices
\* (normal.z # 0).
CutTriangle(z, s) ==
  LET k == Lone(z, s)
      i == IF k = 1 THEN 2 ELSE 1
      j == IF k = 3 THEN 2 ELSE 3 IN
  IF \A c \in Corners : z[c] <= s THEN Whole(3, TRUE)
  ELSE IF \A c \in Corners : z[c] >= s THEN Whole(3, FALSE)
  ELSE CutAt(i, j, k, Between(z, s, i, k), Between(z, s, j, k), (z[1] < s) <=> (k # 1))

\* The triangle has corners on both sides of the slice.
Reaches(z, s) == (\E c \in Corners : z[c] > s) /\ (\E c \in Corners : z[c] < s)

\* TriangleCalcDistanceAndAppendNormalParallel: a perpendicular triangle that is
\* cut becomes a band of the slice on both sides of the line between the cuts.
CutLine(z, s) ==
  LET k == Lone(z, s) IN {Between(z, s, i, k) : i \in Corners \ {k}}

\* CalculateEdgeProjection: nothing is left of an upright edge on one side of the
\* slice, to which none of its points is nearer than an end.
CutEdge(z, s, upright) ==
  LET middle == Between(z, s, 1, 2)
      OneSide(greater) == IF upright THEN {} ELSE Whole(2, greater) IN
  IF z[1] <= s /\ z[2] <= s THEN OneSide(TRUE)
  ELSE IF z[1] >= s /\ z[2] >= s THEN OneSide(FALSE)
  ELSE {Piece(<<Corner(1), middle>>, z[1] < s), Piece(<<Corner(2), middle>>, z[1] >= s)}

-----------------------------------------------------------------------------
(* Projecting                                                              *)

\* The z of the normal of a triangle, turned as TriangleCalcDistanceAndAppend does.
TriangleNormal(normal, greater) ==
  IF (greater /\ normal < 0) \/ (~greater /\ normal > 0) THEN -normal ELSE normal

\* What EdgeProjectOntoSlice makes of a piece: a band on both sides of an edge that
\* is parallel to the slice, the whole slice for an upright one, and otherwise a
\* band beside the piece as it is projected along EdgeNormal.
EdgeShape(first, second, upright) ==
  IF first = second THEN "band" ELSE IF upright THEN "slice" ELSE "projection"

\* Mutant: the edge is not turned when its second corner is the deeper one.
EdgeNormalUnturned(first, second, greater) ==
  IF greater THEN second - first ELSE first - second

\* EdgeProjectOntoSlice: a runs along the edge away from the slice, and the part
\* of the plane through the edge that is perpendicular to it rises against a.
\* NormalMatrix, which turns a, is taken to keep the order of depths.
EdgeNormal(first, second, greater) ==
  LET a == IF (first < second) <=> greater THEN first - second ELSE second - first IN -a

\* A point moved along a normal by its distance from the slice.
Projected(p, z, s, normal) == Depth(p, z) + Sign(normal) * Distance(s * Weight(p), Depth(p, z))

-----------------------------------------------------------------------------
(* What it takes to be right                                               *)

IsPoint(p) == (\A c \in Corners : p[c] >= 0) /\ Weight(p) > 0

Lands(p, z, s, normal) == IsPoint(p) /\ Projected(p, z, s, normal) = s * Weight(p)

InSlice(p, z, s) == IsPoint(p) /\ Depth(p, z) = s * Weight(p)

\* Cutting a triangle divides by no edge in the depth of the slice.  Every corner
\* of a piece is a point of the triangle, and a normal with z # 0 takes it to the
\* slice and not away from it; of a perpendicular triangle that is cut, the line
\* is in the slice.  Nothing is said of a perpendicular triangle on one side of
\* the slice: TriangleCalcDistanceAndAppend divides by its normal.z = 0.
TriangleLands(z, s) ==
  /\ \A piece \in CutTriangle(z, s), normal \in {-1, 1}, n \in 1 .. 3 :
       Lands(piece.points[n], z, s, TriangleNormal(normal, piece.greater))
  /\ Reaches(z, s) => \A p \in CutLine(z, s) : InSlice(p, z, s)

\* The edge has its ends on the two sides of the slice.
Through(z, s) == (z[1] < s /\ s < z[2]) \/ (z[2] < s /\ s < z[1])

\* An edge is left out only if it is upright and does not go through the slice.  A
\* piece that is to be projected is projected onto the slice; the whole slice is
\* filled for an upright edge that goes through it, with the texture coordinate of
\* the point where it does, and a band is drawn for an edge in one depth only.
EdgeLands(z, s) ==
  \A upright \in BOOLEAN :
    /\ CutEdge(z, s, upright) = {} => upright /\ ~Through(z, s)
    /\ \A piece \in CutEdge(z, s, upright) :
         LET p == piece.points[1]
             q == piece.points[2]
             first == Depth(p, z) * Weight(q)
             second == Depth(q, z) * Weight(p)
             shape == EdgeShape(first, second, upright) IN
         /\ shape = "projection" =>
              \A n \in 1 .. 2 :
                Lands(piece.points[n], z, s, EdgeNormal(first, second, piece.greater))
         /\ shape = "slice" => InSlice(q, z, s) /\ ~InSlice(p, z, s)
         /\ shape = "band" => z[1] = z[2]

\* Points in the triangle p, q, r, when it has an area.
Det(p, q, r) ==
  p[1] * (q[2] * r[3] - q[3] * r[2]) - p[2] * (q[1] * r[3] - q[3] * r[1])
    + p[3] * (q[1] * r[2] - q[2] * r[1])

Inside(x, p, q, r) ==
  /\ Det(p, q, r) # 0
  /\ \A d \in {Det(x, q, r), Det(p, x, r), Det(p, q, x)} : d = 0 \/ Sign(d) = Sign(Det(p, q, r))

\* The point x of a triangle is in a piece of it, and on the side of the slice the
\* piece is taken to be on.
InPiece(x, z, s) ==
  \E piece \in CutTriangle(z, s) :
    /\ Inside(x, piece.points[1], piece.points[2], piece.points[3])
    /\ LET d == Depth(x, z) - s * Weight(x) IN IF piece.greater THEN d <= 0 ELSE d >= 0
=============================================================================
