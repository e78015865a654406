------------------------------- MODULE Slices -------------------------------
(***************************************************************************)
(* The surfaces as the slices of the volume see them: Voronoi.cpp draws    *)
(* every surface into every slice, wherever the mouse has put it           *)
(* (Surfaces), and the shaders cut and project it there (VoronoiShader).   *)
(***************************************************************************)
EXTENDS Surfaces, VoronoiShader

CONSTANTS Height,   \* depths of the slices
          Offset,   \* how much deeper a corner is than the centre of its surface
          Share     \* weights of the corners in the points that are looked at

ASSUME SlicesAssumption ==
  /\ Height \subseteq Int /\ Offset \subseteq Int
  /\ Share \subseteq Nat

\* VoronoiVS: the depths of the corners of a triangle, however it is turned.
CornersAt(centre) == [Corners -> {centre + d : d \in Offset}]

-----------------------------------------------------------------------------
(* Each property is decided once for every place a surface can have.       *)

TrianglesLandAt ==
  {centre \in Coord : \A z \in CornersAt(centre), s \in Height : TriangleLands(z, s)}

EdgesLandAt ==
  {centre \in Coord : \A z \in CornersAt(centre), s \in Height : EdgeLands(z, s)}

CoveredAt ==
  {centre \in Coord : \A z \in CornersAt(centre), s \in Height, x \in [Corners -> Share] :
     IsPoint(x) => InPiece(x, z, s)}

\* Wherever the surfaces are, VoronoiTriangleGS draws each of their triangles into
\* each slice, unless the triangle is perpendicular to the slices (normal.z = 0)
\* and wholly on one side of this one: the normal, of which
\* TriangleCalcDistanceAndAppend decides the direction, points to the slice, and
\* the band of a cut perpendicular triangle lies in it.
TrianglesLand == \A i \in 1 .. 2 : surface[i].centre \in TrianglesLandAt

\* Wherever the surfaces are, every edge CalculateEdgeProjection does not leave to
\* the corners, cut or not, gets the shape its direction asks for, at the depth of
\* the slice: projected towards it, a band beside it, or the whole slice.
EdgesLand == \A i \in 1 .. 2 : surface[i].centre \in EdgesLandAt

\* No part of a triangle that is not perpendicular to the slices is lost by the six
\* cases of the cut: each of its points is in a piece that is projected from the
\* side of the slice on which the point is.
PiecesCover == \A i \in 1 .. 2 : surface[i].centre \in CoveredAt
=============================================================================
