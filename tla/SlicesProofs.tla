---------------------------- MODULE SlicesProofs ----------------------------
(***************************************************************************)
(* Wherever the surfaces are moved, they are drawn into the slices: what   *)
(* VoronoiShaderProofs shows of one triangle and one edge, for every place *)
(* that SurfacesProofs shows a surface can have.                           *)
(***************************************************************************)
EXTENDS Slices, SurfacesProofs, VoronoiShaderProofs

\* Corners have integer depths.
LEMMA CornersAtAreInt ==
  ASSUME NEW centre \in Coord, NEW z \in CornersAt(centre)
  PROVE  z \in [Corners -> Int]
<1>1. centre \in Int /\ Offset \subseteq Int  BY SurfacesAssumption, SlicesAssumption
<1>2. {centre + d : d \in Offset} \subseteq Int  BY <1>1
<1>3. QED  BY <1>2 DEF CornersAt

\* In every state both surfaces are somewhere.
LEMMA SurfacesHavePlaces == TypeOK => \A i \in 1 .. 2 : surface[i].centre \in Coord
<1>1. \A s \in SurfaceRecord : s.centre \in Coord  BY DEF SurfaceRecord
<1>2. TypeOK => \A i \in 1 .. 2 : surface[i] \in SurfaceRecord  BY DEF TypeOK
<1>3. QED  BY <1>1, <1>2

\* Whatever the user does, the triangles of a surface land in every slice, but for
\* those that are perpendicular to the slices, which do where they are cut.
THEOREM TrianglesReachSlices == Spec => []TrianglesLand
<1>1. \A centre \in Coord : centre \in TrianglesLandAt
  BY CornersAtAreInt, TrianglesAlwaysLand, SlicesAssumption DEF TrianglesLandAt
<1>2. TypeOK => TrianglesLand  BY <1>1, SurfacesHavePlaces DEF TrianglesLand
<1>3. QED  BY <1>2, TypeCorrectness, PTL

\* So do its edges, but for upright ones on one side of the slice, which are not drawn.
THEOREM EdgesReachSlices == Spec => []EdgesLand
<1>1. \A centre \in Coord : centre \in EdgesLandAt
  BY CornersAtAreInt, EdgesAlwaysLand, SlicesAssumption DEF EdgesLandAt
<1>2. TypeOK => EdgesLand  BY <1>1, SurfacesHavePlaces DEF EdgesLand
<1>3. QED  BY <1>2, TypeCorrectness, PTL

\* And no part of a triangle that is not perpendicular is lost where it is cut.
THEOREM PiecesAreAll == Spec => []PiecesCover
<1>1. \A centre \in Coord : centre \in CoveredAt
  <2> SUFFICES ASSUME NEW centre \in Coord, NEW z \in CornersAt(centre), NEW s \in Height,
                      NEW x \in [Corners -> Share], IsPoint(x)
               PROVE  InPiece(x, z, s)
    BY DEF CoveredAt
  <2>1. z \in [Corners -> Int]  BY CornersAtAreInt
  <2>2. s \in Int /\ Share \subseteq Int  BY SlicesAssumption
  <2>3. x \in [Corners -> Int]  BY <2>2
  <2>4. QED  BY <2>1, <2>2, <2>3, PiecesAlwaysCover
<1>2. TypeOK => PiecesCover  BY <1>1, SurfacesHavePlaces DEF PiecesCover
<1>3. QED  BY <1>2, TypeCorrectness, PTL
=============================================================================
