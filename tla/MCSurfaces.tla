----------------------------- MODULE MCSurfaces -----------------------------
EXTENDS Slices

\* A strip of two triangles, which is textured, and a file of two parts,
\* such a strip and one more triangle.
MCParts == [m \in {"strip", "parts"} |->
  IF m = "strip"
    THEN <<[vertices |-> 4, indices |-> <<0, 1, 2, 0, 2, 3>>]>>
    ELSE <<[vertices |-> 4, indices |-> <<0, 1, 2, 0, 2, 3>>],
           [vertices |-> 3, indices |-> <<0, 1, 2>>]>>]
MCMesh == DOMAIN MCParts
MCTextured == {"strip"}
MCInitMesh == <<"strip", "strip">>
MCInitDrop == 1
MCCoord == -1 .. 2
MCDrag == -1 .. 1
MCFactor == {2}

\* A corner can lie in a slice, or one or more above or below it, and two
\* corners three apart, so that a cut between them has uneven weights.
MCHeight == -1 .. 2
MCOffset == -1 .. 2
MCShare == 0 .. 3
=============================================================================
