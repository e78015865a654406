------------------------------ MODULE Surface ------------------------------
(***************************************************************************)
(* One surface (Surface.cpp): the mesh it has loaded, its vertex and index *)
(* buffers, its texture, and its place.                                    *)
(*                                                                         *)
(* A buffer is represented by the mesh it was filled from, a texture by    *)
(* the mesh it was chosen for.  The model matrix is an affine map of which *)
(* one coordinate is kept: centre is where it puts the origin of the mesh. *)
(***************************************************************************)
EXTENDS Integers, SequencesExt

CONSTANTS Mesh,       \* mesh files
          Parts,      \* Parts[m]: the aiMeshes of m, each with its number of
                      \* vertices and its triangles' indices, counted from 0
          Textured,   \* meshes with texture coordinates
          Null

ASSUME SurfaceAssumption ==
  /\ Parts \in [Mesh -> Seq([vertices : Nat, indices : Seq(Nat)])]
  /\ \A m \in Mesh : \A i \in DOMAIN Parts[m] : \A k \in DOMAIN Parts[m][i].indices :
       Parts[m][i].indices[k] < Parts[m][i].vertices
  /\ \A m \in Mesh : \A i \in DOMAIN Parts[m] : Len(Parts[m][i].indices) % 3 = 0
  /\ Textured \subseteq Mesh
  /\ Null \notin Mesh

-----------------------------------------------------------------------------
(* What LoadMesh copies out of a file                                      *)

\* The vertices of all parts, one after the other, each named by its part and
\* its index there: pVertices.
Vertices(m) ==
  FlattenSeq([i \in DOMAIN Parts[m] |-> [j \in 1 .. Parts[m][i].vertices |-> <<i, j - 1>>]])

\* The indices of all parts, one after the other: pTriangleIndices.
TriangleIndices(m) ==
  FlattenSeq([i \in DOMAIN Parts[m] |-> Parts[m][i].indices])

\* The three edges of every triangle: pEdgeIndices.
EdgeIndices(m) ==
  LET t == TriangleIndices(m) IN
  [k \in 1 .. 2 * Len(t) |->
     LET first == 3 * ((k - 1) \div 6)
         corner == (((k - 1) % 6) + 1) \div 2 IN
     t[first + (corner % 3) + 1]]

\* The part each index comes from.
PartOfIndex(m) ==
  FlattenSeq([i \in DOMAIN Parts[m] |-> [k \in DOMAIN Parts[m][i].indices |-> i]])

-----------------------------------------------------------------------------
(* Placing the surface                                                     *)

\* A rotation about the pivot m_vTranslation, seen along one axis.
Rotate(s, cos) == [s EXCEPT !.centre = cos * (@ - s.pivot) + s.pivot]

\* Mutant: the model is moved, but m_vTranslation forgotten.
TranslateKeepsPivot(s, d) == [s EXCEPT !.centre = @ + d]

\* Both the model and the pivot are moved.
Translate(s, d) == [s EXCEPT !.centre = @ + d, !.pivot = @ + d]

\* Scale multiplies with the plain scaling matrix, about the world's origin.
Scale(s, factor) == [s EXCEPT !.centre = factor * @]

-----------------------------------------------------------------------------
(* Loading a mesh                                                          *)

\* Mutant: the old buffers are released only when the new ones are made.
ReplaceMeshKeepsBuffers(s, m) ==
  [s EXCEPT !.mesh = m, !.centre = 0, !.textured = FALSE]

\* The model matrix is reset, the buffers are released and the vertices are
\* replaced; m_vTranslation keeps its value.
ReplaceMesh(s, m) ==
  [s EXCEPT !.mesh = m, !.centre = 0, !.vb = Null, !.ib = Null, !.eb = Null,
            !.textured = FALSE]

\* The calls LoadMesh makes that can fail, and the file the user picks as image.
LoadOutcome == {"done", "no image", "texture fails", "view fails",
                "vertices fail", "triangles fail", "edges fail"}

\* Mutant: the old texture is released, its view is not.
TexturesKeepView(s, m, outcome) ==
  IF m \notin Textured THEN s
  ELSE CASE outcome = "no image"      -> [s EXCEPT !.textured = TRUE]
         [] outcome = "texture fails" -> [s EXCEPT !.texture = Null]
         [] outcome = "view fails"    -> [s EXCEPT !.texture = m]
         [] OTHER                     -> [s EXCEPT !.texture = m, !.view = m, !.textured = TRUE]

\* Then the texture: the old one is released once the image is read.
\* Without an image m_bIsTextured is set all the same.
Textures(s, m, outcome) ==
  IF m \notin Textured THEN s
  ELSE CASE outcome = "no image"      -> [s EXCEPT !.textured = TRUE]
         [] outcome = "texture fails" -> [s EXCEPT !.texture = Null, !.view = Null]
         [] outcome = "view fails"    -> [s EXCEPT !.texture = m, !.view = Null]
         [] OTHER                     -> [s EXCEPT !.texture = m, !.view = m, !.textured = TRUE]

\* LoadMesh returns before the buffers are made.
GivesUp(m, outcome) == m \in Textured /\ outcome \in {"texture fails", "view fails"}

\* The second part: the results of CreateBuffer are not looked at.
Buffers(s, outcome) ==
  [s EXCEPT !.vb = IF outcome = "vertices fail" THEN Null ELSE s.mesh,
            !.ib = IF outcome = "triangles fail" THEN Null ELSE s.mesh,
            !.eb = IF outcome = "edges fail" THEN Null ELSE s.mesh]

\* LoadMesh for a file that Assimp reads.  For any other it changes nothing.
LoadMesh(s, m, outcome) ==
  LET t == Textures(ReplaceMesh(s, m), m, outcome) IN
  IF GivesUp(m, outcome) THEN t ELSE Buffers(t, outcome)

\* Mutant: the constructor forgets m_pDiffuseTextureSRV.
NewSurfaceNoView(m) ==
  [mesh |-> m, vb |-> m, ib |-> m, eb |-> m, texture |-> Null, view |-> "uninitialised",
   textured |-> FALSE, centre |-> 0, pivot |-> 0]

\* Surface::Surface and Initialize with a colour.
NewSurface(m) ==
  [mesh |-> m, vb |-> m, ib |-> m, eb |-> m, texture |-> Null, view |-> Null,
   textured |-> FALSE, centre |-> 0, pivot |-> 0]
=============================================================================
