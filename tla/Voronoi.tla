------------------------------ MODULE Voronoi ------------------------------
(***************************************************************************)
(* The Voronoi diagram renderer (Voronoi.cpp).  Its object holds the depth  *)
(* of its 3D textures, the slice it renders next and the contents of the   *)
(* colour and distance textures.  The two textures are written slice by    *)
(* slice from the same two surfaces, so one function from slices to poses  *)
(* stands for both: tex[s] is the pose of the surfaces at the moment slice *)
(* s was drawn, NoPose if it was not drawn since the textures were created.*)
(* Shader and view set-up is left out; it writes no state of the object    *)
(* that a later call reads.                                                *)
(***************************************************************************)
EXTENDS Integers

CONSTANTS Pose,    \* positions, orientations, scales and meshes of both surfaces
          NoPose   \* content of a slice that was never drawn

ASSUME PoseAssumption == NoPose \notin Pose

Slice(d) == 0 .. d - 1
Volume(d) == [Slice(d) -> Pose \cup {NoPose}]

\* A Voronoi object: the slice to draw next exists in the textures.
IsVoronoi(v) ==
  /\ v = [depth |-> v.depth, slice |-> v.slice, tex |-> v.tex]
  /\ v.depth \in Nat \ {0}
  /\ v.slice \in Slice(v.depth)
  /\ v.tex \in Volume(v.depth)

\* ItlUpdateTextures: the textures are released and created anew, undefined.
BlankVolume(d) == [s \in Slice(d) |-> NoPose]

\* Voronoi::Initialize and Voronoi::Update
VoronoiUpdate(d) == [depth |-> d, slice |-> 0, tex |-> BlankVolume(d)]

\* RenderVoronoi draws the last slice, so it returns true.
LastSlice(v) == v.slice + 1 = v.depth

\* Mutant: the counter does not start again after the last slice.
RenderVoronoiNoReset(v, pose) ==
  [depth |-> v.depth, slice |-> v.slice + 1, tex |-> [v.tex EXCEPT ![v.slice] = pose]]

\* RenderVoronoi: one slice of both surfaces as they are in this frame.
RenderVoronoi(v, pose) ==
  [depth |-> v.depth,
   slice |-> IF LastSlice(v) THEN 0 ELSE v.slice + 1,
   tex   |-> [v.tex EXCEPT ![v.slice] = pose]]

\* Every slice of the volume was drawn.
Drawn(vol) == \A s \in DOMAIN vol : vol[s] # NoPose
=============================================================================
