---------------------------- MODULE TextureSize ----------------------------
(***************************************************************************)
(* The sizes of the volume textures (UpdateBoundingBox and                 *)
(* UpdateTextureResolution in Scene.cpp) and the slices chosen in them     *)
(* (OnGUIEvent in VolumetricDiffusion11.cpp).  An extent is the sides of a *)
(* bounding box, x, y and z, as multiples of some unit; a size is width,   *)
(* height and depth in texels.  The source computes in floats and rounds   *)
(* by int(... + 0.5); here the quotients are exact.                        *)
(***************************************************************************)
EXTENDS Integers

Triple == Nat \X Nat \X Nat

\* max(x, max(y, z))
Larger(a, b) == IF a >= b THEN a ELSE b
Largest(t) == Larger(t[1], Larger(t[2], t[3]))

Depth(size) == size[3]

\* int(side / longest * resolution + 0.5)
Texels(side, longest, resolution) ==
  (2 * side * resolution + longest) \div (2 * longest)

\* The texture size for a box: its longest side gets resolution texels.
SizeOf(extent, resolution) ==
  LET longest == Largest(extent) IN
  <<Texels(extent[1], longest, resolution),
    Texels(extent[2], longest, resolution),
    Texels(extent[3], longest, resolution)>>

\* A texture of this size can be created.
HasTexels(size) == \A i \in 1 .. 3 : size[i] # 0

\* VolumeRenderer::Update: the samples PS_RAYCAST takes along a ray, each by
\* 1 / Largest(size) further into the volume, which it sees as a unit cube.
Iterations(size) == 2 * Largest(size)

\* int(percent / 100 * n + 0.5): the slice index of a slider in percent
Percent(v, n) == (v * n + 50) \div 100
=============================================================================
