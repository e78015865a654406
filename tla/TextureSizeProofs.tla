------------------------- MODULE TextureSizeProofs -------------------------
(***************************************************************************)
(* Facts about texture sizes and slice indices, for all boxes, resolutions *)
(* and depths.                                                             *)
(***************************************************************************)
EXTENDS TextureSize, TLAPS

\* Quotient and remainder.
LEMMA Quotient ==
  ASSUME NEW a \in Nat, NEW b \in Nat \ {0}
  PROVE  /\ a \div b \in Nat
         /\ b * (a \div b) <= a
         /\ a < b * (a \div b) + b
OBVIOUS

\* Products keep the order of their factors.
LEMMA ProductMonotone ==
  ASSUME NEW a \in Nat, NEW b \in Nat, NEW c \in Nat, a <= b
  PROVE  a * c \in Nat /\ a * c <= b * c
OBVIOUS

\* A whole number of steps of 2*a that ends within half a step of 2*a*r is r.
LEMMA HalfStep ==
  ASSUME NEW a \in Nat \ {0}, NEW q \in Nat, NEW r \in Nat
  PROVE  /\ 2 * a * q <= 2 * a * r + a => q <= r
         /\ 2 * a * r + a < 2 * a * q + 2 * a => r <= q
OBVIOUS

\* A side gets a number of texels that exceeds the resolution never, and is 0
\* only for a side that is shorter than half a texel.
LEMMA TexelsBounded ==
  ASSUME NEW side \in Nat, NEW longest \in Nat \ {0}, NEW r \in Nat, side <= longest
  PROVE  /\ Texels(side, longest, r) \in Nat
         /\ Texels(side, longest, r) <= r
         /\ Texels(side, longest, r) # 0 <=> 2 * side * r >= longest
<1>1. side * r \in Nat /\ side * r <= longest * r /\ longest * r \in Nat
  BY ProductMonotone
<1> DEFINE a == 2 * side * r + longest
           q == a \div (2 * longest)
<1>2. a \in Nat /\ 2 * longest \in Nat \ {0}
  BY <1>1
<1>3. q \in Nat /\ (2 * longest) * q <= a /\ a < (2 * longest) * q + 2 * longest
  BY <1>2, Quotient
<1>4. q <= r
  <2>1. 2 * longest * q <= 2 * longest * r + longest  BY <1>1, <1>3
  <2>2. QED  BY <2>1, <1>3, HalfStep
<1>5. q # 0 <=> 2 * side * r >= longest
  <2>1. CASE q = 0
    <3>1. a < 2 * longest  BY <2>1, <1>3
    <3>2. QED  BY <2>1, <3>1, <1>1
  <2>2. CASE q # 0
    <3>1. 1 * (2 * longest) <= q * (2 * longest)  BY <2>2, <1>2, <1>3, ProductMonotone
    <3>2. 2 * longest <= a  BY <3>1, <1>1, <1>2, <1>3
    <3>3. QED  BY <2>2, <3>2, <1>1
  <2>3. QED  BY <2>1, <2>2
<1>6. QED  BY <1>3, <1>4, <1>5 DEF Texels

\* The longest side gets exactly the texels that were asked for.
LEMMA TexelsOfLongest ==
  ASSUME NEW longest \in Nat \ {0}, NEW r \in Nat
  PROVE  Texels(longest, longest, r) = r
<1> DEFINE a == 2 * longest * r + longest
           q == a \div (2 * longest)
<1>1. longest * r \in Nat  BY ProductMonotone
<1>2. a \in Nat /\ 2 * longest \in Nat \ {0}  BY <1>1
<1>3. q \in Nat /\ (2 * longest) * q <= a /\ a < (2 * longest) * q + 2 * longest
  BY <1>2, Quotient
<1>4. 2 * longest * q <= 2 * longest * r + longest /\ 2 * longest * r + longest < 2 * longest * q + 2 * longest
  BY <1>3
<1>5. q <= r /\ r <= q  BY <1>3, <1>4, HalfStep
<1>6. QED  BY <1>3, <1>5 DEF Texels

\* Scaling a texture to another box or resolution loses nothing of the
\* resolution: rounding never touches the largest of the three sizes, so
\* UpdateBoundingBox can take it back from there (previousMax, Scene.cpp:268).
THEOREM LargestIsResolution ==
  ASSUME NEW extent \in Triple, Largest(extent) # 0, NEW r \in Nat
  PROVE  SizeOf(extent, r) \in Triple /\ Largest(SizeOf(extent, r)) = r
<1> DEFINE l == Largest(extent)
           s == SizeOf(extent, r)
<1>1. /\ extent[1] \in Nat /\ extent[2] \in Nat /\ extent[3] \in Nat
      /\ l \in Nat \ {0}
      /\ extent[1] <= l /\ extent[2] <= l /\ extent[3] <= l
      /\ l = extent[1] \/ l = extent[2] \/ l = extent[3]
  BY DEF Triple, Largest, Larger
<1>2. s = <<Texels(extent[1], l, r), Texels(extent[2], l, r), Texels(extent[3], l, r)>>
  BY DEF SizeOf
<1> HIDE DEF l, s
<1>3. /\ Texels(extent[1], l, r) \in Nat /\ Texels(extent[1], l, r) <= r
      /\ Texels(extent[2], l, r) \in Nat /\ Texels(extent[2], l, r) <= r
      /\ Texels(extent[3], l, r) \in Nat /\ Texels(extent[3], l, r) <= r
  BY <1>1, TexelsBounded
<1>4. Texels(l, l, r) = r  BY <1>1, TexelsOfLongest
<1>5. s[1] = r \/ s[2] = r \/ s[3] = r  BY <1>1, <1>2, <1>4
<1>6. s \in Triple /\ Largest(s) = r
  BY <1>2, <1>3, <1>5 DEF Triple, Largest, Larger
<1>7. QED  BY <1>6 DEF s

\* A texture can be created exactly for boxes none of whose sides is shorter
\* than half a texel (Scene.cpp:269; 3D textures have at least one texel).
THEOREM TexelsWhenThick ==
  ASSUME NEW extent \in Triple, Largest(extent) # 0, NEW r \in Nat
  PROVE  HasTexels(SizeOf(extent, r))
           <=> \A i \in 1 .. 3 : 2 * extent[i] * r >= Largest(extent)
<1> DEFINE l == Largest(extent)
           s == SizeOf(extent, r)
<1>1. /\ extent[1] \in Nat /\ extent[2] \in Nat /\ extent[3] \in Nat
      /\ l \in Nat \ {0}
      /\ extent[1] <= l /\ extent[2] <= l /\ extent[3] <= l
  BY DEF Triple, Largest, Larger
<1>2. s = <<Texels(extent[1], l, r), Texels(extent[2], l, r), Texels(extent[3], l, r)>>
  BY DEF SizeOf
<1> HIDE DEF l, s
<1>3. /\ Texels(extent[1], l, r) # 0 <=> 2 * extent[1] * r >= l
      /\ Texels(extent[2], l, r) # 0 <=> 2 * extent[2] * r >= l
      /\ Texels(extent[3], l, r) # 0 <=> 2 * extent[3] * r >= l
  BY <1>1, TexelsBounded
<1>4. 1 .. 3 = {1, 2, 3}  OBVIOUS
<1>5. HasTexels(s) <=> \A i \in 1 .. 3 : 2 * extent[i] * r >= l
  BY <1>2, <1>3, <1>4 DEF HasTexels
<1>6. QED  BY <1>5 DEF s, l

\* The slider of the slice index (VolumetricDiffusion11.cpp:600) stays within
\* the slices 0 .. d-1 at every position, both ends included.
THEOREM SliderInRange ==
  ASSUME NEW v \in 0 .. 100, NEW d \in Nat \ {0}
  PROVE  Percent(v, d - 1) \in 0 .. d - 1
<1> DEFINE a == v * (d - 1) + 50
<1>1. d - 1 \in Nat /\ v \in Nat /\ v <= 100  OBVIOUS
<1>2. v * (d - 1) \in Nat /\ v * (d - 1) <= 100 * (d - 1)  BY <1>1, ProductMonotone
<1>3. a \in Nat /\ a <= 100 * (d - 1) + 50  BY <1>2
<1>4. a \div 100 \in Nat /\ 100 * (a \div 100) <= a  BY <1>3, Quotient
<1>5. QED  BY <1>1, <1>3, <1>4 DEF Percent

\* The radio button (VolumetricDiffusion11.cpp:593) does not: at 100 percent its
\* index is one past the last slice.
THEOREM RadioButtonOvershoots ==
  ASSUME NEW d \in Nat \ {0}
  PROVE  Percent(100, d) = d
<1> DEFINE a == 100 * d + 50
<1>1. a \in Nat  OBVIOUS
<1>2. a \div 100 \in Nat /\ 100 * (a \div 100) <= a /\ a < 100 * (a \div 100) + 100
  BY <1>1, Quotient
<1>3. QED  BY <1>2 DEF Percent

\* The number of samples is chosen before any ray is known, and the loop of
\* PS_RAYCAST (VolumeRenderer.fx) ends with it at the latest.  From four texels
\* on, the way to the last sample is no shorter than the diagonal of the volume,
\* the root of three of its sides, so no ray ends inside.
THEOREM RaysCrossTheVolume ==
  ASSUME NEW size \in Triple, Largest(size) >= 4
  PROVE  (Iterations(size) - 1) * (Iterations(size) - 1) >= 3 * (Largest(size) * Largest(size))
<1> DEFINE n == Largest(size)
<1>1. n \in Nat /\ n >= 4  BY DEF Triple, Largest, Larger
<1>2. Iterations(size) = 2 * n  BY DEF Iterations
<1> HIDE DEF n
<1>3. n * n >= 4 * n  BY <1>1
<1>4. (2 * n - 1) * (2 * n - 1) = 3 * (n * n) + (n * n - 4 * n) + 1  BY <1>1
<1>5. (2 * n - 1) * (2 * n - 1) >= 3 * (n * n)  BY <1>1, <1>3, <1>4
<1>6. QED  BY <1>2, <1>5 DEF n
=============================================================================
