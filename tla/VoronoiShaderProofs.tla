------------------------- MODULE VoronoiShaderProofs -------------------------
(***************************************************************************)
(* What the Voronoi shader's cuts do for all depths of corners and slices. *)
(***************************************************************************)
EXTENDS VoronoiShader, TLAPS

\* A function from the corners has these three values.
LEMMA CornersAre == Corners = {1, 2, 3}
BY DEF Corners

\* A corner is a point of its own depth.
LEMMA CornerResult ==
  ASSUME NEW z \in [Corners -> Int], NEW i \in Corners
  PROVE  /\ Corner(i) \in [Corners -> Int] /\ IsPoint(Corner(i))
         /\ Weight(Corner(i)) = 1 /\ Depth(Corner(i), z) = z[i]
BY CornersAre DEF Corner, IsPoint, Weight, Depth

\* The slice cuts an edge between two corners on different sides, at its own depth.
LEMMA BetweenResult ==
  ASSUME NEW z \in [Corners -> Int], NEW s \in Int, NEW i \in Corners, NEW j \in Corners,
         z[i] # z[j], (z[i] <= s /\ s <= z[j]) \/ (z[j] <= s /\ s <= z[i])
  PROVE  /\ Between(z, s, i, j) \in [Corners -> Int] /\ IsPoint(Between(z, s, i, j))
         /\ Depth(Between(z, s, i, j), z) = s * Weight(Between(z, s, i, j))
<1> DEFINE p == Between(z, s, i, j)
           g == Sign(z[j] - z[i])
<1>1. z[i] \in Int /\ z[j] \in Int /\ i # j  OBVIOUS
<1>2. g \in {-1, 1} /\ g * (z[j] - s) >= 0 /\ g * (s - z[i]) >= 0 /\ g * (z[j] - z[i]) > 0
  BY <1>1 DEF Sign
<1>3. p = [k \in Corners |-> CASE k = i -> g * (z[j] - s) [] k = j -> g * (s - z[i]) [] OTHER -> 0]
  BY DEF Between
<1> HIDE DEF g, p
<1>4. /\ p[i] = g * (z[j] - s) /\ p[j] = g * (s - z[i])
      /\ \A k \in Corners : k # i /\ k # j => p[k] = 0
  BY <1>1, <1>3
<1>5. p \in [Corners -> Int]  BY <1>1, <1>2, <1>3
<1>6. /\ Weight(p) = p[i] + p[j]
      /\ Depth(p, z) = p[i] * z[i] + p[j] * z[j]
  BY <1>1, <1>4, <1>5, CornersAre DEF Weight, Depth
<1>7. p[i] + p[j] = g * (z[j] - z[i])  BY <1>1, <1>2, <1>4
<1>8. p[i] * z[i] + p[j] * z[j] = s * (g * (z[j] - z[i]))
  BY <1>1, <1>2, <1>4
<1>9. \A k \in Corners : p[k] >= 0
  <2>1. \A x : x = g * (z[j] - s) => x >= 0  BY <1>2
  <2>2. \A x : x = g * (s - z[i]) => x >= 0  BY <1>2
  <2>3. p[i] >= 0 /\ p[j] >= 0  BY <1>4, <2>1, <2>2
  <2>4. ASSUME NEW k \in Corners PROVE p[k] >= 0
    <3>1. CASE k = i \/ k = j  BY <2>3, <3>1
    <3>2. CASE k # i /\ k # j
      <4>1. p[k] = 0  BY <1>4, <3>2
      <4>2. QED  BY <4>1
    <3>3. QED  BY <3>1, <3>2
  <2>5. QED  BY <2>4
<1>10. QED  BY <1>2, <1>5, <1>6, <1>7, <1>8, <1>9 DEF IsPoint, p

\* A normal turned to the slice takes a point there.
LEMMA LandsResult ==
  ASSUME NEW z \in [Corners -> Int], NEW s \in Int, NEW p \in [Corners -> Int], IsPoint(p),
         NEW normal \in Int,
         \/ Depth(p, z) = s * Weight(p)
         \/ Depth(p, z) < s * Weight(p) /\ Sign(normal) = 1
         \/ Depth(p, z) > s * Weight(p) /\ Sign(normal) = -1
  PROVE  Lands(p, z, s, normal)
<1> DEFINE d == Depth(p, z)
           w == s * Weight(p)
<1>1. d \in Int /\ w \in Int  BY CornersAre DEF Depth, Weight
<1>2. Sign(normal) \in {-1, 1}  BY DEF Sign
<1>3. d = w \/ (d < w /\ Sign(normal) = 1) \/ (d > w /\ Sign(normal) = -1)  OBVIOUS
<1> HIDE DEF d, w
<1>4. d + Sign(normal) * Distance(w, d) = w  BY <1>1, <1>2, <1>3 DEF Distance
<1>5. QED  BY <1>4 DEF Lands, Projected, d, w

\* The shader finds the corner that is alone: strictly on one side of the slice,
\* with both others on the other side or in the slice.
LEMMA LoneResult ==
  ASSUME NEW z \in [Corners -> Int], NEW s \in Int,
         ~\A c \in Corners : z[c] <= s, ~\A c \in Corners : z[c] >= s
  PROVE  LET k == Lone(z, s)
             i == IF k = 1 THEN 2 ELSE 1
             j == IF k = 3 THEN 2 ELSE 3
             below == (z[1] < s) <=> (k # 1) IN
         /\ k \in Corners /\ i \in Corners /\ j \in Corners
         /\ below => z[i] <= s /\ z[j] <= s /\ z[k] > s
         /\ ~below => z[i] >= s /\ z[j] >= s /\ z[k] < s
BY CornersAre DEF Lone

\* Every corner of every piece is a point on the side of the slice that
\* bSliceDepthGreater says, or in the slice.
OnItsSide(p, z, s, greater) ==
  /\ p \in [Corners -> Int] /\ IsPoint(p)
  /\ IF greater THEN Depth(p, z) <= s * Weight(p) ELSE Depth(p, z) >= s * Weight(p)

\* A corner in a slice or beside it is on its side of the slice,
LEMMA CornerOnItsSide ==
  ASSUME NEW z \in [Corners -> Int], NEW s \in Int, NEW i \in Corners, NEW greater,
         IF greater THEN z[i] <= s ELSE z[i] >= s
  PROVE  OnItsSide(Corner(i), z, s, greater)
<1> DEFINE p == Corner(i)
<1>1. p \in [Corners -> Int] /\ IsPoint(p) /\ Weight(p) = 1 /\ Depth(p, z) = z[i]
  BY CornerResult
<1> HIDE DEF p
<1>2. s * Weight(p) = s  BY <1>1
<1>3. IF greater THEN Depth(p, z) <= s * Weight(p) ELSE Depth(p, z) >= s * Weight(p)
  BY <1>1, <1>2
<1>4. QED  BY <1>1, <1>3, Zenon DEF OnItsSide, p

\* in particular below it
LEMMA CornerBelow ==
  ASSUME NEW z \in [Corners -> Int], NEW s \in Int, NEW i \in Corners, z[i] <= s
  PROVE  OnItsSide(Corner(i), z, s, TRUE)
BY CornerOnItsSide, Zenon

\* and above it,
LEMMA CornerAbove ==
  ASSUME NEW z \in [Corners -> Int], NEW s \in Int, NEW i \in Corners, z[i] >= s
  PROVE  OnItsSide(Corner(i), z, s, FALSE)
BY CornerOnItsSide, Zenon

\* and a point of the cut is on both sides.
LEMMA BetweenOnItsSide ==
  ASSUME NEW z \in [Corners -> Int], NEW s \in Int, NEW i \in Corners, NEW j \in Corners,
         z[i] # z[j], (z[i] <= s /\ s <= z[j]) \/ (z[j] <= s /\ s <= z[i]),
         NEW greater
  PROVE  OnItsSide(Between(z, s, i, j), z, s, greater)
<1> DEFINE p == Between(z, s, i, j)
<1>1. p \in [Corners -> Int] /\ IsPoint(p) /\ Depth(p, z) = s * Weight(p)
  BY BetweenResult
<1> HIDE DEF p
<1>2. s * Weight(p) \in Int  BY <1>1, CornersAre DEF Weight
<1>3. IF greater THEN Depth(p, z) <= s * Weight(p) ELSE Depth(p, z) >= s * Weight(p)
  BY <1>1, <1>2
<1>4. QED  BY <1>1, <1>3, Zenon DEF OnItsSide, p

\* So VoronoiTriangleGS gives every piece the flag of the side its corners are on,
LEMMA CutTriangleResult ==
  ASSUME NEW z \in [Corners -> Int], NEW s \in Int, NEW piece \in CutTriangle(z, s),
         NEW n \in 1 .. 3
  PROVE  OnItsSide(piece.points[n], z, s, piece.greater)
<1>0. n \in Corners /\ n \in {1, 2, 3}
  BY Zenon, CornersAre DEF Corners
<1>1. CASE \A c \in Corners : z[c] <= s
  <2>1. piece.greater = TRUE /\ piece.points[n] = Corner(n)
    BY <1>1 DEF CutTriangle, Whole, Piece
  <2>2. OnItsSide(Corner(n), z, s, TRUE)  BY <1>0, <1>1, CornerBelow
  <2>3. QED  BY <1>0, <2>1, <2>2, Zenon
<1>2. CASE ~(\A c \in Corners : z[c] <= s) /\ \A c \in Corners : z[c] >= s
  <2>1. piece.greater = FALSE /\ piece.points[n] = Corner(n)
    BY <1>2 DEF CutTriangle, Whole, Piece
  <2>2. OnItsSide(Corner(n), z, s, FALSE)  BY <1>0, <1>2, CornerAbove
  <2>3. QED  BY <1>0, <2>1, <2>2, Zenon
<1>3. CASE ~(\A c \in Corners : z[c] <= s) /\ ~(\A c \in Corners : z[c] >= s)
  <2> DEFINE k == Lone(z, s)
             i == IF k = 1 THEN 2 ELSE 1
             j == IF k = 3 THEN 2 ELSE 3
             below == (z[1] < s) <=> (k # 1)
             a == Between(z, s, i, k)
             b == Between(z, s, j, k)
  <2>1. /\ k \in Corners /\ i \in Corners /\ j \in Corners
        /\ below => z[i] <= s /\ z[j] <= s /\ z[k] > s
        /\ ~below => z[i] >= s /\ z[j] >= s /\ z[k] < s
    BY <1>3, LoneResult, Zenon
  <2>2. piece \in CutAt(i, j, k, a, b, below)
    BY <1>3, Zenon DEF CutTriangle
  <2> HIDE DEF k, i, j
  <2>3. \A g : OnItsSide(a, z, s, g) /\ OnItsSide(b, z, s, g)
    BY <2>1, BetweenOnItsSide
  <2> HIDE DEF a, b
  <2> DEFINE K == Corner(k)
             I == Corner(i)
             J == Corner(j)
  <2>4. CASE below
    <3>1. below = TRUE  BY <2>4
    <3>2. OnItsSide(K, z, s, FALSE) /\ OnItsSide(I, z, s, TRUE) /\ OnItsSide(J, z, s, TRUE)
      <4>1. z[i] <= s /\ z[j] <= s /\ z[k] >= s  BY <2>1, <2>4
      <4>2. QED  BY <2>1, <4>1, CornerBelow, CornerAbove, Zenon
    <3> HIDE DEF below
    <3>3. piece \in {Piece(<<K, a, b>>, FALSE), Piece(<<I, J, a>>, TRUE), Piece(<<J, a, b>>, TRUE)}
      <4>1. piece \in CutAt(i, j, k, a, b, TRUE)  BY <2>2, <3>1, Zenon
      <4>2. QED  BY <4>1 DEF CutAt
    <3> HIDE DEF K, I, J
    <3>4. \/ piece.greater = FALSE /\ piece.points[n] \in {K, a, b}
          \/ piece.greater = TRUE /\ piece.points[n] \in {I, J, a, b}
      BY <1>0, <3>3 DEF Piece
    <3>5. QED  BY <2>3, <3>2, <3>4, Zenon
  <2>5. CASE ~below
    <3>1. below = FALSE  BY <2>5
    <3>2. OnItsSide(K, z, s, TRUE) /\ OnItsSide(I, z, s, FALSE) /\ OnItsSide(J, z, s, FALSE)
      <4>1. z[i] >= s /\ z[j] >= s /\ z[k] <= s  BY <2>1, <2>5
      <4>2. QED  BY <2>1, <4>1, CornerBelow, CornerAbove, Zenon
    <3> HIDE DEF below
    <3>3. piece \in {Piece(<<K, a, b>>, TRUE), Piece(<<I, J, b>>, FALSE), Piece(<<I, a, b>>, FALSE)}
      <4>1. piece \in CutAt(i, j, k, a, b, FALSE)  BY <2>2, <3>1, Zenon
      <4>2. QED  BY <4>1 DEF CutAt
    <3> HIDE DEF K, I, J
    <3>4. \/ piece.greater = TRUE /\ piece.points[n] \in {K, a, b}
          \/ piece.greater = FALSE /\ piece.points[n] \in {I, J, a, b}
      BY <1>0, <3>3 DEF Piece
    <3>5. QED  BY <2>3, <3>2, <3>4, Zenon
  <2>6. QED  BY <2>4, <2>5
<1>4. QED  BY <1>1, <1>2, <1>3

\* and so does CalculateEdgeProjection.
LEMMA CutEdgeResult ==
  ASSUME NEW z \in [Corners -> Int], NEW s \in Int, NEW upright \in BOOLEAN,
         NEW piece \in CutEdge(z, s, upright), NEW n \in 1 .. 2
  PROVE  OnItsSide(piece.points[n], z, s, piece.greater)
<1>0. /\ n \in Corners /\ n \in {1, 2} /\ 1 \in Corners /\ 2 \in Corners
     
  <2>1. n \in {1, 2}  OBVIOUS
  <2>2. QED  BY <2>1, CornersAre, Zenon
<1>1. CASE z[1] <= s /\ z[2] <= s
  <2>1. piece.greater = TRUE /\ piece.points[n] = Corner(n)
    BY <1>1 DEF CutEdge, Whole, Piece
  <2>2. OnItsSide(Corner(n), z, s, TRUE)  BY <1>0, <1>1, CornerBelow
  <2>3. QED  BY <1>0, <2>1, <2>2, Zenon
<1>2. CASE ~(z[1] <= s /\ z[2] <= s) /\ z[1] >= s /\ z[2] >= s
  <2>1. piece.greater = FALSE /\ piece.points[n] = Corner(n)
    BY <1>2 DEF CutEdge, Whole, Piece
  <2>2. OnItsSide(Corner(n), z, s, FALSE)  BY <1>0, <1>2, CornerAbove
  <2>3. QED  BY <1>0, <2>1, <2>2, Zenon
<1>3. CASE ~(z[1] <= s /\ z[2] <= s) /\ ~(z[1] >= s /\ z[2] >= s)
  <2> DEFINE middle == Between(z, s, 1, 2)
             one == Corner(1)
             two == Corner(2)
  <2>1. piece \in {Piece(<<one, middle>>, z[1] < s), Piece(<<two, middle>>, z[1] >= s)}
    BY <1>3 DEF CutEdge
  <2>2. \/ z[1] < s /\ z[2] > s
        \/ z[1] > s /\ z[2] < s
    BY <1>0, <1>3
  <2>3. \A g : OnItsSide(middle, z, s, g)  BY <1>0, <2>2, BetweenOnItsSide
  <2>4. ASSUME z[1] < s PROVE OnItsSide(one, z, s, TRUE) /\ OnItsSide(two, z, s, FALSE)
    <3>1. z[1] <= s /\ z[2] >= s  BY <1>0, <2>2, <2>4
    <3>2. QED  BY <1>0, <3>1, CornerBelow, CornerAbove, Zenon
  <2>5. ASSUME z[1] > s PROVE OnItsSide(one, z, s, FALSE) /\ OnItsSide(two, z, s, TRUE)
    <3>1. z[1] >= s /\ z[2] <= s  BY <1>0, <2>2, <2>5
    <3>2. QED  BY <1>0, <3>1, CornerBelow, CornerAbove, Zenon
  <2> HIDE DEF middle, one, two
  <2>6. z[1] \in Int  BY <1>0
  <2>7. CASE z[1] < s
    <3>1. (z[1] < s) = TRUE /\ (z[1] >= s) = FALSE  BY <2>6, <2>7
    <3>2. piece \in {Piece(<<one, middle>>, TRUE), Piece(<<two, middle>>, FALSE)}
      BY <2>1, <3>1, Zenon
    <3>3. \/ piece.greater = TRUE /\ piece.points[n] \in {one, middle}
          \/ piece.greater = FALSE /\ piece.points[n] \in {two, middle}
      BY <1>0, <3>2 DEF Piece
    <3>4. QED  BY <2>3, <2>4, <2>7, <3>3, Zenon
  <2>8. CASE z[1] > s
    <3>1. (z[1] < s) = FALSE /\ (z[1] >= s) = TRUE  BY <2>6, <2>8
    <3>2. piece \in {Piece(<<one, middle>>, FALSE), Piece(<<two, middle>>, TRUE)}
      BY <2>1, <3>1, Zenon
    <3>3. \/ piece.greater = FALSE /\ piece.points[n] \in {one, middle}
          \/ piece.greater = TRUE /\ piece.points[n] \in {two, middle}
      BY <1>0, <3>2 DEF Piece
    <3>4. QED  BY <2>3, <2>5, <2>8, <3>3, Zenon
  <2>9. QED  BY <2>2, <2>7, <2>8
<1>4. QED  BY <1>1, <1>2, <1>3

\* So a normal that points up from below the slice, and down from above, lands.
LEMMA OnItsSideLands ==
  ASSUME NEW z \in [Corners -> Int], NEW s \in Int, NEW p, NEW g,
         OnItsSide(p, z, s, g), NEW up \in Int, g => Sign(up) = 1, ~g => Sign(up) = -1
  PROVE  Lands(p, z, s, up)
<1>1. p \in [Corners -> Int] /\ IsPoint(p)  BY DEF OnItsSide
<1>2. Depth(p, z) \in Int /\ s * Weight(p) \in Int  BY <1>1, CornersAre DEF Depth, Weight
<1> DEFINE d == Depth(p, z)
           w == s * Weight(p)
<1>3. g => d <= w  BY DEF OnItsSide
<1>4. ~g => d >= w  BY DEF OnItsSide
<1>5. d \in Int /\ w \in Int  BY <1>2
<1> HIDE DEF d, w
<1>6. d = w \/ (d < w /\ Sign(up) = 1) \/ (d > w /\ Sign(up) = -1)
  BY <1>3, <1>4, <1>5
<1>7. QED  BY <1>1, <1>6, LandsResult DEF d, w

\* An edge that goes through the slice has two pieces, each from one end to the
\* cut; another one is one piece, unless it is upright.
LEMMA EdgePieces ==
  ASSUME NEW z \in [Corners -> Int], NEW s \in Int, NEW upright \in BOOLEAN,
         NEW piece \in CutEdge(z, s, upright)
  PROVE  \/ /\ ~upright /\ ~Through(z, s)
            /\ piece.points[1] = Corner(1) /\ piece.points[2] = Corner(2)
         \/ /\ Through(z, s)
            /\ \E i \in {1, 2} : piece.points[1] = Corner(i)
            /\ piece.points[2] = Between(z, s, 1, 2)
<1>1. z[1] \in Int /\ z[2] \in Int  BY CornersAre
<1>2. CASE Through(z, s)
  <2>1. ~(z[1] <= s /\ z[2] <= s) /\ ~(z[1] >= s /\ z[2] >= s)  BY <1>1, <1>2 DEF Through
  <2> DEFINE middle == Between(z, s, 1, 2)
             one == Corner(1)
             two == Corner(2)
  <2>2. piece \in {Piece(<<one, middle>>, z[1] < s), Piece(<<two, middle>>, z[1] >= s)}
    BY <2>1 DEF CutEdge
  <2> HIDE DEF middle, one, two
  <2>3. piece.points[1] \in {one, two} /\ piece.points[2] = middle  BY <2>2 DEF Piece
  <2>4. QED  BY <1>2, <2>3, Zenon DEF middle, one, two
<1>3. CASE ~Through(z, s)
  <2>1. (z[1] <= s /\ z[2] <= s) \/ (z[1] >= s /\ z[2] >= s)  BY <1>1, <1>3 DEF Through
  <2>2. ~upright /\ (piece \in Whole(2, TRUE) \/ piece \in Whole(2, FALSE))
    BY <2>1, Zenon DEF CutEdge
  <2>3. piece.points[1] = Corner(1) /\ piece.points[2] = Corner(2)
    BY <2>2 DEF Whole, Piece
  <2>4. QED  BY <1>3, <2>2, <2>3, Zenon
<1>4. QED  BY <1>2, <1>3

-----------------------------------------------------------------------------
(* The pieces of a triangle                                                *)

\* The determinant in the order i, j, k of the corners: Det, up to its sign.
DetAt(i, j, k, p, q, r) ==
  p[i] * (q[j] * r[k] - q[k] * r[j]) - p[j] * (q[i] * r[k] - q[k] * r[i])
    + p[k] * (q[i] * r[j] - q[j] * r[i])

Orders == {<<1, 2, 3>>, <<1, 3, 2>>, <<2, 3, 1>>}

\* The sign depends on the order only.
LEMMA DetInOrder ==
  ASSUME NEW i, NEW j, NEW k, <<i, j, k>> \in Orders
  PROVE  \E g \in {-1, 1} : \A p, q, r \in [Corners -> Int] :
           Det(p, q, r) = g * DetAt(i, j, k, p, q, r)
<1>1. CASE i = 1 /\ j = 2 /\ k = 3
  <2>1. \A p, q, r \in [Corners -> Int] : Det(p, q, r) = 1 * DetAt(1, 2, 3, p, q, r)
    BY CornersAre DEF Det, DetAt
  <2>2. QED  BY <1>1, <2>1
<1>2. CASE i = 1 /\ j = 3 /\ k = 2
  <2>1. \A p, q, r \in [Corners -> Int] : Det(p, q, r) = (-1) * DetAt(1, 3, 2, p, q, r)
    BY CornersAre DEF Det, DetAt
  <2>2. -1 \in {-1, 1}  OBVIOUS
  <2>3. QED  BY <1>2, <2>1, <2>2, Zenon
<1>3. CASE i = 2 /\ j = 3 /\ k = 1
  <2>1. \A p, q, r \in [Corners -> Int] : Det(p, q, r) = 1 * DetAt(2, 3, 1, p, q, r)
    BY CornersAre DEF Det, DetAt
  <2>2. QED  BY <1>3, <2>1
<1>4. QED  BY <1>1, <1>2, <1>3 DEF Orders

\* A point is inside if it is on the same side of the three sides, whichever
\* side that is.
LEMMA SameSideInside ==
  ASSUME NEW x, NEW p, NEW q, NEW r, NEW g \in {-1, 1},
         NEW d \in Int, NEW d1 \in Int, NEW d2 \in Int, NEW d3 \in Int,
         d > 0, d1 >= 0, d2 >= 0, d3 >= 0,
         Det(p, q, r) = g * d, Det(x, q, r) = g * d1, Det(p, x, r) = g * d2,
         Det(p, q, x) = g * d3
  PROVE  Inside(x, p, q, r)
<1>1. g * d # 0  OBVIOUS
<1>2. \A e \in Int : e >= 0 => g * e = 0 \/ Sign(g * e) = Sign(g * d)  BY DEF Sign
<1>3. QED  BY <1>1, <1>2, Zenon DEF Inside

\* Products of weights and distances are not negative.
LEMMA Products ==
  ASSUME NEW a \in Int, NEW b \in Int, a >= 0, b >= 0
  PROVE  a * b \in Int /\ a * b >= 0 /\ (a > 0 /\ b > 0 => a * b > 0)
OBVIOUS

\* p is the point with these weights of the corners i, j and k.
Weighs(p, i, j, k, pi, pj, pk) ==
  p \in [Corners -> Int] /\ p[i] = pi /\ p[j] = pj /\ p[k] = pk

\* A corner weighs nothing but itself.
LEMMA CornersWeigh ==
  ASSUME NEW i, NEW j, NEW k, <<i, j, k>> \in Orders
  PROVE  /\ Weighs(Corner(i), i, j, k, 1, 0, 0)
         /\ Weighs(Corner(j), i, j, k, 0, 1, 0)
         /\ Weighs(Corner(k), i, j, k, 0, 0, 1)
BY CornersAre DEF Orders, Weighs, Corner

\* How far a point is on the side of the lone corner k, if h, u and v are the
\* distances of k, i and j from the slice.
Side(x, i, j, k, h, u, v) == h * x[k] - u * x[i] - v * x[j]

\* The cuts a of the edge i, k and b of the edge j, k weigh the lone corner k by
\* the distance of the other end from the slice, and that by the distance of k.
\* On which side of the slice a point is depends on these three distances.
CutBy(z, s, i, j, k, below, h, u, v) ==
  /\ h > 0 /\ u >= 0 /\ v >= 0
  /\ Weighs(Between(z, s, i, k), i, j, k, h, 0, u)
  /\ Weighs(Between(z, s, j, k), i, j, k, 0, h, v)
  /\ \A x \in [Corners -> Int] :
       Depth(x, z) - s * Weight(x)
         = IF below THEN Side(x, i, j, k, h, u, v) ELSE -Side(x, i, j, k, h, u, v)

\* There are such distances, whichever corner is alone.
LEMMA CutsWeigh ==
  ASSUME NEW i, NEW j, NEW k, <<i, j, k>> \in Orders,
         NEW z \in [Corners -> Int], NEW s \in Int, NEW below \in BOOLEAN,
         below => z[i] <= s /\ z[j] <= s /\ z[k] > s,
         ~below => z[i] >= s /\ z[j] >= s /\ z[k] < s
  PROVE  \E h, u, v \in Int : CutBy(z, s, i, j, k, below, h, u, v)
<1> DEFINE g == IF below THEN 1 ELSE -1
           h == g * (z[k] - s)
           u == g * (s - z[i])
           v == g * (s - z[j])
<1>1. /\ i \in Corners /\ j \in Corners /\ k \in Corners
      /\ i # j /\ i # k /\ j # k /\ Corners = {i, j, k}
  BY CornersAre DEF Orders
<1>2. h \in Int /\ u \in Int /\ v \in Int /\ h > 0 /\ u >= 0 /\ v >= 0
  BY <1>1
<1>3. Sign(z[k] - z[i]) = g /\ Sign(z[k] - z[j]) = g
  BY <1>1 DEF Sign
<1>4. Weighs(Between(z, s, i, k), i, j, k, h, 0, u)
  <2>1. Between(z, s, i, k) = [c \in Corners |-> CASE c = i -> h [] c = k -> u [] OTHER -> 0]
    BY <1>3 DEF Between
  <2> HIDE DEF h, u
  <2>2. QED  BY <1>1, <1>2, <2>1 DEF Weighs
<1>5. Weighs(Between(z, s, j, k), i, j, k, 0, h, v)
  <2>1. Between(z, s, j, k) = [c \in Corners |-> CASE c = j -> h [] c = k -> v [] OTHER -> 0]
    BY <1>3 DEF Between
  <2> HIDE DEF h, v
  <2>2. QED  BY <1>1, <1>2, <2>1 DEF Weighs
<1>6. ASSUME NEW x \in [Corners -> Int]
      PROVE  Depth(x, z) - s * Weight(x)
               = IF below THEN Side(x, i, j, k, h, u, v) ELSE -Side(x, i, j, k, h, u, v)
  <2>1. /\ Depth(x, z) = x[i] * z[i] + x[j] * z[j] + x[k] * z[k]
        /\ Weight(x) = x[i] + x[j] + x[k]
    BY CornersAre DEF Depth, Weight, Orders
  <2>2. x[i] \in Int /\ x[j] \in Int /\ x[k] \in Int /\ z[i] \in Int /\ z[j] \in Int /\ z[k] \in Int
    BY <1>1
  <2>3. CASE below
    <3>1. h = z[k] - s /\ u = s - z[i] /\ v = s - z[j]  BY <2>2, <2>3
    <3> HIDE DEF h, u, v, g
    <3>2. Depth(x, z) - s * Weight(x) = h * x[k] - u * x[i] - v * x[j]  BY <2>1, <2>2, <3>1
    <3>3. QED  BY <2>3, <3>2 DEF Side
  <2>4. CASE ~below
    <3>1. h = s - z[k] /\ u = z[i] - s /\ v = z[j] - s  BY <2>2, <2>4
    <3> HIDE DEF h, u, v, g
    <3>2. Depth(x, z) - s * Weight(x) = u * x[i] + v * x[j] - h * x[k]  BY <2>1, <2>2, <3>1
    <3>3. \A a, b, c \in Int : b + c - a = -(a - b - c)  OBVIOUS
    <3>4. h * x[k] \in Int /\ u * x[i] \in Int /\ v * x[j] \in Int  BY <1>2, <2>2
    <3>5. Depth(x, z) - s * Weight(x) = -(h * x[k] - u * x[i] - v * x[j])
      BY <3>2, <3>3, <3>4, Zenon
    <3>6. QED  BY <2>4, <3>5, Zenon DEF Side
  <2>5. QED  BY <2>3, <2>4
<1> HIDE DEF h, u, v
<1>7. CutBy(z, s, i, j, k, below, h, u, v)  BY <1>2, <1>4, <1>5, <1>6, Zenon DEF CutBy
<1>8. QED  BY <1>2, <1>7

\* The piece of the lone corner holds every point on its side of the slice.
LEMMA LonePieceHolds ==
  ASSUME NEW i, NEW j, NEW k, <<i, j, k>> \in Orders,
         NEW h \in Int, NEW u \in Int, NEW v \in Int, h > 0, u >= 0, v >= 0,
         NEW a, Weighs(a, i, j, k, h, 0, u), NEW b, Weighs(b, i, j, k, 0, h, v),
         NEW x \in [Corners -> Int], \A c \in Corners : x[c] >= 0,
         Side(x, i, j, k, h, u, v) >= 0
  PROVE  Inside(x, Corner(k), a, b)
<1> DEFINE K == Corner(k)
           d == Side(x, i, j, k, h, u, v)
<1>1. Weighs(K, i, j, k, 0, 0, 1)  BY CornersWeigh
<1>2. /\ x[i] \in Int /\ x[j] \in Int /\ x[k] \in Int
      /\ x[i] >= 0 /\ x[j] >= 0 /\ x[k] >= 0
  BY CornersAre DEF Orders
<1> HIDE DEF K
<1>3. d \in Int /\ d >= 0 /\ d = h * x[k] - u * x[i] - v * x[j]  BY <1>2 DEF Side
<1>4. PICK g \in {-1, 1} : \A p, q, r \in [Corners -> Int] :
        Det(p, q, r) = g * DetAt(i, j, k, p, q, r)
  BY DetInOrder
<1>5. DetAt(i, j, k, K, a, b) = h * h
  BY <1>1 DEF DetAt, Weighs
<1>6. DetAt(i, j, k, x, a, b) = h * d
  BY <1>2, <1>3 DEF DetAt, Weighs
<1> HIDE DEF d
<1>7. DetAt(i, j, k, K, x, b) = h * x[i]
  <2>1. DetAt(i, j, k, K, x, b)
          = 0 * (x[j] * v - x[k] * h) - 0 * (x[i] * v - x[k] * 0) + 1 * (x[i] * h - x[j] * 0)
    BY <1>1, Zenon DEF DetAt, Weighs
  <2>2. QED  BY <1>2, <2>1
<1>8. DetAt(i, j, k, K, a, x) = h * x[j]
  <2>1. DetAt(i, j, k, K, a, x)
          = 0 * (0 * x[k] - u * x[j]) - 0 * (h * x[k] - u * x[i]) + 1 * (h * x[j] - 0 * x[i])
    BY <1>1, Zenon DEF DetAt, Weighs
  <2>2. QED  BY <1>2, <2>1
<1>9. /\ Det(K, a, b) = g * (h * h) /\ Det(x, a, b) = g * (h * d)
      /\ Det(K, x, b) = g * (h * x[i]) /\ Det(K, a, x) = g * (h * x[j])
  BY <1>1, <1>4, <1>5, <1>6, <1>7, <1>8 DEF Weighs
<1>10. /\ h * h \in Int /\ h * d \in Int /\ h * x[i] \in Int /\ h * x[j] \in Int
       /\ h * h > 0 /\ h * d >= 0 /\ h * x[i] >= 0 /\ h * x[j] >= 0
  <2>1. h >= 0  OBVIOUS
  <2>2. QED  BY <1>2, <1>3, <2>1, Products
<1>11. QED  BY <1>9, <1>10, SameSideInside DEF K

\* The rest, a quadrangle, holds every other point, and so it does divided along
\* either diagonal: from j to the cut a, or from i to the cut b.
LEMMA RestHolds ==
  ASSUME NEW i, NEW j, NEW k, <<i, j, k>> \in Orders,
         NEW h \in Int, NEW u \in Int, NEW v \in Int, h > 0, u >= 0, v >= 0,
         NEW a, Weighs(a, i, j, k, h, 0, u), NEW b, Weighs(b, i, j, k, 0, h, v),
         NEW x \in [Corners -> Int], \A c \in Corners : x[c] >= 0,
         Side(x, i, j, k, h, u, v) < 0
  PROVE  /\ Inside(x, Corner(i), Corner(j), a) \/ Inside(x, Corner(j), a, b)
         /\ Inside(x, Corner(i), Corner(j), b) \/ Inside(x, Corner(i), a, b)
<1> DEFINE I == Corner(i)
           J == Corner(j)
           d == Side(x, i, j, k, h, u, v)
           da == u * x[i] - h * x[k]
           db == v * x[j] - h * x[k]
<1>1. Weighs(I, i, j, k, 1, 0, 0) /\ Weighs(J, i, j, k, 0, 1, 0)  BY CornersWeigh
<1>2. /\ x[i] \in Int /\ x[j] \in Int /\ x[k] \in Int
      /\ x[i] >= 0 /\ x[j] >= 0 /\ x[k] >= 0
  BY CornersAre DEF Orders
<1> HIDE DEF I, J
<1>3. /\ h * x[k] \in Int /\ u * x[i] \in Int /\ v * x[j] \in Int
      /\ h * x[k] >= 0 /\ u * x[i] >= 0 /\ v * x[j] >= 0
      /\ u * x[j] \in Int /\ u * x[j] >= 0 /\ v * x[i] \in Int /\ v * x[i] >= 0
  <2>1. h >= 0  OBVIOUS
  <2>2. QED  BY <1>2, <2>1, Products
<1>4. /\ d = h * x[k] - u * x[i] - v * x[j]
      /\ d \in Int /\ da \in Int /\ db \in Int /\ -d > 0
  BY <1>3 DEF Side
<1>5. PICK g \in {-1, 1} : \A p, q, r \in [Corners -> Int] :
        Det(p, q, r) = g * DetAt(i, j, k, p, q, r)
  BY DetInOrder
<1> HIDE DEF d, da, db
<1>6. (u > 0 /\ da >= 0) \/ (v > 0 /\ -da >= 0)
  <2>1. da = u * x[i] - h * x[k]  BY DEF da
  <2>2. CASE u = 0
    <3>1. u * x[i] = 0  BY <1>2, <2>2
    <3>2. v # 0
      <4>1. v = 0 => v * x[j] = 0  BY <1>2
      <4>2. QED  BY <1>3, <1>4, <3>1, <4>1
    <3>3. QED  BY <1>3, <2>1, <3>1, <3>2
  <2>3. CASE u > 0
    <3>1. v = 0 => v * x[j] = 0  BY <1>2
    <3>2. QED  BY <1>3, <1>4, <2>1, <2>3, <3>1
  <2>4. QED  BY <2>2, <2>3
<1>7. (v > 0 /\ db >= 0) \/ (u > 0 /\ -db >= 0)
  <2>1. db = v * x[j] - h * x[k]  BY DEF db
  <2>2. CASE v = 0
    <3>1. v * x[j] = 0  BY <1>2, <2>2
    <3>2. u # 0
      <4>1. u = 0 => u * x[i] = 0  BY <1>2
      <4>2. QED  BY <1>3, <1>4, <3>1, <4>1
    <3>3. QED  BY <1>3, <2>1, <3>1, <3>2
  <2>3. CASE v > 0
    <3>1. u = 0 => u * x[i] = 0  BY <1>2
    <3>2. QED  BY <1>3, <1>4, <2>1, <2>3, <3>1
  <2>4. QED  BY <2>2, <2>3
<1>8. h * (-d) \in Int /\ h * (-d) >= 0
  <2>1. h >= 0 /\ -d >= 0 /\ -d \in Int  BY <1>4
  <2>2. QED  BY <2>1, Products
<1>9. ASSUME u > 0, da >= 0 PROVE Inside(x, I, J, a)
  <2>1. /\ DetAt(i, j, k, I, J, a) = u
        /\ DetAt(i, j, k, x, J, a) = da
        /\ DetAt(i, j, k, I, x, a) = u * x[j]
        /\ DetAt(i, j, k, I, J, x) = x[k]
    <3>1. /\ DetAt(i, j, k, I, J, a)
               = 1 * (1 * u - 0 * 0) - 0 * (0 * u - 0 * h) + 0 * (0 * 0 - 1 * h)
          /\ DetAt(i, j, k, x, J, a)
               = x[i] * (1 * u - 0 * 0) - x[j] * (0 * u - 0 * h) + x[k] * (0 * 0 - 1 * h)
          /\ DetAt(i, j, k, I, x, a)
               = 1 * (x[j] * u - x[k] * 0) - 0 * (x[i] * u - x[k] * h) + 0 * (x[i] * 0 - x[j] * h)
          /\ DetAt(i, j, k, I, J, x)
               = 1 * (1 * x[k] - 0 * x[j]) - 0 * (0 * x[k] - 0 * x[i]) + 0 * (0 * x[j] - 1 * x[i])
      BY <1>1, Zenon DEF DetAt, Weighs
    <3>2. DetAt(i, j, k, I, J, a) = u  BY <1>2, <3>1
    <3>3. DetAt(i, j, k, x, J, a) = da
      <4>1. \A e, f, l \in Int :
              e * (1 * u - 0 * 0) - f * (0 * u - 0 * h) + l * (0 * 0 - 1 * h) = u * e - h * l
        OBVIOUS
      <4>2. DetAt(i, j, k, x, J, a) = u * x[i] - h * x[k]  BY <1>2, <3>1, <4>1, Zenon
      <4>3. QED  BY <4>2 DEF da
    <3>4. DetAt(i, j, k, I, x, a) = u * x[j]  BY <1>2, <3>1
    <3>5. DetAt(i, j, k, I, J, x) = x[k]  BY <1>2, <3>1
    <3>6. QED  BY <3>2, <3>3, <3>4, <3>5
  <2>2. /\ Det(I, J, a) = g * u /\ Det(x, J, a) = g * da
        /\ Det(I, x, a) = g * (u * x[j]) /\ Det(I, J, x) = g * x[k]
    BY <1>1, <1>5, <2>1 DEF Weighs
  <2>3. QED  BY <1>2, <1>3, <1>4, <1>9, <2>2, SameSideInside
<1>10. ASSUME v > 0, db >= 0 PROVE Inside(x, I, J, b)
  <2>1. /\ DetAt(i, j, k, I, J, b) = v
        /\ DetAt(i, j, k, x, J, b) = v * x[i]
        /\ DetAt(i, j, k, I, x, b) = db
        /\ DetAt(i, j, k, I, J, x) = x[k]
    <3>1. /\ DetAt(i, j, k, I, J, b)
               = 1 * (1 * v - 0 * h) - 0 * (0 * v - 0 * 0) + 0 * (0 * h - 1 * 0)
          /\ DetAt(i, j, k, x, J, b)
               = x[i] * (1 * v - 0 * h) - x[j] * (0 * v - 0 * 0) + x[k] * (0 * h - 1 * 0)
          /\ DetAt(i, j, k, I, x, b)
               = 1 * (x[j] * v - x[k] * h) - 0 * (x[i] * v - x[k] * 0) + 0 * (x[i] * h - x[j] * 0)
          /\ DetAt(i, j, k, I, J, x)
               = 1 * (1 * x[k] - 0 * x[j]) - 0 * (0 * x[k] - 0 * x[i]) + 0 * (0 * x[j] - 1 * x[i])
      BY <1>1, Zenon DEF DetAt, Weighs
    <3>2. DetAt(i, j, k, I, J, b) = v  BY <1>2, <3>1
    <3>3. DetAt(i, j, k, x, J, b) = v * x[i]  BY <1>2, <3>1
    <3>4. DetAt(i, j, k, I, x, b) = db
      <4>1. DetAt(i, j, k, I, x, b) = v * x[j] - h * x[k]  BY <1>2, <3>1
      <4>2. QED  BY <4>1 DEF db
    <3>5. DetAt(i, j, k, I, J, x) = x[k]  BY <1>2, <3>1
    <3>6. QED  BY <3>2, <3>3, <3>4, <3>5
  <2>2. /\ Det(I, J, b) = g * v /\ Det(x, J, b) = g * (v * x[i])
        /\ Det(I, x, b) = g * db /\ Det(I, J, x) = g * x[k]
    BY <1>1, <1>5, <2>1 DEF Weighs
  <2>3. QED  BY <1>2, <1>3, <1>4, <1>10, <2>2, SameSideInside
<1>11. -g \in {-1, 1}  OBVIOUS
<1>12. ASSUME v > 0, -da >= 0 PROVE Inside(x, J, a, b)
  <2>1. /\ DetAt(i, j, k, J, a, b) = -(h * v)
        /\ DetAt(i, j, k, x, a, b) = -(h * (-d))
        /\ DetAt(i, j, k, J, x, b) = -(v * x[i])
        /\ DetAt(i, j, k, J, a, x) = da
    <3>1. /\ DetAt(i, j, k, J, a, b)
               = 0 * (0 * v - u * h) - 1 * (h * v - u * 0) + 0 * (h * h - 0 * 0)
          /\ DetAt(i, j, k, x, a, b)
               = x[i] * (0 * v - u * h) - x[j] * (h * v - u * 0) + x[k] * (h * h - 0 * 0)
          /\ DetAt(i, j, k, J, x, b)
               = 0 * (x[j] * v - x[k] * h) - 1 * (x[i] * v - x[k] * 0) + 0 * (x[i] * h - x[j] * 0)
          /\ DetAt(i, j, k, J, a, x)
               = 0 * (0 * x[k] - u * x[j]) - 1 * (h * x[k] - u * x[i]) + 0 * (h * x[j] - 0 * x[i])
      BY <1>1, Zenon DEF DetAt, Weighs
    <3>2. DetAt(i, j, k, J, a, b) = -(h * v)  BY <1>2, <3>1
    <3>3. DetAt(i, j, k, x, a, b) = -(h * (-d))  BY <1>2, <1>4, <3>1
    <3>4. DetAt(i, j, k, J, x, b) = -(v * x[i])  BY <1>2, <3>1
    <3>5. DetAt(i, j, k, J, a, x) = da
      <4>1. DetAt(i, j, k, J, a, x) = u * x[i] - h * x[k]  BY <1>2, <3>1
      <4>2. QED  BY <4>1 DEF da
    <3>6. QED  BY <3>2, <3>3, <3>4, <3>5
  <2>2. /\ Det(J, a, b) = (-g) * (h * v) /\ Det(x, a, b) = (-g) * (h * (-d))
        /\ Det(J, x, b) = (-g) * (v * x[i]) /\ Det(J, a, x) = (-g) * (-da)
    <3>1. /\ Det(J, a, b) = g * (-(h * v)) /\ Det(x, a, b) = g * (-(h * (-d)))
          /\ Det(J, x, b) = g * (-(v * x[i])) /\ Det(J, a, x) = g * da
      BY <1>1, <1>5, <2>1 DEF Weighs
    <3>2. \A e \in Int : g * (-e) = (-g) * e /\ g * e = (-g) * (-e)  OBVIOUS
    <3>3. h * v \in Int  OBVIOUS
    <3>4. QED  BY <1>3, <1>4, <1>8, <3>1, <3>2, <3>3, Zenon
  <2>3. h * v \in Int /\ h * v > 0  BY <1>12, Products
  <2>4. -da \in Int  BY <1>4
  <2>5. QED  BY <1>3, <1>8, <1>11, <1>12, <2>2, <2>3, <2>4, SameSideInside
<1>13. ASSUME u > 0, -db >= 0 PROVE Inside(x, I, a, b)
  <2>1. /\ DetAt(i, j, k, I, a, b) = -(h * u)
        /\ DetAt(i, j, k, x, a, b) = -(h * (-d))
        /\ DetAt(i, j, k, I, x, b) = db
        /\ DetAt(i, j, k, I, a, x) = -(u * x[j])
    <3>1. /\ DetAt(i, j, k, I, a, b)
               = 1 * (0 * v - u * h) - 0 * (h * v - u * 0) + 0 * (h * h - 0 * 0)
          /\ DetAt(i, j, k, x, a, b)
               = x[i] * (0 * v - u * h) - x[j] * (h * v - u * 0) + x[k] * (h * h - 0 * 0)
          /\ DetAt(i, j, k, I, x, b)
               = 1 * (x[j] * v - x[k] * h) - 0 * (x[i] * v - x[k] * 0) + 0 * (x[i] * h - x[j] * 0)
          /\ DetAt(i, j, k, I, a, x)
               = 1 * (0 * x[k] - u * x[j]) - 0 * (h * x[k] - u * x[i]) + 0 * (h * x[j] - 0 * x[i])
      BY <1>1, Zenon DEF DetAt, Weighs
    <3>2. DetAt(i, j, k, I, a, b) = -(h * u)  BY <1>2, <3>1
    <3>3. DetAt(i, j, k, x, a, b) = -(h * (-d))  BY <1>2, <1>4, <3>1
    <3>4. DetAt(i, j, k, I, x, b) = db
      <4>1. DetAt(i, j, k, I, x, b) = v * x[j] - h * x[k]  BY <1>2, <3>1
      <4>2. QED  BY <4>1 DEF db
    <3>5. DetAt(i, j, k, I, a, x) = -(u * x[j])  BY <1>2, <3>1
    <3>6. QED  BY <3>2, <3>3, <3>4, <3>5
  <2>2. /\ Det(I, a, b) = (-g) * (h * u) /\ Det(x, a, b) = (-g) * (h * (-d))
        /\ Det(I, x, b) = (-g) * (-db) /\ Det(I, a, x) = (-g) * (u * x[j])
    <3>1. /\ Det(I, a, b) = g * (-(h * u)) /\ Det(x, a, b) = g * (-(h * (-d)))
          /\ Det(I, x, b) = g * db /\ Det(I, a, x) = g * (-(u * x[j]))
      BY <1>1, <1>5, <2>1 DEF Weighs
    <3>2. \A e \in Int : g * (-e) = (-g) * e /\ g * e = (-g) * (-e)  OBVIOUS
    <3>3. h * u \in Int  OBVIOUS
    <3>4. QED  BY <1>3, <1>4, <1>8, <3>1, <3>2, <3>3, Zenon
  <2>3. h * u \in Int /\ h * u > 0  BY <1>13, Products
  <2>4. -db \in Int  BY <1>4
  <2>5. QED  BY <1>3, <1>8, <1>11, <1>13, <2>2, <2>3, <2>4, SameSideInside
<1>14. QED  BY <1>6, <1>7, <1>9, <1>10, <1>12, <1>13 DEF I, J

\* A triangle holds its points.
LEMMA WholeHolds ==
  ASSUME NEW x \in [Corners -> Int], \A c \in Corners : x[c] >= 0
  PROVE  Inside(x, Corner(1), Corner(2), Corner(3))
<1>1. /\ Corner(1) = [c \in Corners |-> IF c = 1 THEN 1 ELSE 0]
      /\ Corner(2) = [c \in Corners |-> IF c = 2 THEN 1 ELSE 0]
      /\ Corner(3) = [c \in Corners |-> IF c = 3 THEN 1 ELSE 0]
  BY DEF Corner
<1>2. /\ Corner(1)[1] = 1 /\ Corner(1)[2] = 0 /\ Corner(1)[3] = 0
      /\ Corner(2)[1] = 0 /\ Corner(2)[2] = 1 /\ Corner(2)[3] = 0
      /\ Corner(3)[1] = 0 /\ Corner(3)[2] = 0 /\ Corner(3)[3] = 1
  BY <1>1, CornersAre
<1>3. /\ x[1] \in Int /\ x[2] \in Int /\ x[3] \in Int
      /\ x[1] >= 0 /\ x[2] >= 0 /\ x[3] >= 0
  BY CornersAre
<1> HIDE DEF Corner
<1>4. Det(Corner(1), Corner(2), Corner(3)) = 1 * 1  BY <1>2 DEF Det
<1>5. Det(x, Corner(2), Corner(3)) = 1 * x[1]  BY <1>2, <1>3 DEF Det
<1>6. Det(Corner(1), x, Corner(3)) = 1 * x[2]  BY <1>2, <1>3 DEF Det
<1>7. Det(Corner(1), Corner(2), x) = 1 * x[3]  BY <1>2, <1>3 DEF Det
<1>8. 1 \in Int /\ 1 > 0 /\ 1 \in {-1, 1}  OBVIOUS
<1>9. QED  BY <1>3, <1>4, <1>5, <1>6, <1>7, <1>8, SameSideInside

-----------------------------------------------------------------------------
(* The theorems                                                            *)

\* Whatever the depths are, the normal of a triangle that is not perpendicular to
\* the slices takes every corner of every piece to the slice, and the line on which
\* a perpendicular one is cut lies in it.
THEOREM TrianglesAlwaysLand ==
  ASSUME NEW z \in [Corners -> Int], NEW s \in Int
  PROVE  TriangleLands(z, s)
<1>1. ASSUME NEW piece \in CutTriangle(z, s), NEW normal \in {-1, 1}, NEW n \in 1 .. 3
      PROVE  Lands(piece.points[n], z, s, TriangleNormal(normal, piece.greater))
  <2> DEFINE p == piece.points[n]
             g == piece.greater
             up == TriangleNormal(normal, g)
  <2>1. OnItsSide(p, z, s, g)  BY CutTriangleResult
  <2> HIDE DEF p, g
  <2>2. up \in Int /\ (g => Sign(up) = 1) /\ (~g => Sign(up) = -1)
    BY <2>1 DEF TriangleNormal, Sign
  <2> HIDE DEF up
  <2>3. QED  BY <2>1, <2>2, OnItsSideLands DEF p, g, up
<1>2. ASSUME Reaches(z, s), NEW p \in CutLine(z, s) PROVE InSlice(p, z, s)
  <2> DEFINE k == Lone(z, s)
             i1 == IF k = 1 THEN 2 ELSE 1
             j1 == IF k = 3 THEN 2 ELSE 3
             below == (z[1] < s) <=> (k # 1)
  <2>1. ~(\A c \in Corners : z[c] <= s) /\ ~(\A c \in Corners : z[c] >= s)
    BY <1>2 DEF Reaches
  <2>2. /\ k \in Corners /\ i1 \in Corners /\ j1 \in Corners
        /\ below => z[i1] <= s /\ z[j1] <= s /\ z[k] > s
        /\ ~below => z[i1] >= s /\ z[j1] >= s /\ z[k] < s
    BY <2>1, LoneResult, Zenon
  <2>3. Corners \ {k} = {i1, j1}  BY <2>2, CornersAre
  <2>4. PICK i \in Corners \ {k} : p = Between(z, s, i, k)  BY <1>2 DEF CutLine
  <2> HIDE DEF k, i1, j1, below
  <2>5. /\ z[i] # z[k]
        /\ (z[i] <= s /\ s <= z[k]) \/ (z[k] <= s /\ s <= z[i])
    BY <2>2, <2>3, <2>4
  <2>6. IsPoint(p) /\ Depth(p, z) = s * Weight(p)
    BY <2>2, <2>4, <2>5, BetweenResult
  <2>7. QED  BY <2>6, Zenon DEF InSlice
<1>3. QED  BY <1>1, <1>2, Zenon DEF TriangleLands

\* Whatever the depths are and however an edge is directed, what is drawn for it is
\* in the slice, and only an upright edge on one side is not drawn.
THEOREM EdgesAlwaysLand ==
  ASSUME NEW z \in [Corners -> Int], NEW s \in Int
  PROVE  EdgeLands(z, s)
<1>1. ASSUME NEW upright \in BOOLEAN, CutEdge(z, s, upright) = {}
      PROVE  upright /\ ~Through(z, s)
  <2>1. z[1] \in Int /\ z[2] \in Int  BY CornersAre
  <2>2. Whole(2, TRUE) # {} /\ Whole(2, FALSE) # {}  BY Zenon DEF Whole
  <2>3. \A a, b : {a, b} # {}  BY Zenon
  <2>4. CASE z[1] <= s /\ z[2] <= s
    <3>1. upright  BY <1>1, <2>2, <2>4, Zenon DEF CutEdge
    <3>2. ~Through(z, s)  BY <2>1, <2>4 DEF Through
    <3>3. QED  BY <3>1, <3>2
  <2>5. CASE ~(z[1] <= s /\ z[2] <= s) /\ z[1] >= s /\ z[2] >= s
    <3>1. upright  BY <1>1, <2>2, <2>5, Zenon DEF CutEdge
    <3>2. ~Through(z, s)  BY <2>1, <2>5 DEF Through
    <3>3. QED  BY <3>1, <3>2
  <2>6. CASE ~(z[1] <= s /\ z[2] <= s) /\ ~(z[1] >= s /\ z[2] >= s)
    BY <1>1, <2>3, <2>6, Zenon DEF CutEdge
  <2>7. QED  BY <2>4, <2>5, <2>6
<1>2. ASSUME NEW upright \in BOOLEAN, NEW piece \in CutEdge(z, s, upright)
      PROVE  LET p == piece.points[1]
                 q == piece.points[2]
                 first == Depth(p, z) * Weight(q)
                 second == Depth(q, z) * Weight(p)
                 shape == EdgeShape(first, second, upright) IN
             /\ shape = "projection" =>
                  \A n \in 1 .. 2 :
                    Lands(piece.points[n], z, s, EdgeNormal(first, second, piece.greater))
             /\ shape = "slice" => InSlice(q, z, s) /\ ~InSlice(p, z, s)
             /\ shape = "band" => z[1] = z[2]
  <2> DEFINE p == piece.points[1]
             q == piece.points[2]
             g == piece.greater
             first == Depth(p, z) * Weight(q)
             second == Depth(q, z) * Weight(p)
             shape == EdgeShape(first, second, upright)
             up == EdgeNormal(first, second, g)
  <2>1. OnItsSide(p, z, s, g) /\ OnItsSide(q, z, s, g)
    <3>1. 1 \in 1 .. 2 /\ 2 \in 1 .. 2  OBVIOUS
    <3>2. QED  BY <3>1, CutEdgeResult
  <2>2. first \in Int /\ second \in Int
    BY <2>1, CornersAre DEF OnItsSide, Depth, Weight
  <2>3. ASSUME shape = "projection", NEW n \in 1 .. 2
        PROVE  Lands(piece.points[n], z, s, up)
    <3>1. OnItsSide(piece.points[n], z, s, g)  BY CutEdgeResult
    <3>2. first # second  BY <2>3 DEF EdgeShape
    <3> HIDE DEF p, q, g, first, second, shape
    <3>3. up \in Int /\ (g => Sign(up) = 1) /\ (~g => Sign(up) = -1)
      BY <2>1, <2>2, <3>1, <3>2 DEF EdgeNormal, Sign, OnItsSide
    <3> HIDE DEF up
    <3>4. QED  BY <3>1, <3>3, OnItsSideLands
  <2>4. (shape = "slice" => InSlice(q, z, s) /\ ~InSlice(p, z, s)) /\ (shape = "band" => z[1] = z[2])
    <3>1. z[1] \in Int /\ z[2] \in Int /\ 1 \in Corners /\ 2 \in Corners  BY CornersAre
    <3>2. CASE ~upright /\ p = Corner(1) /\ q = Corner(2)
      <4>1. shape # "slice"  BY <3>2 DEF EdgeShape
      <4>2. Depth(p, z) = z[1] /\ Weight(p) = 1 /\ Depth(q, z) = z[2] /\ Weight(q) = 1
        BY <3>1, <3>2, CornerResult, Zenon
      <4>3. first = z[1] /\ second = z[2]  BY <3>1, <4>2
      <4> HIDE DEF first, second, p, q
      <4>4. shape = "band" => first = second  BY DEF EdgeShape
      <4>5. QED  BY <4>1, <4>3, <4>4
    <3>3. CASE Through(z, s) /\ (\E i \in {1, 2} : p = Corner(i)) /\ q = Between(z, s, 1, 2)
      <4>1. PICK i \in {1, 2} : p = Corner(i)  BY <3>3
      <4>2. i \in Corners /\ z[i] \in Int /\ z[i] # s  BY <3>1, <3>3 DEF Through
      <4>3. Depth(p, z) = z[i] /\ Weight(p) = 1  BY <4>1, <4>2, CornerResult, Zenon
      <4>4. z[1] # z[2] /\ ((z[1] <= s /\ s <= z[2]) \/ (z[2] <= s /\ s <= z[1]))
        BY <3>1, <3>3 DEF Through
      <4>5. /\ q \in [Corners -> Int] /\ IsPoint(q) /\ Depth(q, z) = s * Weight(q)
        BY <3>1, <3>3, <4>4, BetweenResult
      <4>6. Weight(q) \in Int /\ Weight(q) > 0
        BY <4>5, CornersAre DEF IsPoint, Weight
      <4> HIDE DEF p, q
      <4>7. InSlice(q, z, s) /\ ~InSlice(p, z, s)
        <5>1. s * Weight(p) = s  BY <4>3
        <5>2. QED  BY <4>2, <4>3, <4>5, <5>1 DEF InSlice
      <4>8. first # second
        <5>1. first = z[i] * Weight(q) /\ second = s * Weight(q) * 1  BY <4>3, <4>5, Zenon
        <5>2. \A a, b, w \in Int : w > 0 /\ a # b => a * w # b * w * 1
          <6> SUFFICES ASSUME NEW a \in Int, NEW b \in Int, NEW w \in Int, w > 0, a # b
                       PROVE  a * w # b * w * 1
            OBVIOUS
          <6>1. CASE a < b
            <7>1. (b - a) * w > 0  BY <6>1, Products
            <7>2. (b - a) * w = b * w * 1 - a * w  OBVIOUS
            <7>3. QED  BY <7>1, <7>2
          <6>2. CASE a > b
            <7>1. (a - b) * w > 0  BY <6>2, Products
            <7>2. (a - b) * w = a * w - b * w * 1  OBVIOUS
            <7>3. QED  BY <7>1, <7>2
          <6>3. QED  BY <6>1, <6>2
        <5>3. QED  BY <4>2, <4>6, <5>1, <5>2, Zenon
      <4> HIDE DEF first, second
      <4>9. shape # "band"  BY <4>8 DEF EdgeShape
      <4>10. QED  BY <4>7, <4>9
    <3>4. QED  BY <3>2, <3>3, EdgePieces, Zenon
  <2>5. QED  BY <2>3, <2>4, Zenon
<1>3. QED  BY <1>1, <1>2, Zenon DEF EdgeLands

\* However a triangle lies to the slice, each of its points is in one of the pieces
\* it is cut into, and on the side of the slice that piece is taken to be on.
THEOREM PiecesAlwaysCover ==
  ASSUME NEW z \in [Corners -> Int], NEW s \in Int, NEW x \in [Corners -> Int], IsPoint(x)
  PROVE  InPiece(x, z, s)
<1> DEFINE d == Depth(x, z) - s * Weight(x)
           Holds(p, q, r, greater) ==
             /\ Piece(<<p, q, r>>, greater) \in CutTriangle(z, s)
             /\ Inside(x, p, q, r)
             /\ IF greater THEN d <= 0 ELSE d >= 0
<1>1. ASSUME NEW p, NEW q, NEW r, NEW greater, Holds(p, q, r, greater)
      PROVE  InPiece(x, z, s)
  <2> DEFINE piece == Piece(<<p, q, r>>, greater)
  <2>1. /\ piece.points[1] = p /\ piece.points[2] = q /\ piece.points[3] = r
        /\ piece.greater = greater
    BY DEF Piece
  <2> HIDE DEF piece
  <2>2. piece \in CutTriangle(z, s)  BY <1>1 DEF piece
  <2>3. QED  BY <1>1, <2>1, <2>2, Zenon DEF InPiece
<1>2. \A c \in Corners : x[c] >= 0  BY DEF IsPoint
<1>3. /\ d = x[1] * (z[1] - s) + x[2] * (z[2] - s) + x[3] * (z[3] - s)
      /\ d \in Int
  BY CornersAre DEF Depth, Weight
<1>4. [c \in 1 .. 3 |-> Corner(c)] = <<Corner(1), Corner(2), Corner(3)>>
  OBVIOUS
<1>5. CASE \A c \in Corners : z[c] <= s
  <2>1. \A c \in Corners : x[c] * (z[c] - s) \in Int /\ x[c] * (z[c] - s) <= 0
    <3> TAKE c \in Corners
    <3>1. x[c] \in Int /\ x[c] >= 0 /\ s - z[c] \in Int /\ s - z[c] >= 0  BY <1>2, <1>5
    <3>2. x[c] * (s - z[c]) \in Int /\ x[c] * (s - z[c]) >= 0  BY <3>1, Products
    <3>3. x[c] * (z[c] - s) = -(x[c] * (s - z[c]))  BY <3>1
    <3>4. QED  BY <3>2, <3>3
  <2>2. d <= 0  BY <1>3, <2>1, CornersAre
  <2>3. Piece(<<Corner(1), Corner(2), Corner(3)>>, TRUE) \in CutTriangle(z, s)
    BY <1>4, <1>5, Zenon DEF CutTriangle, Whole
  <2> HIDE DEF d
  <2>4. Inside(x, Corner(1), Corner(2), Corner(3))  BY <1>2, WholeHolds
  <2>5. Holds(Corner(1), Corner(2), Corner(3), TRUE)  BY <2>2, <2>3, <2>4
  <2>6. QED  BY <1>1, <2>5
<1>6. CASE ~(\A c \in Corners : z[c] <= s) /\ \A c \in Corners : z[c] >= s
  <2>1. \A c \in Corners : x[c] * (z[c] - s) \in Int /\ x[c] * (z[c] - s) >= 0
    <3> TAKE c \in Corners
    <3>1. x[c] \in Int /\ x[c] >= 0 /\ z[c] - s \in Int /\ z[c] - s >= 0  BY <1>2, <1>6
    <3>2. QED  BY <3>1, Products
  <2>2. d >= 0  BY <1>3, <2>1, CornersAre
  <2>3. Piece(<<Corner(1), Corner(2), Corner(3)>>, FALSE) \in CutTriangle(z, s)
    BY <1>4, <1>6, Zenon DEF CutTriangle, Whole
  <2> HIDE DEF d
  <2>4. Inside(x, Corner(1), Corner(2), Corner(3))  BY <1>2, WholeHolds
  <2>5. Holds(Corner(1), Corner(2), Corner(3), FALSE)  BY <2>2, <2>3, <2>4
  <2>6. QED  BY <1>1, <2>5
<1>7. CASE ~(\A c \in Corners : z[c] <= s) /\ ~(\A c \in Corners : z[c] >= s)
  <2> DEFINE k == Lone(z, s)
             i == IF k = 1 THEN 2 ELSE 1
             j == IF k = 3 THEN 2 ELSE 3
             below == (z[1] < s) <=> (k # 1)
             a == Between(z, s, i, k)
             b == Between(z, s, j, k)
  <2>1. /\ k \in Corners /\ i \in Corners /\ j \in Corners
        /\ below => z[i] <= s /\ z[j] <= s /\ z[k] > s
        /\ ~below => z[i] >= s /\ z[j] >= s /\ z[k] < s
    BY <1>7, LoneResult, Zenon
  <2>2. <<i, j, k>> \in Orders  BY <2>1, CornersAre DEF Orders
  <2>3. CutTriangle(z, s) = CutAt(i, j, k, a, b, below)
    BY <1>7, Zenon DEF CutTriangle
  <2>4. below \in BOOLEAN  OBVIOUS
  <2> HIDE DEF k, i, j, below
  <2>5. PICK h \in Int, u \in Int, v \in Int : CutBy(z, s, i, j, k, below, h, u, v)
    BY <2>1, <2>2, <2>4, CutsWeigh
  <2> DEFINE e == Side(x, i, j, k, h, u, v)
  <2>6. /\ h > 0 /\ u >= 0 /\ v >= 0
        /\ Weighs(a, i, j, k, h, 0, u) /\ Weighs(b, i, j, k, 0, h, v)
        /\ d = IF below THEN e ELSE -e
    BY <2>5, Zenon DEF CutBy
  <2>7. e \in Int  BY <2>1 DEF Side
  <2> HIDE DEF a, b, d, e
  <2>8. CASE e >= 0
    <3>1. Inside(x, Corner(k), a, b)
      BY <1>2, <2>2, <2>6, <2>8, LonePieceHolds, Zenon DEF e
    <3>2. Piece(<<Corner(k), a, b>>, ~below) \in CutTriangle(z, s)  BY <2>3 DEF CutAt
    <3>3. IF ~below THEN d <= 0 ELSE d >= 0  BY <2>4, <2>6, <2>7, <2>8
    <3>4. Holds(Corner(k), a, b, ~below)  BY <3>1, <3>2, <3>3, Zenon
    <3>5. QED  BY <1>1, <3>4, Zenon
  <2>9. CASE e < 0
    <3>1. /\ Inside(x, Corner(i), Corner(j), a) \/ Inside(x, Corner(j), a, b)
          /\ Inside(x, Corner(i), Corner(j), b) \/ Inside(x, Corner(i), a, b)
      BY <1>2, <2>2, <2>6, <2>9, RestHolds, Zenon DEF e
    <3>2. IF below THEN d <= 0 ELSE d >= 0  BY <2>4, <2>6, <2>7, <2>9
    <3>3. CASE below
      <4>1. /\ Piece(<<Corner(i), Corner(j), a>>, below) \in CutTriangle(z, s)
            /\ Piece(<<Corner(j), a, b>>, below) \in CutTriangle(z, s)
        BY <2>3, <3>3 DEF CutAt
      <4>2. Holds(Corner(i), Corner(j), a, below) \/ Holds(Corner(j), a, b, below)
        BY <3>1, <3>2, <4>1, Zenon
      <4> HIDE DEF Holds
      <4>3. QED  BY <1>1, <4>2, Zenon
    <3>4. CASE ~below
      <4>1. /\ Piece(<<Corner(i), Corner(j), b>>, below) \in CutTriangle(z, s)
            /\ Piece(<<Corner(i), a, b>>, below) \in CutTriangle(z, s)
        BY <2>3, <3>4 DEF CutAt
      <4>2. Holds(Corner(i), Corner(j), b, below) \/ Holds(Corner(i), a, b, below)
        BY <3>1, <3>2, <4>1, Zenon
      <4> HIDE DEF Holds
      <4>3. QED  BY <1>1, <4>2, Zenon
    <3>5. QED  BY <3>3, <3>4
  <2>10. QED  BY <2>7, <2>8, <2>9
<1>8. QED  BY <1>5, <1>6, <1>7
=============================================================================
