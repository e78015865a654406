--------------------------- MODULE SurfacesProofs ---------------------------
(***************************************************************************)
(* What holds of the two surfaces for all meshes, distances, factors and   *)
(* numbers of failing calls.                                               *)
(***************************************************************************)
EXTENDS Surfaces, MeshProofs

\* Loading yields a record again, whatever fails in it.
LEMMA LoadMeshType ==
  ASSUME NEW s \in SurfaceRecord, NEW m \in Mesh, NEW outcome \in LoadOutcome
  PROVE  /\ LoadMesh(s, m, outcome) \in SurfaceRecord
         /\ LoadMesh(s, m, outcome).mesh = m
         /\ LoadMesh(s, m, outcome).centre = 0
         /\ LoadMesh(s, m, outcome).pivot = s.pivot
<1> DEFINE r == ReplaceMesh(s, m)
           t == Textures(r, m, outcome)
<1>1. /\ r \in SurfaceRecord
      /\ r.mesh = m /\ r.centre = 0 /\ r.pivot = s.pivot
  BY SurfacesAssumption DEF ReplaceMesh, SurfaceRecord
<1> HIDE DEF r
<1>2. /\ t \in SurfaceRecord
      /\ t.mesh = m /\ t.centre = 0 /\ t.pivot = s.pivot
  BY <1>1 DEF Textures, SurfaceRecord
<1>3. /\ Buffers(t, outcome) \in SurfaceRecord
      /\ Buffers(t, outcome).mesh = m /\ Buffers(t, outcome).centre = 0
      /\ Buffers(t, outcome).pivot = s.pivot
  BY <1>2 DEF Buffers, SurfaceRecord
<1> QED
  BY <1>2, <1>3 DEF LoadMesh, r

\* Loading leaves no view of a released texture, and if nothing fails the
\* view of a textured mesh is its own.
LEMMA LoadMeshView ==
  ASSUME NEW s \in SurfaceRecord, NEW m \in Mesh, NEW outcome \in LoadOutcome,
         s.view \in {Null, s.texture}
  PROVE  LET l == LoadMesh(s, m, outcome) IN
         /\ l.view \in {Null, l.texture}
         /\ l.textured /\ outcome = "done" => l.view = m
<1> DEFINE r == ReplaceMesh(s, m)
           t == Textures(r, m, outcome)
<1>1. /\ r \in SurfaceRecord
      /\ r.view \in {Null, r.texture} /\ r.textured = FALSE
  BY SurfacesAssumption DEF ReplaceMesh, SurfaceRecord
<1> HIDE DEF r
<1>2. /\ t \in SurfaceRecord
      /\ t.view \in {Null, t.texture}
      /\ t.textured /\ outcome = "done" => t.view = m
  BY <1>1 DEF Textures, SurfaceRecord
<1>3. /\ Buffers(t, outcome).view = t.view
      /\ Buffers(t, outcome).texture = t.texture
      /\ Buffers(t, outcome).textured = t.textured
  BY <1>2 DEF Buffers, SurfaceRecord
<1> QED
  BY <1>2, <1>3 DEF LoadMesh, r

\* Loading fills every buffer from the mesh loaded, or leaves none.
LEMMA LoadMeshBuffers ==
  ASSUME NEW s \in SurfaceRecord, NEW m \in Mesh, NEW outcome \in LoadOutcome
  PROVE  LET l == LoadMesh(s, m, outcome) IN
         l.vb \in {Null, m} /\ l.ib \in {Null, m} /\ l.eb \in {Null, m}
<1> DEFINE r == ReplaceMesh(s, m)
           t == Textures(r, m, outcome)
<1>1. r \in SurfaceRecord /\ r.mesh = m /\ r.vb = Null /\ r.ib = Null /\ r.eb = Null
  BY SurfacesAssumption DEF ReplaceMesh, SurfaceRecord
<1> HIDE DEF r
<1>2. t \in SurfaceRecord /\ t.mesh = m /\ t.vb = Null /\ t.ib = Null /\ t.eb = Null
  BY <1>1 DEF Textures, SurfaceRecord
<1>3. /\ Buffers(t, outcome).vb \in {Null, m}
      /\ Buffers(t, outcome).ib \in {Null, m}
      /\ Buffers(t, outcome).eb \in {Null, m}
  BY <1>2 DEF Buffers, SurfaceRecord
<1> QED
  BY <1>2, <1>3 DEF LoadMesh, r

-----------------------------------------------------------------------------
(* A mouse message changes the places of the surfaces only.                *)

\* t is s at another place.
Placed(s, t) == \E centre, pivot \in Coord : t = [s EXCEPT !.centre = centre, !.pivot = pivot]

\* Turning and scaling about any point leave the rest of a surface alone.
LEMMA RotateOrScalePlaces ==
  ASSUME TypeOK, NEW held \in [1 .. 2 -> BOOLEAN], NEW cos \in {-1, 1},
         NEW factor \in Factor \cup {1}, InBounds(RotateOrScale(held, cos, factor)),
         NEW i \in 1 .. 2
  PROVE  Placed(surface[i], RotateOrScale(held, cos, factor)[i])
<1> DEFINE t == RotateOrScale(held, cos, factor)[i]
<1>1. t.centre \in Coord /\ t.pivot \in Coord
  BY DEF InBounds
<1>2. surface[i] \in SurfaceRecord
  BY DEF TypeOK
<1>3. t = [surface[i] EXCEPT !.centre = t.centre, !.pivot = t.pivot]
  BY <1>2 DEF RotateOrScale, Rotate, Scale, SurfaceRecord
<1> QED
  BY <1>1, <1>3 DEF Placed

\* A move shifts each surface by a distance of its own, the wheel included.
LEMMA MoveShifts ==
  ASSUME NEW held \in [1 .. 2 -> BOOLEAN], NEW d \in Drag, NEW wheel \in Drag
  PROVE  \E shift \in [1 .. 2 -> Int] :
           Move(held, d, wheel) = [i \in 1 .. 2 |-> Translate(surface[i], shift[i])]
<1> DEFINE turned == [i \in 1 .. 2 |-> IF held[i] THEN wheel ELSE 0]
           shift == [i \in 1 .. 2 |-> (IF held[i] THEN d ELSE 0)
                                      + (IF i = 1 THEN turned[1] + turned[2] ELSE 0)]
<1>1. d \in Int /\ wheel \in Int
  BY SurfacesAssumption
<1>2. turned \in [1 .. 2 -> Int]
  BY <1>1
<1> HIDE DEF turned
<1>3. shift \in [1 .. 2 -> Int]
  BY <1>1, <1>2
<1>4. Move(held, d, wheel) = [i \in 1 .. 2 |-> Translate(surface[i], shift[i])]
  BY Zenon DEF Move, turned
<1> QED
  BY <1>3, <1>4

\* So does moving.
LEMMA MovePlaces ==
  ASSUME TypeOK, NEW held \in [1 .. 2 -> BOOLEAN], NEW d \in Drag, NEW wheel \in Drag,
         InBounds(Move(held, d, wheel)), NEW i \in 1 .. 2
  PROVE  /\ Move(held, d, wheel) = [k \in 1 .. 2 |-> Move(held, d, wheel)[k]]
         /\ Placed(surface[i], Move(held, d, wheel)[i])
<1> PICK shift \in [1 .. 2 -> Int] :
           Move(held, d, wheel) = [k \in 1 .. 2 |-> Translate(surface[k], shift[k])]
  BY MoveShifts
<1> DEFINE t == Move(held, d, wheel)[i]
<1>1. t.centre \in Coord /\ t.pivot \in Coord
  BY DEF InBounds
<1>2. surface[i] \in SurfaceRecord
  BY DEF TypeOK
<1>3. t = [surface[i] EXCEPT !.centre = t.centre, !.pivot = t.pivot]
  BY <1>2 DEF Translate, SurfaceRecord
<1> QED
  BY <1>1, <1>3 DEF Placed

\* Hence a mouse message keeps mesh, buffers, texture and view.
LEMMA MousePlaces ==
  ASSUME TypeOK, NEW left \in BOOLEAN, NEW right \in BOOLEAN, OnMouseEvent(<<left, right>>)
  PROVE  /\ surface' \in [1 .. 2 -> SurfaceRecord]
         /\ \A i \in 1 .. 2 : Placed(surface[i], surface'[i])
<1> DEFINE held == <<left, right>>
<1>1. held \in [1 .. 2 -> BOOLEAN]
  OBVIOUS
<1> HIDE DEF held
<1>2. /\ surface' = [i \in 1 .. 2 |-> surface'[i]]
      /\ \A i \in 1 .. 2 : Placed(surface[i], surface'[i])
  <2>1. CASE \E cos \in {-1, 1}, factor \in Factor \cup {1} :
               surface' = RotateOrScale(held, cos, factor) /\ InBounds(surface')
    <3> PICK cos \in {-1, 1}, factor \in Factor \cup {1} :
               surface' = RotateOrScale(held, cos, factor) /\ InBounds(surface')
      BY <2>1
    <3> QED
      BY <1>1, RotateOrScalePlaces DEF RotateOrScale
  <2>2. CASE \E d \in Drag, wheel \in Drag :
               surface' = Move(held, d, wheel) /\ InBounds(surface')
    <3> PICK d \in Drag, wheel \in Drag :
               surface' = Move(held, d, wheel) /\ InBounds(surface')
      BY <2>2
    <3> QED
      BY <1>1, MovePlaces
  <2> QED
    BY <2>1, <2>2 DEF OnMouseEvent, held
<1>3. ASSUME NEW s \in SurfaceRecord, NEW t, Placed(s, t)
      PROVE  t \in SurfaceRecord
  BY <1>3 DEF Placed, SurfaceRecord
<1> QED
  BY <1>2, <1>3 DEF TypeOK

-----------------------------------------------------------------------------
(* The invariant                                                           *)

\* The buffers of a surface were made for the mesh it has.
OwnBuffers ==
  \A i \in 1 .. 2 :
    /\ surface[i].vb \in {Null, surface[i].mesh}
    /\ surface[i].ib \in {Null, surface[i].mesh}
    /\ surface[i].eb \in {Null, surface[i].mesh}

\* The types, the views and the buffers are inductive together.
IInv == TypeOK /\ ViewOfTexture /\ OwnBuffers

\* The two meshes the program starts with have colours and no texture.
LEMMA InitIInv == Init => IInv
<1> SUFFICES ASSUME Init PROVE IInv
  OBVIOUS
<1> DEFINE outer == NewSurface(InitMesh[1])
           inner == Translate(NewSurface(InitMesh[2]), InitDrop)
<1>1. /\ InitMesh[1] \in Mesh /\ InitMesh[2] \in Mesh
      /\ 0 \in Coord /\ InitDrop \in Coord /\ 0 + InitDrop = InitDrop
  <2>1. 0 \in Coord /\ InitDrop \in Coord /\ InitDrop \in Int
    BY SurfacesAssumption
  <2> QED
    BY <2>1, SurfacesAssumption
<1> DEFINE Own(s) == s.vb = s.mesh /\ s.ib = s.mesh /\ s.eb = s.mesh
<1>2. outer \in SurfaceRecord /\ outer.view = Null /\ outer.textured = FALSE /\ Own(outer)
  BY <1>1 DEF NewSurface, SurfaceRecord
<1>3. inner \in SurfaceRecord /\ inner.view = Null /\ inner.textured = FALSE /\ Own(inner)
  <2>1. inner = [NewSurface(InitMesh[2]) EXCEPT !.centre = InitDrop, !.pivot = InitDrop]
    BY <1>1 DEF NewSurface, Translate
  <2> HIDE DEF inner
  <2> QED
    BY <1>1, <2>1 DEF NewSurface, SurfaceRecord
<1> HIDE DEF outer, inner
<1>4. surface = <<outer, inner>>
  BY DEF Init, outer, inner
<1>5. surface \in [1 .. 2 -> SurfaceRecord]
  BY <1>2, <1>3, <1>4
<1>6. \A i \in 1 .. 2 :
        surface[i].view = Null /\ surface[i].textured = FALSE /\ Own(surface[i])
  BY <1>2, <1>3, <1>4
<1>7. TypeOK
  <2>1. 0 \in 0 .. MaxFailures
    BY SurfacesAssumption
  <2> QED
    BY <1>5, <2>1 DEF Init, TypeOK
<1> QED
  BY <1>6, <1>7 DEF IInv, ViewOfTexture, OwnBuffers

\* A mouse message places the surfaces and keeps their textures.
LEMMA MouseIInv ==
  ASSUME IInv, NEW left \in BOOLEAN, NEW right \in BOOLEAN, OnMouseEvent(<<left, right>>)
  PROVE  IInv'
<1>1. TypeOK'
  BY MousePlaces DEF IInv, TypeOK, OnMouseEvent
<1>2. \A i \in 1 .. 2 : /\ surface'[i].view = surface[i].view
                        /\ surface'[i].texture = surface[i].texture
                        /\ surface'[i].textured = surface[i].textured
                        /\ surface'[i].mesh = surface[i].mesh
                        /\ surface'[i].vb = surface[i].vb
                        /\ surface'[i].ib = surface[i].ib
                        /\ surface'[i].eb = surface[i].eb
  <2> TAKE i \in 1 .. 2
  <2>1. surface[i] \in SurfaceRecord /\ Placed(surface[i], surface'[i])
    BY MousePlaces DEF IInv, TypeOK
  <2> QED
    BY <2>1 DEF Placed, SurfaceRecord
<1>3. failures' = failures
  BY DEF OnMouseEvent
<1> QED
  BY <1>1, <1>2, <1>3 DEF IInv, ViewOfTexture, OwnBuffers

\* A load replaces one surface by a loaded one.
LEMMA LoadIInv ==
  ASSUME IInv, NEW n \in 1 .. 2, NEW m \in Mesh, NEW outcome \in LoadOutcome,
         LoadSurface(n, m, outcome)
  PROVE  IInv'
<1> DEFINE l == LoadMesh(surface[n], m, outcome)
<1>1. surface[n] \in SurfaceRecord /\ surface[n].view \in {Null, surface[n].texture}
  BY DEF IInv, TypeOK, ViewOfTexture
<1>2. /\ l \in SurfaceRecord /\ l.mesh = m
      /\ l.view \in {Null, l.texture}
      /\ l.textured /\ outcome = "done" => l.view = m
      /\ l.vb \in {Null, m} /\ l.ib \in {Null, m} /\ l.eb \in {Null, m}
  BY <1>1, LoadMeshType, LoadMeshView, LoadMeshBuffers
<1> HIDE DEF l
<1>3. surface' = [surface EXCEPT ![n] = l]
  BY DEF LoadSurface, l
<1>4. /\ failures' \in 0 .. MaxFailures
      /\ failures' = 0 => failures = 0 /\ outcome = "done"
  BY SurfacesAssumption DEF LoadSurface, IInv, TypeOK
<1>5. TypeOK'
  BY <1>2, <1>3, <1>4 DEF LoadSurface, IInv, TypeOK, mode
<1>6. ASSUME NEW i \in 1 .. 2
      PROVE  /\ surface'[i].view \in {Null, surface'[i].texture}
             /\ surface'[i].textured /\ failures' = 0 => surface'[i].view = surface'[i].mesh
  <2>1. CASE i = n
    BY <1>2, <1>3, <1>4, <2>1 DEF IInv, TypeOK
  <2>2. CASE i # n
    BY <1>3, <1>4, <2>2 DEF IInv, TypeOK, ViewOfTexture
  <2> QED
    BY <2>1, <2>2
<1>7. ASSUME NEW i \in 1 .. 2
      PROVE  /\ surface'[i].vb \in {Null, surface'[i].mesh}
             /\ surface'[i].ib \in {Null, surface'[i].mesh}
             /\ surface'[i].eb \in {Null, surface'[i].mesh}
  <2>1. CASE i = n
    BY <1>2, <1>3, <2>1 DEF IInv, TypeOK
  <2>2. CASE i # n
    BY <1>3, <2>2 DEF IInv, TypeOK, OwnBuffers
  <2> QED
    BY <2>1, <2>2
<1> QED
  BY <1>5, <1>6, <1>7 DEF IInv, ViewOfTexture, OwnBuffers

\* Whatever is dragged, turned, scaled and loaded and whatever fails in it, every
\* variable keeps its type, no surface has a view of a released texture, and
\* every buffer is one of its own mesh.
THEOREM Invariance == Spec => []IInv
<1>1. ASSUME IInv, [Next]_vars PROVE IInv'
  <2>1. ASSUME NEW left \in BOOLEAN, NEW right \in BOOLEAN, OnMouseEvent(<<left, right>>)
        PROVE  IInv'
    BY <1>1, <2>1, MouseIInv
  <2>2. ASSUME NEW rotate \in BOOLEAN, RotateOrMove(rotate) PROVE IInv'
    BY <1>1, <2>2 DEF RotateOrMove, IInv, TypeOK, ViewOfTexture, OwnBuffers
  <2>3. CASE Camera
    BY <1>1, <2>3 DEF Camera, IInv, TypeOK, ViewOfTexture, OwnBuffers
  <2>4. CASE Slider
    BY <1>1, <2>4 DEF Slider, IInv, TypeOK, ViewOfTexture, OwnBuffers
  <2>5. ASSUME NEW n \in 1 .. 2, NEW m \in Mesh, NEW outcome \in LoadOutcome,
               LoadSurface(n, m, outcome)
        PROVE  IInv'
    BY <1>1, <2>5, LoadIInv
  <2>6. CASE UNCHANGED vars
    BY <1>1, <2>6 DEF vars, mode, IInv, TypeOK, ViewOfTexture, OwnBuffers
  <2> QED
    BY <1>1, <2>1, <2>2, <2>3, <2>4, <2>5, <2>6 DEF Next
<1> QED
  BY <1>1, InitIInv, PTL DEF Spec

\* Every variable has its type.
THEOREM TypeCorrectness == Spec => []TypeOK
<1>1. IInv => TypeOK
  BY DEF IInv
<1> QED
  BY <1>1, Invariance, PTL

\* The view of a surface is of the texture it has; without a failed load it is
\* of the image chosen for its mesh.
THEOREM NoReleasedView == Spec => []ViewOfTexture
<1>1. IInv => ViewOfTexture
  BY DEF IInv
<1> QED
  BY <1>1, Invariance, PTL

-----------------------------------------------------------------------------
(* The buffers                                                             *)

\* Buffers of the mesh loaded last are drawn within: as many indices are drawn as
\* there are, and MeshProofs shows that they name vertices of that mesh.
LEMMA OwnBuffersSuffice == TypeOK /\ OwnBuffers => DrawsWithinBuffers
<1> SUFFICES ASSUME TypeOK, OwnBuffers, NEW i \in 1 .. 2
             PROVE  LET s == surface[i] IN
                    /\ s.ib # Null => Len(TriangleIndices(s.ib)) = Len(TriangleIndices(s.mesh))
                    /\ s.eb # Null => Len(EdgeIndices(s.eb)) = 2 * Len(TriangleIndices(s.mesh))
                    /\ s.vb # Null => Len(Vertices(s.vb)) = Len(Vertices(s.mesh))
                    /\ s.vb # Null /\ s.ib # Null =>
                         \A k \in DOMAIN TriangleIndices(s.ib) :
                           TriangleIndices(s.ib)[k] < Len(Vertices(s.vb))
                    /\ s.vb # Null /\ s.eb # Null =>
                         \A k \in DOMAIN EdgeIndices(s.eb) :
                           EdgeIndices(s.eb)[k] < Len(Vertices(s.vb))
  BY DEF DrawsWithinBuffers
<1> DEFINE m == surface[i].mesh
<1>1. m \in Mesh
  BY DEF TypeOK, SurfaceRecord
<1>2. /\ surface[i].vb \in {Null, m}
      /\ surface[i].ib \in {Null, m}
      /\ surface[i].eb \in {Null, m}
  BY DEF OwnBuffers
<1> HIDE DEF m
<1>3. \A k \in DOMAIN TriangleIndices(m) : TriangleIndices(m)[k] < Len(Vertices(m))
  <2>1. /\ TriangleIndices(m) \in Seq(Nat)
        /\ \A k \in 1 .. Len(TriangleIndices(m)) : TriangleIndices(m)[k] < Len(Vertices(m))
    BY <1>1, TrianglesNameVertices
  <2> QED
    BY <2>1
<1>4. /\ Len(EdgeIndices(m)) = 2 * Len(TriangleIndices(m))
      /\ \A k \in DOMAIN EdgeIndices(m) : EdgeIndices(m)[k] < Len(Vertices(m))
  BY <1>1, EdgesNameVertices
<1> QED
  BY <1>2, <1>3, <1>4, Zenon DEF m

\* Whatever is loaded, and whichever calls fail in it, no draw call reads beyond
\* the buffers of the surface.
THEOREM DrawsStayWithin == Spec => []DrawsWithinBuffers
<1>1. IInv => DrawsWithinBuffers
  BY OwnBuffersSuffice DEF IInv
<1> QED
  BY <1>1, Invariance, PTL

\* The files whose aiScene has one mesh.
OneMesh == \A m \in Mesh : Len(Parts[m]) <= 1

\* The triangles that run MeshParts shows astray come from files of several
\* aiMeshes only: without those, every triangle is of its own part.
THEOREM OneMeshIsRight ==
  ASSUME OneMesh
  PROVE  Spec => []TrianglesOfTheirPart
<1>1. TypeOK => TrianglesOfTheirPart
  <2> SUFFICES ASSUME TypeOK, NEW i \in 1 .. 2,
                      NEW k \in DOMAIN TriangleIndices(surface[i].mesh)
               PROVE  Vertices(surface[i].mesh)[TriangleIndices(surface[i].mesh)[k] + 1][1]
                        = PartOfIndex(surface[i].mesh)[k]
    BY DEF TrianglesOfTheirPart
  <2>1. surface[i].mesh \in Mesh
    BY DEF TypeOK, SurfaceRecord
  <2> QED
    BY <2>1, OnePartIsRight DEF OneMesh
<1> QED
  BY <1>1, TypeCorrectness, PTL

-----------------------------------------------------------------------------
(* The pivot                                                               *)

\* What TurnsOnTheSpot says of one surface in one step.
OnTheSpot(s, t) ==
  s.pivot = s.centre =>
    \/ t.pivot = t.centre
    \/ /\ t.pivot = s.pivot
       /\ \E f \in Factor \cup {0} : t.centre = f * s.centre

\* A rotation about the pivot leaves a centre that lies there.
LEMMA RotateOnTheSpot ==
  ASSUME NEW s \in SurfaceRecord, NEW cos \in {-1, 1}, NEW factor \in Factor \cup {1}
  PROVE  OnTheSpot(s, Scale(Rotate(s, cos), factor))
<1> SUFFICES ASSUME s.pivot = s.centre PROVE OnTheSpot(s, Scale(Rotate(s, cos), factor))
  BY DEF OnTheSpot
<1>1. s.centre \in Int /\ s.pivot \in Int
  <2>1. s.centre \in Coord /\ s.pivot \in Coord
    BY DEF SurfaceRecord
  <2> QED
    BY <2>1, SurfacesAssumption
<1> DEFINE r == Rotate(s, cos)
<1>2. cos * (s.centre - s.pivot) + s.pivot = s.centre
  BY <1>1
<1>3. r \in SurfaceRecord /\ r.centre = s.centre /\ r.pivot = s.pivot
  BY <1>2 DEF Rotate, SurfaceRecord
<1> HIDE DEF r
<1>4. Scale(r, factor).centre = factor * s.centre /\ Scale(r, factor).pivot = s.pivot
  BY <1>3 DEF Scale, SurfaceRecord
<1>5. CASE factor = 1
  BY <1>1, <1>4, <1>5 DEF OnTheSpot, r
<1>6. CASE factor \in Factor
  BY <1>4, <1>6 DEF OnTheSpot, r
<1> QED
  BY <1>5, <1>6

\* Moving takes the pivot along.
LEMMA TranslateOnTheSpot ==
  ASSUME NEW s \in SurfaceRecord, NEW d \in Int
  PROVE  OnTheSpot(s, Translate(s, d))
BY DEF OnTheSpot, Translate, SurfaceRecord

\* Only scaling and loading part the centre of a surface from its pivot.
THEOREM PivotStays == Spec => TurnsOnTheSpot
<1> DEFINE Step == \A i \in 1 .. 2 : OnTheSpot(surface[i], surface'[i])
<1>1. ASSUME TypeOK, [Next]_vars PROVE Step
  <2> USE <1>1
  <2>0. \A i \in 1 .. 2 : surface[i] \in SurfaceRecord
    BY DEF TypeOK
  <2>1. ASSUME NEW left \in BOOLEAN, NEW right \in BOOLEAN, OnMouseEvent(<<left, right>>)
        PROVE  Step
    <3> DEFINE held == <<left, right>>
    <3>0. held \in [1 .. 2 -> BOOLEAN]
      OBVIOUS
    <3> HIDE DEF held
    <3>1. ASSUME NEW cos \in {-1, 1}, NEW factor \in Factor \cup {1},
                 surface' = RotateOrScale(held, cos, factor)
          PROVE  Step
      <4> TAKE i \in 1 .. 2
      <4>1. CASE held[i]
        <5>1. surface'[i] = Scale(Rotate(surface[i], cos), factor)
          BY <3>1, <4>1 DEF RotateOrScale
        <5> QED
          BY <2>0, <5>1, RotateOnTheSpot
      <4>2. CASE ~held[i]
        BY <3>1, <4>2 DEF RotateOrScale, OnTheSpot
      <4> QED
        BY <4>1, <4>2
    <3>2. ASSUME NEW d \in Drag, NEW wheel \in Drag, surface' = Move(held, d, wheel)
          PROVE  Step
      <4> PICK shift \in [1 .. 2 -> Int] :
                 Move(held, d, wheel) = [i \in 1 .. 2 |-> Translate(surface[i], shift[i])]
        BY <3>0, MoveShifts
      <4> TAKE i \in 1 .. 2
      <4>1. surface'[i] = Translate(surface[i], shift[i]) /\ shift[i] \in Int
        BY <3>2
      <4> QED
        BY <2>0, <4>1, TranslateOnTheSpot
    <3> QED
      BY <2>1, <3>1, <3>2 DEF OnMouseEvent, held
  <2>2. ASSUME NEW n \in 1 .. 2, NEW m \in Mesh, NEW outcome \in LoadOutcome,
               LoadSurface(n, m, outcome)
        PROVE  Step
    <3> TAKE i \in 1 .. 2
    <3>1. CASE i = n
      <4> DEFINE l == LoadMesh(surface[i], m, outcome)
      <4>1. surface'[i] = l
        BY <2>2, <3>1 DEF LoadSurface, TypeOK
      <4>2. l.centre = 0 /\ l.pivot = surface[i].pivot
        BY <2>0, LoadMeshType
      <4> HIDE DEF l
      <4>3. surface[i].centre \in Int
        BY <2>0, SurfacesAssumption DEF SurfaceRecord
      <4> QED
        BY <4>1, <4>2, <4>3 DEF OnTheSpot
    <3>2. CASE i # n
      BY <2>2, <3>2 DEF LoadSurface, TypeOK, OnTheSpot
    <3> QED
      BY <3>1, <3>2
  <2>3. CASE UNCHANGED surface
    BY <2>3 DEF OnTheSpot
  <2> QED
    BY <2>1, <2>2, <2>3 DEF Next, RotateOrMove, Camera, Slider, vars
<1>2. Step => [\A i \in 1 .. 2 :
       surface[i].pivot = surface[i].centre =>
         \/ surface'[i].pivot = surface'[i].centre
         \/ /\ surface'[i].pivot = surface[i].pivot
            /\ \E f \in Factor \cup {0} : surface'[i].centre = f * surface[i].centre]_vars
  BY DEF OnTheSpot
<1> QED
  BY <1>1, <1>2, TypeCorrectness, PTL DEF Spec, TurnsOnTheSpot
=============================================================================
