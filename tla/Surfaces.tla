------------------------------ MODULE Surfaces ------------------------------
(***************************************************************************)
(* The two surfaces under the mouse and the Load buttons (OnMouseEvent and *)
(* OnGUIEvent in VolumetricDiffusion11.cpp, ItlInitSurfaces in Scene.cpp). *)
(* Module Scene sees them only as a pose.                                  *)
(***************************************************************************)
EXTENDS Surface

CONSTANTS InitMesh,     \* the meshes of ItlInitSurfaces
          InitDrop,     \* how far it moves the second one down
          Coord,        \* bound on the coordinates
          Drag,         \* distances of one mouse message
          Factor,       \* factors of Scale
          MaxFailures   \* bound on loads that fail in a behaviour

ASSUME SurfacesAssumption ==
  /\ InitMesh \in [1 .. 2 -> Mesh]
  /\ Coord \subseteq Int /\ {0, InitDrop} \subseteq Coord
  /\ Drag \subseteq Int /\ Factor \subseteq Int
  /\ MaxFailures \in Nat

VARIABLES
  surface,                 \* m_pSurface1, m_pSurface2
  g_bRotatesWithMouse, g_bCameraActive, g_bBlockMouseDragging,
  failures                 \* loads that failed so far

mode == <<g_bRotatesWithMouse, g_bCameraActive, g_bBlockMouseDragging>>
vars == <<surface, mode, failures>>

\* ItlInitSurfaces; scaling a new surface does not move its centre.
Init ==
  /\ surface = <<NewSurface(InitMesh[1]), Translate(NewSurface(InitMesh[2]), InitDrop)>>
  /\ g_bRotatesWithMouse = TRUE
  /\ g_bCameraActive = FALSE
  /\ g_bBlockMouseDragging = FALSE
  /\ failures = 0

-----------------------------------------------------------------------------
(* The mouse                                                               *)

\* Rotate & Scale: a held surface turns, and the wheel scales it.
RotateOrScale(held, cos, factor) ==
  [i \in 1 .. 2 |-> IF held[i] THEN Scale(Rotate(surface[i], cos), factor) ELSE surface[i]]

\* Move: a held surface is dragged.  The wheel moves the first surface,
\* whichever button is held, once for each of them.
Move(held, d, wheel) ==
  LET turned == [i \in 1 .. 2 |-> IF held[i] THEN wheel ELSE 0]
      shift == [i \in 1 .. 2 |-> (IF held[i] THEN d ELSE 0)
                                 + (IF i = 1 THEN turned[1] + turned[2] ELSE 0)]
  IN [i \in 1 .. 2 |-> Translate(surface[i], shift[i])]

InBounds(s) == \A i \in 1 .. 2 : s[i].centre \in Coord /\ s[i].pivot \in Coord

\* The block on dragging ends as soon as not both buttons are down.
OnMouseEvent(held) ==
  /\ ~g_bCameraActive
  /\ g_bBlockMouseDragging' = (g_bBlockMouseDragging /\ held[1] /\ held[2])
  /\ ~g_bBlockMouseDragging'
  /\ IF g_bRotatesWithMouse
       THEN \E cos \in {-1, 1}, factor \in Factor \cup {1} :
              surface' = RotateOrScale(held, cos, factor)
       ELSE \E d \in Drag, wheel \in Drag : surface' = Move(held, d, wheel)
  /\ InBounds(surface')
  /\ UNCHANGED <<g_bRotatesWithMouse, g_bCameraActive, failures>>

-----------------------------------------------------------------------------
(* Controls                                                                *)

\* IDC_ROTATE and IDC_MOVE
RotateOrMove(rotate) ==
  /\ g_bRotatesWithMouse' = rotate
  /\ g_bCameraActive' = FALSE
  /\ UNCHANGED <<surface, g_bBlockMouseDragging, failures>>

\* IDC_CAMERA
Camera ==
  /\ g_bCameraActive' = TRUE
  /\ UNCHANGED <<surface, g_bRotatesWithMouse, g_bBlockMouseDragging, failures>>

\* Any slider blocks dragging.
Slider ==
  /\ g_bBlockMouseDragging' = TRUE
  /\ UNCHANGED <<surface, g_bRotatesWithMouse, g_bCameraActive, failures>>

\* IDC_LOAD_SURFACE_1 and _2, with a file that Assimp reads.
LoadSurface(i, m, outcome) ==
  /\ outcome = "done" \/ failures < MaxFailures
  /\ failures' = IF outcome = "done" THEN failures ELSE failures + 1
  /\ surface' = [surface EXCEPT ![i] = LoadMesh(@, m, outcome)]
  /\ UNCHANGED mode

Next ==
  \/ \E left, right \in BOOLEAN : OnMouseEvent(<<left, right>>)
  \/ \E rotate \in BOOLEAN : RotateOrMove(rotate)
  \/ Camera
  \/ Slider
  \/ \E i \in 1 .. 2, m \in Mesh, outcome \in LoadOutcome : LoadSurface(i, m, outcome)

Spec == Init /\ [][Next]_vars

-----------------------------------------------------------------------------
SurfaceRecord ==
  [mesh : Mesh, vb : Mesh \cup {Null}, ib : Mesh \cup {Null}, eb : Mesh \cup {Null},
   texture : Mesh \cup {Null}, view : Mesh \cup {Null}, textured : BOOLEAN,
   centre : Coord, pivot : Coord]

\* Every variable has its type.
TypeOK ==
  /\ surface \in [1 .. 2 -> SurfaceRecord]
  /\ g_bRotatesWithMouse \in BOOLEAN
  /\ g_bCameraActive \in BOOLEAN
  /\ g_bBlockMouseDragging \in BOOLEAN
  /\ failures \in 0 .. MaxFailures

\* Surface::Render and RenderVoronoi draw as many elements as the counts of the
\* mesh loaded last say.  Whatever failed before, a buffer that exists has that
\* many, and no triangle or edge names a vertex the vertex buffer does not have.
DrawsWithinBuffers ==
  \A i \in 1 .. 2 :
    LET s == surface[i] IN
    /\ s.ib # Null => Len(TriangleIndices(s.ib)) = Len(TriangleIndices(s.mesh))
    /\ s.eb # Null => Len(EdgeIndices(s.eb)) = 2 * Len(TriangleIndices(s.mesh))
    /\ s.vb # Null => Len(Vertices(s.vb)) = Len(Vertices(s.mesh))
    /\ s.vb # Null /\ s.ib # Null =>
         \A k \in DOMAIN TriangleIndices(s.ib) : TriangleIndices(s.ib)[k] < Len(Vertices(s.vb))
    /\ s.vb # Null /\ s.eb # Null =>
         \A k \in DOMAIN EdgeIndices(s.eb) : EdgeIndices(s.eb)[k] < Len(Vertices(s.vb))

\* A surface that is textured is drawn with the texture the user chose for it,
\* unless the image could not be read: then it may be an older one or none.
\* The view the shaders sample is never one of a texture that was released.
ViewOfTexture ==
  \A i \in 1 .. 2 :
    /\ surface[i].view \in {Null, surface[i].texture}
    /\ surface[i].textured /\ failures = 0 => surface[i].view = surface[i].mesh

\* Turning and moving keep the pivot of a surface at its centre, so that it
\* turns on the spot.  Only scaling, which is about the origin of the world, and
\* loading a mesh, which returns the centre but not the pivot, part the two.
TurnsOnTheSpot ==
  [][\A i \in 1 .. 2 :
       surface[i].pivot = surface[i].centre =>
         \/ surface'[i].pivot = surface'[i].centre
         \/ /\ surface'[i].pivot = surface[i].pivot
            /\ \E f \in Factor \cup {0} : surface'[i].centre = f * surface[i].centre]_vars

\* "Loads a new mesh for this surface" (Surface.h:45): every triangle is made of
\* vertices of the part of the file it belongs to.
TrianglesOfTheirPart ==
  \A i \in 1 .. 2 :
    LET m == surface[i].mesh IN
    \A k \in DOMAIN TriangleIndices(m) :
      Vertices(m)[TriangleIndices(m)[k] + 1][1] = PartOfIndex(m)[k]
=============================================================================
