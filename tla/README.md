# Volumetric diffusion: a TLA+ verification project

The program (`src/*.cpp`, `src/*.h`, `src/*.fx`) shows two triangle meshes, an
outer and an inner surface, and fills the space between them with colour. On
"Diffuse!" it draws a Voronoi diagram of both surfaces into a 3D texture, blurs
it with a user-chosen number of diffusion passes, and shows the result with a
ray-casting volume renderer, optionally as an isosurface or as one slice. A
volume is far too large for one frame: the graphics driver would run into its
timeout (`Scene.cpp:319`). So each frame does one slice or one pass, and *between
any two frames the user can press every button and drag every slider*. That
interleaving of a long generation with the handlers of the user interface, over
flags and textures kept in four objects, is the program's hard part and the core
of this project.

## 1. Inventory

| Component | State it keeps | Operations | Modelled by |
|---|---|---|---|
| **Scene** (`Scene.cpp`) | the bounding box and texture sizes; five work flags (`m_bGenerateVoronoi`, `m_bRender3DTexture`, `m_bGenerateDiffusion`, `m_bIsoValueChanged`, `m_bGenerateOneSliceTexture`), `m_bUpdate3DTextures`; what to show (isosurface, one slice, visibility); the numbers of the isosurface and one-slice textures | `Initialize`, `UpdateBoundingBox`, `UpdateTextureResolution`, `GenerateVoronoi`, `Render3DTexture`, the `Change...`/`Show...` setters, `Render`, `SaveCurrentVolume` | `Scene`, `TextureSize` |
| **Voronoi renderer** (`Voronoi.cpp`) | colour and distance 3D textures, `m_iCurrentSlice` | `Initialize`, `Update`, `RenderVoronoi` (one slice per call) | `Voronoi` |
| **Diffusion renderer** (`Diffusion.cpp`) | two ping-pong textures and `m_iDiffTex`, `m_iCurrentDiffusionStep`, isosurface and one-slice textures, slice vertex buffers | `Initialize`, `Update`, `RenderDiffusion` (one pass per call), `RenderIsoSurface`, `RenderOneDiffusionSlice` | `Diffusion` |
| **User interface and frame callbacks** (`VolumetricDiffusion11.cpp`) | globals mirrored from Scene, which outlive it (`g_iTextureDepth`, `g_bShowVolume`, `g_bShowIsoSurface`, `g_iDiffusionSteps`, ...), visibility of the controls, camera mode, the mouse-block flag | `OnGUIEvent`, `OnMouseEvent`, `OnD3D11FrameRender`, device creation, resize and loss | `Scene` (its event actions), `Surfaces` (mouse), `Device` (device callbacks) |
| **Surface** (`Surface.cpp`) | vertices, buffers, model matrix, pivot `m_vTranslation`, texture and its view | `LoadMesh`, `Scale`, `Rotate`, `Translate`, `Render` | `Surface`, `Surfaces`; in `Scene` a value `pose` |
| **Texture manager** (`TextureManager.cpp`) | textures with their views under integer numbers | `Create3DTexture`, `Update3DTexture`, `BindTextureAsSRV/RTV`, `SaveTexture`, `DeleteInstance` | `TextureManager`, composed in `Device` |
| **Volume renderer** (`VolumeRenderer.cpp`) | screen-size front and back textures, sampling mode | `Initialize`, `Update`, `Render`, `SetScreenSize` | `Device` (its textures), `TextureSize` (the samples of a ray); in `Scene` its argument, `shown` |
| **Shader manager** (`ShaderManager.cpp`) | - | nothing in the program calls it | not modelled |
| **Shaders** (`*.fx`) | - | cutting triangles and edges at a slice and projecting them onto it; nearest-site colour, averaging, isovalue test, ray loop | `VoronoiShader` (cutting, projecting), placed in `Slices`; the rest not modelled |
| Build files, vendored libraries (DXUT, Effects11, Assimp, FreeImage) | - | - | not modelled; DXUT is the environment that orders handlers and frames |

**Interaction.** One thread. DXUT's message loop calls one handler
(`MsgProc`, `OnMouseEvent`, `OnGUIEvent`) per window message, and one frame
(`OnD3D11FrameRender` -> `Scene::Render`) whenever no message waits. Handlers
and frames share `Scene`; `Scene::Render` calls `Voronoi` and `Diffusion`, whose
Boolean results say "my job is done", and passes the number of a texture to
`VolumeRenderer::Render`. `Voronoi` reads the surfaces, `Diffusion` reads the
Voronoi texture, and everybody's textures live in `TextureManager`.

**What is hard.**

- *Interleaving and protocol:* hide, restart, resize, move, load and refine at
  any moment of a generation that spans hundreds of frames and three objects.
- *Stale state:* the isosurface and one-slice textures are cached across frames
  under "changed" flags that every other operation has to remember; the user
  interface has copies of Scene's sizes; three members are never initialised.
- *Partial failure:* `UpdateBoundingBox` updates three renderers in a row, the
  third can fail half-way, and `Render` ignores the result.
- *Liveness:* one job is handed on through flags and return values; a flag not
  reset starts it anew or stops it for good.
- *Lost devices:* the scene starts anew while the globals and controls of the user
  interface go on, and the next scene is made from their copy of the sizes.
- *Doubled settings:* each control toggles a global and passes it to `Scene`, which
  uses it many frames later.
- *Numeric edges:* slice indices from percentages, texture sizes computed from the
  sizes before them by ratios of the box; triangles cut at a slice in six cases that
  mix `<`, `<=` and `>`, with corners that may lie in the slice.

There is no concurrency, no network and nothing is persisted between runs of
the program, so hazards of those kinds do not occur. The complete list, with
lines and the properties that cover each one, is under `hazards` in
`PROJECT.json`.

## 2. Modules

```
VolumeView            what the user is promised: one volume, drawn, diffused, shown
    ^  refined by (Stage, onScreen)
Voronoi <- Diffusion <- Scene <- MCScene     (TLC instances: *.cfg)
           TextureSize <--^----- SceneProofs, TextureSizeProofs (TLAPS)

Surface <- Surfaces <----- Slices <- MCSurfaces   a mouse event, a load, and where they
    VoronoiShader <----------^                    put the triangles for the shaders
      MeshProofs, SurfacesProofs, VoronoiShaderProofs, SlicesProofs (TLAPS)

TextureManager <- Device <- MCDevice         what a frame's parts do to the Direct3D objects
                     ^----- DeviceProofs (TLAPS)
```

The second and third group look closer at what `Scene` takes as a value: the pose
of the surfaces, and the textures behind the numbers. They share no variable with
`Scene`; each allows every order of the calls `Scene` makes into it, so what
they show holds for the orders `Scene` produces.

**`Voronoi`** and **`Diffusion`** are the two objects as records with one
operator per method. Colours are abstracted to *provenance*, which is what the
properties need to tell apart: slice `s` of the Voronoi texture is the `pose` the
surfaces had in the frame that drew it (`NoPose` if it was never drawn since the
texture was created), and a diffusion texture is the Voronoi volume its passes
started from together with their number. A diffusion record has
both ping-pong textures, `cur` (`m_iDiffTex`) and `step`
(`m_iCurrentDiffusionStep`); the first branch of `RenderDiffusion` is
`DiffusePass`, the second `DiffuseFinish`. `DiffusionUpdateFails` is
`Diffusion::Update` returning early because `InitSlices` failed: new size
stored, old buffers gone, textures and step untouched. A picture (what is
sampled on the screen) is a diffusion texture, or the isosurface taken from it
with an isovalue and a colour setting.

**`Scene`** has every state variable. Variables carry the source's names.
`NewScene` is what `OnD3D11CreateDevice` makes of the sizes the user interface knows,
`Init` the first such scene, and `DeviceLost` destroys a scene and makes the next
one (pose, flags and textures anew, globals and controls as they were). Voronoi and
Diffusion first create their textures at exactly the sizes passed in; where one of
those is 0, `CanInitialize` fails and the assertion in `TextureManager` ends the
program. There is one action per
handler, with the guards its control has (the controls of the volume are visible
only after "Diffuse!" and until one of the handlers hides them), and five kinds
of frame:

| Action | `Scene::Render` |
|---|---|
| `VoronoiFrame` | `UpdateBoundingBox`, then a slice that is not the last |
| `LastVoronoiFrame` | `UpdateBoundingBox`, the last slice, and on to the volume in the same frame |
| `VolumeFrame` | no Voronoi work: a diffusion pass, or the end of the diffusion, isosurface, one-slice texture, and the volume renderer |
| `FlatBoxFrame` | `UpdateBoundingBox` asks for a texture without a texel: an assertion ends the program |
| `SurfacesFrame` | only the surfaces |

`RenderVolume` is the second half of `Render`, entered with
`bContinue = true`: a pass, a show, an assertion that fails, or nothing because
the volume is invisible. Reading the uninitialised `m_bShowVolume` takes either
branch. `shown` is the texture the last frame gave to `VolumeRenderer::Render`,
`"none"` if it gave none; `Uninit` would be an uninitialised texture number.

`SavedVolume` is what the Save button writes to a file; it is an expression on the
state, because saving changes nothing.

**`TextureSize`** has the arithmetic of the sizes: `SizeOf` gives the longest side of
a box the resolution and rounds the others (`UpdateBoundingBox`,
`UpdateTextureResolution`), `Percent` is the slice of a slider position, `Iterations`
the number of samples of a ray (`VolumeRenderer::Update`).

**`VolumeView`** is the abstract specification. It knows a `stage` (surfaces,
drawing, diffusing, presentable) and whether the last frame showed a volume. It
promises that a volume becomes presentable only by way of the diffusion, that
nothing is on the screen while one is made, and that hiding does not interrupt a
drawing; losing the device takes the volume away. `Scene` implements it under
`Stage` and `shown # "none"`.

**`Surface`** has one record per surface and one operator per method. A buffer is the
mesh it was filled from, a texture the mesh it was chosen for. `LoadMesh` is its
whole sequence with the place at which it stops: `ReplaceMesh` (matrix reset,
buffers released, vertices replaced), `Textures` (early returns when texture or
view cannot be made), `Buffers` (results ignored). `Vertices`, `TriangleIndices`
and `EdgeIndices` are what it copies out of a file of several parts. The model
matrix is an affine map of which one coordinate is kept: `centre`, the image of the
mesh's origin, next to the `pivot`. **`Surfaces`** has the two surfaces under
`OnMouseEvent`, with its modes and the flag that blocks dragging, and the Load
buttons.

**`TextureManager`** has the maps as sequences, since numbers are given out in order.
A texture has a size and says which of its views exist; `lost` records a pointer
overwritten while its object was alive. **`Device`** composes it with the
device callbacks of `VolumetricDiffusion11.cpp`, the textures Voronoi and Diffusion
create in it, the six objects of `VolumeRenderer::SetScreenSize`, and the
references shader variables keep to a texture (`colorVar`, `distVar`): a texture
that is replaced while a variable holds its view stays in memory. The parts of a
frame run in any order and the sizes change at any time.

**`VoronoiShader`** has the geometry shaders of `Voronoi.fx` as operators. For one
slice, `VoronoiTriangleGS` cuts a triangle that reaches across it into three pieces
(`Lone`, `CutAt`), `CalculateEdgeProjection` an edge into two, and each piece is moved
along a normal whose direction depends on a flag the cut passes on
(`TriangleNormal`, `EdgeNormal`). Depths decide these, and are all that is kept of a
corner. Of two more coordinates the shaders ask only whether they are equal at both ends of
an edge (`upright`) and whether a triangle's `normal.z` is 0. An upright edge on one
side of the slice is not drawn, one that goes through it fills the whole slice, and
an edge in one depth gets a band beside it (`CutEdge`, `EdgeShape`). A cut triangle
with `normal.z = 0` becomes a band beside the line on which it is cut (`CutLine`); one that is not
cut is divided by `abs(normal.z) = 0` (`Voronoi.fx:211`), and nothing is stated of it. A
point is given by integer weights of the three corners; `Between` is `interpolate`
with the division multiplied out, so that cuts are exact and a division by zero shows
as a point of weight 0. **`Slices`** places these triangles where `Surfaces` puts the
surfaces: at every offset from a centre, for every slice.

**`MCScene`**, **`MCSurfaces`** and **`MCDevice`** give TLC their small sets. Definitions marked "Mutant" sit before the
definition they vary; each is a plausible slip in that code and breaks the
property `PROJECT.json` pairs it with, under that property's own run.

### Abstractions

- In `Scene` poses are values and a mouse event may lead to any pose. `LoadMesh` can
  succeed with a new mesh or with the old one (it returns `S_OK` for a file it
  cannot read), or fail with the model already replaced.
- `BoxOf` and `Extent` are tables for the corners of the bounding box: which box a
  pose has, and the proportions of its sides as integers. The sizes of the textures
  are computed from them as the source does, with exact quotients instead of floats.
  Only the depth decides how often a frame's loop runs, so the renderers of `Scene`
  know no other side.
- Of a triangle perpendicular to the slices `VoronoiShader` has the band of a cut one; the
  code has no case for one wholly on one side of the slice, and its division by 0 is
  left out. The widths of bands, which are on the plane of the slice, are left out as well.
  `NormalMatrix` is taken to keep the order of depths and whether an edge is upright.
- A cut edge emits twelve vertices from a shader with `[maxvertexcount(6)]`
  (`Voronoi.fx:891`). `CutEdge` has both its pieces, as `CalculateEdgeProjection` does;
  what becomes of vertices beyond the declared number is up to Direct3D (see `hazards`).
- In `Surfaces` a rotation is seen along one axis, where its cosine is 1 or -1; the
  matrix arithmetic is exact. `Scale` about the origin of the world is as in the code.
- In `Device` creating a texture in the manager succeeds, as its assertions demand. A
  failed `OnD3D11CreateDevice` ends the program (the settings dialog's second
  attempt is left out). The assertion on the slice buffers is a guard there; that
  it can fail is shown in `Scene`.
- File dialogs run a nested message loop that renders no frames, so a load is one
  step. Asserts are those of the debug build.
- Left out because they write nothing that another modelled operation reads:
  progress texts, sampling mode, bounding box and surface
  visibility, the camera's matrices.

## 3. Runs

All instances are finite. In `Scene` nothing but failing calls and lost devices is
bounded (`MaxFailures`, `MaxLosses`); in `Surfaces` the coordinates are as well (`Coord`). `Controls`
names the part of the user interface that the user of the instance touches, which
splits the product of all controls into runs that each ask one question.

| Run | Question | Instance | Result |
|---|---|---|---|
| `Geometry` | Do slices, counters, textures and the screen stay consistent when surfaces move and the generation is restarted, hidden, refined? | three poses, two boxes, depth 1 and 2, 1 or 2 passes; no failures; 345,603 states | `TypeOK`, `SlicesShareBox`, `PingPong`, `PresentableIsWhole`, `ShownWhenPresentable` hold |
| `Failures` | Does a call that fails in the middle of `UpdateBoundingBox` or `LoadMesh`, or a lost device, at any moment, together with resizing, break more than an assertion, and does anything else break one? Is any frame's work lost, and does every request end on the screen? | two poses, one with a flat box, resolutions 1 and 2, so that a device is also lost while a size is 0, one failure, one loss; `FairSpec`; 150,344 states | `SizesAgree`, `ResolutionKept`, `AbortsExplained`, `IInv`, `ImplementsView`, `FramesCountDown`, `DiffuseIsShown` hold |
| `Textures` | Are cached textures ever stale or uninitialised? Is what is shown and saved what the controls say? | every control of the isosurface and slices; 825,454 states | `IsoTextureFresh`, `NoUninitialisedRead`, `SavesTheVolume`, `ShownAsSet` hold |
| `Surfaces` | After any drags and failed loads, is drawing inside the buffers, the view that of the texture, the pivot the centre? And do the shaders take all of each triangle (not of one perpendicular to the slices and on one side) and each edge (not of an upright one on one side) to every slice? | a textured mesh and one of two parts, coordinates -1 to 2, one failed load; corners -1 to 2 from the centre, slices -1 to 2; 233,432 states | `TypeOK`, `DrawsWithinBuffers`, `ViewOfTexture`, `TurnsOnTheSpot`, `TrianglesLand`, `EdgesLand`, `PiecesCover` hold |
| `Device` | Do textures fit each other and the window, and is each freed, across resizes, failures and lost devices? | two volume sizes, two windows, one failed call at each of its places; 114,866 states | `TypeOK`, `CopiesFit`, `ScreenFits`, `NothingLost`, `OnlyDistanceKept` hold |
| `StaleDiffusion` | Is what is shown diffused from the latest diagram? | | violated |
| `OneSliceRange` | Does "one slice" show a slice? | slider at 0 or 100 | violated |
| `OneSliceStale` | ... of the present volume? | | violated |
| `HiddenVolume` | Does a hidden volume stay hidden? | | violated |
| `SliceBuffers` | Do the assertions hold after a failure? | one failure | violated |
| `MeshParts` | Do the triangles of a file keep to their part? | as `Surfaces` | violated |
| `Leaks` | Is everything released with the device? | as `Device` | violated |

**Why the bounds are enough.** The code compares boxes only for equality, so two
boxes show every outcome; the third pose has the box of the first, for a move the
bounding box does not notice. Depth 2 has a slice that is not the last and one
that is; depth 1, the last slice first. Two passes use both ping-pong textures;
raising the slider from 1 to 2 after the end, and lowering it in the
middle, are the two cases of `ChangeDiffusionSteps`. Two resolutions give a
resize up and down; the flat box has a depth of 1 at resolution 2 and none at 1. In
`Failures` loading a mesh stands for "Rotate" and a drag during a generation as well,
which hide the volume and move a surface in the same way. A second failure finds nothing that the first has not left, and a second loss starts from what
the first one left of the globals. The
safety properties of `Scene` do not rest on this argument: section 5 proves them for
all constants.

The coordinates of `Surfaces` let a surface leave the origin in both directions,
which tells a pivot that is left behind from one that follows; the strip and the
file of two parts differ in the length of every buffer and in having a texture. A
load fails at each of its six places, before or after any other load. In `Device` two
sizes tell a texture that was replaced from one that was not, and `done`
stops `SetScreenSize` after each of its creations.

Cutting compares depths and divides by their differences. Four offsets give every
order of three corners and a slice, equal ones included, and cuts that divide an
edge 1:1 and 1:2, each edge upright or not; the four places of a surface move the same
triangles past the slices.
`PiecesCover` looks at the points with weights from 0 to 3: the corners, points on the
edges on either side of each cut and inside every piece.

`CHECK_DEADLOCK FALSE` appears where the program can end: by an assertion in `Scene`,
by its window being closed or a device that cannot be made in `Device`. In `Failures`
the end by an assertion is part of the question.

**Fairness.** `FairSpec` adds `WF_vars(Frame)` only. `DXUTMainLoop` renders a frame
whenever `PeekMessage` finds no message, so frames go on as long as the
user does not keep the queue full; no fairness is assumed of any
user action. The user can restart a generation for ever, so `DiffuseIsShown` has the
premise `<>[][Frame]_vars`: from some point on the user leaves the program alone.
Its conclusion excepts a volume hidden by its controls or by the check box, failed
calls, a request lost with its device, and a box too flat for a texture, for which
an assertion ends the program.

## 4. Findings

Each `violation` run checks what a comment or an assertion of the repository says,
and TLC finds a shortest behaviour that breaks it. In brief (lines and quotes are
in `PROJECT.json`):

1. `GenerateVoronoi` does not reset the step counter in `Diffusion`. "Diffuse!"
   during the diffusion, with the box unchanged, redraws the diagram and then goes
   on diffusing the old one (`StaleDiffusion`).
2. "One slice" with the slider at 100 % asks for slice `depth`, one past the
   last, and shows nothing; the slider's own handler uses `depth - 1`
   (`OneSliceRange`).
3. A new generation does not mark the one-slice texture as outdated, so the slice
   of the previous volume stays (`OneSliceStale`).
4. Rotate, Move, Load and the resolution slider hide the volume but do not stop a
   generation, which brings the volume back when it ends (`HiddenVolume`).
5. `Render` ignores a failed `UpdateBoundingBox` and meets
   `assert(m_pSlicesVB)` (`SliceBuffers`).
6. `LoadMesh` joins the vertices of all parts of a file but copies the indices of
   their faces, which count from 0 in each part, unchanged (`MeshParts`).
7. `~Voronoi` releases nothing and `g_pSceneDepthTex2D` is overwritten at every
   resize, so objects outlive their device (`Leaks`).

Two more behaviours are what the code does and no text of the repository denies, so
no run calls them wrong: surfaces that move inside their common box while slices
are drawn leave a diagram of several poses, and lowering the steps below the
passes already made ends the diffusion with more passes than the slider shows.

## 5. Proofs

`SceneProofs` proves, with TLAPS and for every value of the constants, from the
named assumptions `PoseAssumption`, `IsoAssumption` and `SceneAssumption` (tables
are total, the sliders begin at 1, a box has a longest side, the first box is thick
enough for a texture, the model values are distinct):

- `Invariance`: `Spec => []IInv`. From it `TypeCorrectness`, `ReadsInitialised`,
  `IsoSurfaceIsFresh`, `OneBoxPerDiagram`, `StepsCountPasses`, `WholeVolumes`,
  `OneTextureSize`: every safety invariant of the passing `Scene` runs;
  `KeepsResolution` and `SavesWholeVolumes` come from the same invariant.
- `ShowsWholeVolumes` and `ShowsSettings`: the action properties
  `ShownWhenPresentable` and `ShownAsSet`.
- `Refinement`: `Spec => ImplementsView`.
- `CountsDown`: the action property `FramesCountDown`. `FramesLeft` is the number of
  frames `Render` still needs (slices, passes, the frame that shows), and each frame
  that works on a visible volume without a failing call lowers it by exactly one, or is
  the one that shows the volume. This is all of `DiffuseIsShown` but the
  fairness: after the last event the volume is there in `FramesLeft` frames.
- `AbortsOnlySo`: `AbortsExplained`, which with `IInv` is inductive. It names three causes:
  a failed call, a box without texels, and a lost device while the globals have the
  size of such a box (the box at that moment may be another one, and the new scene's is
  the first one again, so the second cause does not contain the third).

Four theorems say that the causes named in section 4 are the only ones. Each takes
away one cause and proves the statement of the source that the run shows violated:
`NoFailureNoAbort` (no call has failed, and no box is too flat for its textures: the
assertions hold, also after lost devices, since every size the globals get is one
Scene has computed), `RestartIsTheCause` ("Diffuse!" only while the step counter is 0:
what is shown was diffused from the latest diagram), `HidingIsTheCause` (no hiding
while slices are drawn: hidden stays hidden), `UnmarkedSliceIsTheCause` ("Diffuse!"
only while all slices are chosen: the slice shown is of the present volume). The first
assumes something of the constants, the other three are about `Next` with the one step
left out; all other interleavings stay.

**The inductive invariant.** None of the safety properties is inductive alone. Each
one needs to know what the *other* objects are doing, and `IInv` is the conjunction
of those facts:

| Conjunct | Why it is needed |
|---|---|
| `HiddenWhileGenerating` | `Presentable` must exclude a diagram under way: slices drawn now would replace those a presentable volume is claimed to have |
| `SliceIsPending`, `StepIsPending` | counters are non-zero only while the flag that resumes the work is set; a presentable volume therefore has both at 0 |
| `DrawnSoFar` | the last slice completes the volume only if all earlier ones were drawn into the *same* textures |
| `PingPong` | the pass that ends the diffusion has counted all the passes before it |
| `GenerationOutdatesIso` | a frame of the diffusion changes the texture the isosurface was made of, and sets no flag itself: it must have been set before |
| `ResizedOrPending` | after the slider changed Scene's sizes, the renderers follow only if the early return of `UpdateBoundingBox` is not taken |
| `ResolutionKept` | the sizes are computed from those before them, so each update needs that the last one kept the longest side; a new scene needs it of the copy in the globals |
| `SettingsAgree` | the two copies of a setting are equal at every moment, not just when a picture is shown; a picture made earlier is fresh for one copy and compared with the other |
| `WrittenFirst` | the handler that leads to a read of an uninitialised member has written it |

The proof has lemmas on the operators of the two generators, one step per handler,
one per kind of frame (`UpdateBoundingBox` and `RenderVolume` have lemmas of
their own, since two kinds of frame share them), and PTL for the temporal steps. The
refinement maps each handler and frame to a step of `VolumeView` or a stutter,
under the invariant.

`SurfacesProofs` proves, from `SurfaceAssumption` and `SurfacesAssumption`
(the indices of a part stay below its vertices, and there are three for each face,
which `LoadMesh` asserts; coordinates are integers), for all meshes, distances, factors
and numbers of failing calls:

- `TypeCorrectness` and `NoReleasedView`, from `Invariance`: `TypeOK` and
  `ViewOfTexture` are inductive together. The lemmas `LoadMeshType` and
  `LoadMeshView` follow a load through its three parts; `MousePlaces` says that a
  mouse message changes nothing but places.
- `DrawsStayWithin`: `DrawsWithinBuffers`. Which buffers a surface has is the
  inductive part (`OwnBuffers`: none, or those of the mesh it has now, never of one it
  had before); that those of one mesh fit each other is a fact about the file
  (`OwnBuffersSuffice`).
- `OneMeshIsRight`: for files of one part the triangles are those of their part, the
  statement that `MeshParts` shows violated for more.
- `PivotStays`: the action property `TurnsOnTheSpot`. `MoveShifts` turns dragging and
  wheel into one shift of each surface; `RotateOnTheSpot` is the step that needs
  arithmetic.

`MeshProofs` has the facts about files of any number of parts of any size. What
`LoadMesh` copies is `FlattenSeq` of the parts, a recursive function, and the provers
take no induction theorem. The proofs argue by the least counterexample instead: a set
of numbers that is not empty has a least element (`LeastElement`, from the
well-foundedness of `<`), so a set with 0 in it, and with each number up to n the next one,
has all of them (`InductionUpTo`). With it `FlattenJoins` says where in the
buffer each part begins, and from there every index is known to name a vertex
(`TrianglesNameVertices`, `EdgesNameVertices`).

`TextureSizeProofs` proves, for all boxes, resolutions and slider positions,
`LargestIsResolution` (rescaling keeps the longest side exactly; `KeepsResolution` rests
on it), `TexelsWhenThick` (which boxes have a texture), `SliderInRange` and
`RadioButtonOvershoots` (the two formulas for a slice), and `RaysCrossTheVolume` (2n
samples at a distance of 1/n cross a cube along its diagonal for n >= 4; the slider
begins at 64). Their lemmas are facts about `\div`.

`DeviceProofs` proves, from `DeviceAssumption`, for all sets of volume and window
sizes and any number of failures, `Invariance` and from it `TypeCorrect`,
`CopiesAlwaysFit`, `ScreenAlwaysFits`, `ManagerLosesNothing` and
`KeepsDistanceOnly`: all properties of the run. `IInv` adds to the properties
that a device has exactly the twelve textures of the types `UpdateTypes` names
(`TexturesOfDevice`), without which an update could give a number the wrong type, and
which textures the shader variables may hold (`KeptVariables`). The lemmas follow the
textures through creation, update and deletion, then through each callback.

`VoronoiShaderProofs` proves for all integer depths that every corner of a piece
is on the side of the slice the piece's flag says (`CutTriangleResult`,
`CutEdgeResult`), and that a point on its side lands on the slice
(`OnItsSideLands`): `TrianglesAlwaysLand`, `EdgesAlwaysLand`. `EdgePieces` says which
points a piece of an edge has, from which follows the shape it gets. `SlicesProofs` puts them
where `SurfacesProofs` shows the surfaces can be: `TrianglesReachSlices` and
`EdgesReachSlices` are `TrianglesLand` and `EdgesLand` in every state of `Slices`.
`PiecesAlwaysCover` says that the three pieces of a cut hold every point of a triangle
that is not perpendicular to the slices, whatever the depths. Whether a point lies in a
piece is decided by signs of determinants, polynomials of degree five in depths and weights. The proof first asks on which side of
the cut the point lies (`Side`): on one it is in the piece of the lone corner
(`LonePieceHolds`), on the other in one of the two remaining pieces (`RestHolds`), and
there each determinant is a product of factors whose signs are known. `PiecesAreAll` is
`PiecesCover` in every state of `Slices`.

**Only model-checked:** `DiffuseIsShown`; liveness under fairness is beyond the
prover, and `FramesCountDown` is what can be proved of it. `IInv` of `Scene` is also
checked by TLC, in `Failures`.

## 6. Not modelled

- Pixel shaders and what is in a voxel: colours, distances, averaging, the isovalue
  test, the colours along a ray. Triangles perpendicular to the slices and on one side of
  one, and the rectangles drawn for points.
- Rounding of floats; the source's quotients are exact here.
- `VolumeRenderer`'s sampling settings and the buffers of its box; vertex
  colours and pixels of a surface's texture; input layouts other than Voronoi's.
- The settings dialog, and its second attempt after a device that could not be made.
- The reference counts of the device and its context.
- The shader manager, which nothing uses.
- DXUT11, Effects11, Assimp and FreeImage. They are vendored copies of third-party
  libraries and make up 99 % of the lines in the repository; the program's own sources
  are some 6,700 lines. The share of the repository's lines that is modelled is small
  for that reason and will stay so: what the libraries do appears only as the order
  in which DXUT calls the program, and as calls that fail.

## 7. Plan

Done: everything in the figure of section 2. Left, in the order of what is most
likely to go wrong:

1. The plane of a slice: the bands beside edges and cut perpendicular triangles, and how
   much of it the six vertices kept of a cut edge cover, which need two more coordinates.
2. An abstract specification of the textures of a volume (one size, or a diffusion that
   must not run) that both `Scene` and `Device` are shown to implement.
3. The colours along a ray (`PS_RAYCAST`) and the mean of a diffusion pass as operators
   against reference definitions.
