------------------------------- MODULE Scene -------------------------------
(***************************************************************************)
(* The scene (Scene.cpp) driven by the controls of the user interface      *)
(* (OnGUIEvent and OnMouseEvent in VolumetricDiffusion11.cpp).             *)
(*                                                                         *)
(* The program has one thread.  DXUT's message loop runs either the        *)
(* handler of one window message or, when there is none, one frame         *)
(* (OnD3D11FrameRender -> Scene::Render).  A volume is far too large for   *)
(* one frame: Render draws one Voronoi slice, or makes one diffusion pass, *)
(* and the handlers run in between.  An action is one handler, or one      *)
(* whole frame.                                                            *)
(***************************************************************************)
EXTENDS Diffusion, TextureSize

CONSTANTS Box,          \* bounding boxes of the two surfaces together
          BoxOf,        \* the box of each pose
          Extent,       \* the sides of each box
          Resolution,   \* values of the texture resolution slider
          StepCount,    \* values of the diffusion steps slider
          SliderPos,    \* values of the slice slider, in percent
          InitPose, InitResolution, InitSteps, InitSliderPos,
          Uninit,       \* a variable the constructor leaves uninitialised
          Controls,     \* the controls the user of this instance touches
          MaxFailures,  \* bound on failing Direct3D calls in a behaviour
          MaxLosses     \* bound on lost devices in a behaviour

ASSUME SceneAssumption ==
  /\ BoxOf \in [Pose -> Box]
  /\ Extent \in [Box -> Triple]
  /\ \A b \in Box : Largest(Extent[b]) # 0
  /\ Resolution \subseteq Nat \ {0}    \* the sliders begin at 64 ...
  /\ StepCount \subseteq Nat \ {0}     \* ... and at 1 in InitApp
  /\ SliderPos \subseteq 0 .. 100
  /\ InitPose \in Pose /\ InitResolution \in Resolution
  /\ \A r \in Resolution : HasTexels(SizeOf(Extent[BoxOf[InitPose]], r))
  /\ InitSteps \in StepCount /\ InitSliderPos \in SliderPos
  /\ Uninit \notin BOOLEAN
  /\ Uninit \notin {"none", "diffusion", "iso", "slice"}
  /\ MaxFailures \in Nat /\ MaxLosses \in Nat

VARIABLES
  pose,                        \* m_pSurface1, m_pSurface2
  m_box,                       \* m_vMin, m_vMax
  m_textureSize,               \* m_iTextureWidth, m_iTextureHeight, m_iTextureDepth
  m_bUpdate3DTextures,
  m_bGenerateVoronoi, m_bRender3DTexture, m_bGenerateDiffusion,
  m_bIsoValueChanged, m_bGenerateOneSliceTexture,
  m_bRenderIsoSurface, m_bDrawAllSlices, m_bShowVolume,
  m_iCurrentSlice, m_iDiffusionSteps, m_iso,
  m_nIsoSurfaceTexture, m_nOneSliceTexture,
  voronoi, diffusion,          \* *m_pVoronoi, *m_pDiffusion
  isoTex, sliceTex,            \* contents of the isosurface and the one-slice texture
  g_bCameraActive,
  g_textureSize,               \* g_iTextureWidth, g_iTextureHeight, g_iTextureDepth
  g_iTextureMaximum, g_iDiffusionSteps,
  g_bShowVolume, g_bShowIsoSurface,
  g_iso,                       \* g_fIsoValue, g_bShowIsoColor
  oneSliceChecked,             \* the radio button IDC_ONE_SLICE, not IDC_ALL_SLICES
  sliceSlider,                 \* position of IDC_SLICEINDEX_SLIDER
  controls,                    \* the controls of the volume are visible
  shown,                       \* texture the last frame passed to VolumeRenderer::Render
  failures, aborted,           \* failed calls; an assertion ended the program
  losses                       \* lost devices

size == <<m_box, m_textureSize, m_bUpdate3DTextures>>
todo == <<m_bGenerateVoronoi, m_bRender3DTexture, m_bGenerateDiffusion,
          m_bIsoValueChanged, m_bGenerateOneSliceTexture>>
view == <<m_bRenderIsoSurface, m_bDrawAllSlices, m_bShowVolume,
          m_iCurrentSlice, m_iDiffusionSteps, m_iso>>
textures == <<m_nIsoSurfaceTexture, m_nOneSliceTexture, voronoi, diffusion, isoTex, sliceTex>>
settings == <<g_iTextureMaximum, g_iDiffusionSteps, g_bShowVolume, g_bShowIsoSurface,
              g_iso, oneSliceChecked, sliceSlider>>
ui == <<g_bCameraActive, g_textureSize, settings, controls>>
result == <<shown, failures, aborted, losses>>
vars == <<pose, size, todo, view, textures, ui, result>>

-----------------------------------------------------------------------------
\* The texture size for a box at a resolution.
SizeFor == [b \in Box |-> [r \in Resolution |-> SizeOf(Extent[b], r)]]

(* The scene that OnD3D11CreateDevice builds: Scene::Scene and             *)
(* Scene::Initialize with the sizes the user interface knows.  Voronoi and *)
(* Diffusion create their textures at exactly these sizes (CanInitialize), *)
(* and the closing call of UpdateBoundingBox makes them anew at            *)
(* NewSceneSize.                                                           *)
NewBox == BoxOf[InitPose]
NewSceneSize == SizeFor[NewBox][Largest(g_textureSize)]

\* The textures of the new scene can be created; if not, the assertion of
\* TextureManager::ItlCreate3DTexture ends the program.
CanInitialize == HasTexels(g_textureSize)

NewScene ==
  LET d == Depth(NewSceneSize) IN
  /\ pose = InitPose
  /\ m_box = NewBox
  /\ m_textureSize = NewSceneSize
  /\ m_bUpdate3DTextures = TRUE
  /\ m_bGenerateVoronoi = FALSE
  /\ m_bRender3DTexture = FALSE
  /\ m_bGenerateDiffusion = FALSE
  /\ m_bIsoValueChanged = TRUE
  /\ m_bGenerateOneSliceTexture = TRUE
  /\ m_bRenderIsoSurface = FALSE
  /\ m_bDrawAllSlices = TRUE
  /\ m_bShowVolume = Uninit
  /\ m_iCurrentSlice = 64
  /\ m_iDiffusionSteps = InitSteps
  /\ m_iso = InitIso
  /\ m_nIsoSurfaceTexture = Uninit
  /\ m_nOneSliceTexture = Uninit
  /\ voronoi = VoronoiUpdate(d)
  /\ diffusion = DiffusionInit(d)
  /\ isoTex = IsoPicture(BlankDiffused(d), InitIso)
  /\ sliceTex = BlankOneSlice(d)
  /\ shown = "none"

\* The program's globals, the controls InitApp makes, and the first device.
Init ==
  /\ g_bCameraActive = FALSE
  /\ g_textureSize = <<InitResolution, InitResolution, InitResolution>>
  /\ g_iTextureMaximum = InitResolution
  /\ g_iDiffusionSteps = InitSteps
  /\ g_bShowVolume = FALSE
  /\ g_bShowIsoSurface = FALSE
  /\ g_iso = InitIso
  /\ oneSliceChecked = FALSE
  /\ sliceSlider = InitSliderPos
  /\ controls = FALSE
  /\ failures = 0
  /\ losses = 0
  /\ aborted = ~CanInitialize
  /\ NewScene

-----------------------------------------------------------------------------
(* Handlers of the user interface                                          *)

\* A message for control c reaches its handler.
Message(c) == ~aborted /\ c \in Controls

\* Mutant: the argument of Render3DTexture is the wrong way round.
HideVolumeInverted ==
  /\ controls' = FALSE
  /\ m_bRender3DTexture' = TRUE
  /\ UNCHANGED <<m_bGenerateVoronoi, m_bGenerateDiffusion, m_bIsoValueChanged,
                 m_bGenerateOneSliceTexture>>

\* The volume's controls are hidden and Scene::Render3DTexture(false) is called.
HideVolume ==
  /\ controls' = FALSE
  /\ m_bRender3DTexture' = FALSE
  /\ UNCHANGED <<m_bGenerateVoronoi, m_bGenerateDiffusion, m_bIsoValueChanged,
                 m_bGenerateOneSliceTexture>>

\* Dragging or turning the wheel moves, rotates or scales a surface, and every
\* mouse message refreshes the sizes the user interface knows.
OnMouseEvent(p) ==
  /\ Message("mouse")
  /\ ~g_bCameraActive
  /\ pose' = p
  /\ g_textureSize' = m_textureSize
  /\ UNCHANGED <<size, todo, view, textures, g_bCameraActive, settings, controls, result>>

\* IDC_LOAD_SURFACE_1 and _2: LoadMesh returns S_OK with a new mesh (p # pose)
\* or, for a type it does not support, with the old one.
LoadSurface(p) ==
  /\ Message("load")
  /\ pose' = p
  /\ HideVolume
  /\ UNCHANGED <<size, view, textures, g_bCameraActive, g_textureSize, settings, result>>

\* LoadMesh gives up on a texture after it has replaced the model: a message,
\* and the volume stays as it is.
LoadSurfaceFails(p) ==
  /\ Message("load")
  /\ failures < MaxFailures
  /\ failures' = failures + 1
  /\ pose' = p
  /\ UNCHANGED <<size, todo, view, textures, ui, shown, aborted, losses>>

\* IDC_ROTATE, IDC_MOVE
RotateOrMove ==
  /\ Message("rotate_move")
  /\ g_bCameraActive' = FALSE
  /\ HideVolume
  /\ UNCHANGED <<pose, size, view, textures, g_textureSize, settings, result>>

\* IDC_CAMERA
Camera ==
  /\ Message("camera")
  /\ g_bCameraActive' = TRUE
  /\ UNCHANGED <<pose, size, todo, view, textures, g_textureSize, settings, controls, result>>

\* IDC_TEXTRES_MAX_SLIDER: Scene::UpdateTextureResolution with the box of the
\* last update, not of the current pose.
TextureResolution(r) ==
  /\ Message("texture_resolution")
  /\ g_iTextureMaximum' = r
  /\ m_textureSize' = SizeFor[m_box][r]
  /\ m_bUpdate3DTextures' = FALSE
  /\ g_textureSize' = m_textureSize'
  /\ HideVolume
  /\ UNCHANGED <<pose, m_box, view, textures, g_bCameraActive, g_iDiffusionSteps, g_bShowVolume,
                 g_bShowIsoSurface, g_iso, oneSliceChecked, sliceSlider, result>>

\* The radio buttons IDC_ALL_SLICES and IDC_ONE_SLICE and the slider of the slice.
SlicesOnly ==
  UNCHANGED <<pose, size, m_bGenerateVoronoi, m_bRender3DTexture, m_bGenerateDiffusion,
              m_bIsoValueChanged, m_bRenderIsoSurface, m_bShowVolume, m_iDiffusionSteps, m_iso,
              textures, g_bCameraActive, g_textureSize, g_iTextureMaximum, g_iDiffusionSteps,
              g_bShowVolume, g_bShowIsoSurface, g_iso, controls, result>>

\* IDC_ALL_SLICES: Scene::ChangeRenderingToAllSlices
AllSlices ==
  /\ Message("slices")
  /\ controls
  /\ oneSliceChecked' = FALSE
  /\ m_bDrawAllSlices' = TRUE
  /\ m_bGenerateOneSliceTexture' = TRUE
  /\ UNCHANGED <<m_iCurrentSlice, sliceSlider>>
  /\ SlicesOnly

\* Scene::ChangeRenderingToOneSlice
ChangeRenderingToOneSlice(index) ==
  /\ m_bDrawAllSlices' = FALSE
  /\ m_iCurrentSlice' = index
  /\ m_bGenerateOneSliceTexture' = TRUE

\* IDC_ONE_SLICE
OneSlice ==
  /\ Message("slices")
  /\ controls
  /\ oneSliceChecked' = TRUE
  /\ ChangeRenderingToOneSlice(Percent(sliceSlider, Depth(g_textureSize)))
  /\ UNCHANGED sliceSlider
  /\ SlicesOnly

\* IDC_SLICEINDEX_SLIDER, visible with the other controls while one slice is chosen
SliceIndex(v) ==
  /\ Message("slice_index")
  /\ controls /\ oneSliceChecked
  /\ sliceSlider' = v
  /\ ChangeRenderingToOneSlice(Percent(v, Depth(g_textureSize) - 1))
  /\ UNCHANGED oneSliceChecked
  /\ SlicesOnly

\* IDC_SHOW_VOLUME: Scene::ChangeVolumeVisibility(g_bShowVolume)
ShowVolume ==
  /\ Message("show_volume")
  /\ g_bShowVolume' = ~g_bShowVolume
  /\ m_bShowVolume' = g_bShowVolume'
  /\ UNCHANGED <<pose, size, todo, m_bRenderIsoSurface, m_bDrawAllSlices, m_iCurrentSlice,
                 m_iDiffusionSteps, m_iso, textures, g_bCameraActive, g_textureSize,
                 g_iTextureMaximum, g_iDiffusionSteps, g_bShowIsoSurface, g_iso,
                 oneSliceChecked, sliceSlider, controls, result>>

\* Mutant: GenerateVoronoi does not mark the isosurface.
DiffuseKeepsIso ==
  /\ Message("diffusion")
  /\ controls' = TRUE
  /\ g_bCameraActive' = TRUE
  /\ g_bShowVolume' = TRUE
  /\ m_bShowVolume' = TRUE
  /\ m_bGenerateVoronoi' = TRUE
  /\ m_bGenerateDiffusion' = FALSE
  /\ UNCHANGED m_bIsoValueChanged
  /\ m_bRender3DTexture' = FALSE
  /\ UNCHANGED <<pose, size, m_bGenerateOneSliceTexture, m_bRenderIsoSurface, m_bDrawAllSlices,
                 m_iCurrentSlice, m_iDiffusionSteps, m_iso, textures, g_textureSize,
                 g_iTextureMaximum, g_iDiffusionSteps, g_bShowIsoSurface, g_iso,
                 oneSliceChecked, sliceSlider, result>>

\* Mutant: ChangeVolumeVisibility(true) is not called.
DiffuseKeepsVisibility ==
  /\ Message("diffusion")
  /\ controls' = TRUE
  /\ g_bCameraActive' = TRUE
  /\ g_bShowVolume' = TRUE
  /\ UNCHANGED m_bShowVolume
  /\ m_bGenerateVoronoi' = TRUE
  /\ m_bGenerateDiffusion' = FALSE
  /\ m_bIsoValueChanged' = TRUE
  /\ m_bRender3DTexture' = FALSE
  /\ UNCHANGED <<pose, size, m_bGenerateOneSliceTexture, m_bRenderIsoSurface, m_bDrawAllSlices,
                 m_iCurrentSlice, m_iDiffusionSteps, m_iso, textures, g_textureSize,
                 g_iTextureMaximum, g_iDiffusionSteps, g_bShowIsoSurface, g_iso,
                 oneSliceChecked, sliceSlider, result>>

\* IDC_DIFFUSION: ChangeVolumeVisibility(true) and Scene::GenerateVoronoi
Diffuse ==
  /\ Message("diffusion")
  /\ controls' = TRUE
  /\ g_bCameraActive' = TRUE
  /\ g_bShowVolume' = TRUE
  /\ m_bShowVolume' = TRUE
  /\ m_bGenerateVoronoi' = TRUE
  /\ m_bGenerateDiffusion' = FALSE
  /\ m_bIsoValueChanged' = TRUE
  /\ m_bRender3DTexture' = FALSE
  /\ UNCHANGED <<pose, size, m_bGenerateOneSliceTexture, m_bRenderIsoSurface, m_bDrawAllSlices,
                 m_iCurrentSlice, m_iDiffusionSteps, m_iso, textures, g_textureSize,
                 g_iTextureMaximum, g_iDiffusionSteps, g_bShowIsoSurface, g_iso,
                 oneSliceChecked, sliceSlider, result>>

\* IDC_DIFFSTEPS_SLIDER: Scene::ChangeDiffusionSteps
DiffusionSteps(n) ==
  /\ Message("diffusion_steps")
  /\ n # g_iDiffusionSteps
  /\ g_iDiffusionSteps' = n
  /\ m_iDiffusionSteps' = n
  /\ m_bGenerateDiffusion' = TRUE
  /\ m_bIsoValueChanged' = TRUE
  /\ m_bGenerateOneSliceTexture' = TRUE
  /\ UNCHANGED <<pose, size, m_bGenerateVoronoi, m_bRender3DTexture, m_bRenderIsoSurface,
                 m_bDrawAllSlices, m_bShowVolume, m_iCurrentSlice, m_iso, textures,
                 g_bCameraActive, g_textureSize, g_iTextureMaximum, g_bShowVolume,
                 g_bShowIsoSurface, g_iso, oneSliceChecked, sliceSlider, controls, result>>

\* What ShowIsoSurface, ChangeIsoValue and ShowIsoColor all do to the work flags.
IsoChanged ==
  /\ controls
  /\ m_bIsoValueChanged' = TRUE
  /\ m_bGenerateOneSliceTexture' = TRUE
  /\ UNCHANGED <<pose, size, m_bGenerateVoronoi, m_bRender3DTexture, m_bGenerateDiffusion,
                 m_bDrawAllSlices, m_bShowVolume, m_iCurrentSlice, m_iDiffusionSteps, textures,
                 g_bCameraActive, g_textureSize, g_iTextureMaximum, g_iDiffusionSteps,
                 g_bShowVolume, oneSliceChecked, sliceSlider, controls, result>>

\* IDC_ISO_CHECK: Scene::ShowIsoSurface(g_bShowIsoSurface)
IsoCheck ==
  /\ Message("iso_check")
  /\ g_bShowIsoSurface' = ~g_bShowIsoSurface
  /\ m_bRenderIsoSurface' = g_bShowIsoSurface'
  /\ UNCHANGED <<m_iso, g_iso>>
  /\ IsoChanged

\* IDC_ISO_SLIDER: Scene::ChangeIsoValue(g_fIsoValue)
IsoSlider(x) ==
  /\ Message("iso_slider")
  /\ g_iso' = [g_iso EXCEPT !.value = x]
  /\ m_iso' = [m_iso EXCEPT !.value = x]
  /\ UNCHANGED <<m_bRenderIsoSurface, g_bShowIsoSurface>>
  /\ IsoChanged

\* Mutant: the setting is passed on before it is changed.
IsoColorPassedEarly ==
  /\ Message("iso_color")
  /\ g_iso' = [g_iso EXCEPT !.color = ~g_iso.color]
  /\ m_iso' = [m_iso EXCEPT !.color = g_iso.color]
  /\ UNCHANGED <<m_bRenderIsoSurface, g_bShowIsoSurface>>
  /\ IsoChanged

\* IDC_ISO_COLOR: Scene::ShowIsoColor(g_bShowIsoColor)
IsoColor ==
  /\ Message("iso_color")
  /\ g_iso' = [g_iso EXCEPT !.color = ~g_iso.color]
  /\ m_iso' = [m_iso EXCEPT !.color = g_iso'.color]
  /\ UNCHANGED <<m_bRenderIsoSurface, g_bShowIsoSurface>>
  /\ IsoChanged

UserEvent ==
  \/ \E p \in Pose : OnMouseEvent(p) \/ LoadSurface(p) \/ LoadSurfaceFails(p)
  \/ RotateOrMove
  \/ Camera
  \/ \E r \in Resolution : TextureResolution(r)
  \/ AllSlices
  \/ OneSlice
  \/ \E v \in SliderPos : SliceIndex(v)
  \/ ShowVolume
  \/ Diffuse
  \/ \E n \in StepCount : DiffusionSteps(n)
  \/ IsoCheck
  \/ \E x \in IsoValue : IsoSlider(x)
  \/ IsoColor

-----------------------------------------------------------------------------
(* Scene::Render                                                           *)

\* Mutants: one half of the condition is forgotten.
RebuildIfUpdated == ~m_bUpdate3DTextures
RebuildIfMoved == BoxOf[pose] # m_box

\* UpdateBoundingBox does not return early: the textures are to be rebuilt.
Rebuild == ~(m_bUpdate3DTextures /\ BoxOf[pose] = m_box)

\* Mutant: the depth is taken for the largest of the three sizes.
NewSizeFromDepth == SizeOf(Extent[BoxOf[pose]], Depth(m_textureSize))

\* UpdateBoundingBox rescales the sizes to the new box, keeping the largest one.
NewSize == SizeFor[BoxOf[pose]][Largest(m_textureSize)]

NewDepth == Depth(NewSize)

\* Mutant: m_bUpdate3DTextures is not set, each frame makes the textures anew.
UpdateBoundingBoxKeepsFlag(fails) ==
  /\ Rebuild => HasTexels(NewSize)
  /\ fails => Rebuild /\ failures < MaxFailures
  /\ failures' = IF fails THEN failures + 1 ELSE failures
  /\ m_box' = BoxOf[pose]
  /\ m_textureSize' = IF Rebuild THEN NewSize ELSE m_textureSize
  /\ UNCHANGED m_bUpdate3DTextures

\* The members UpdateBoundingBox writes.  Its result is ignored by Render; it
\* fails if Diffusion::Update does, before m_bUpdate3DTextures is set.
UpdateBoundingBox(fails) ==
  /\ Rebuild => HasTexels(NewSize)
  /\ fails => Rebuild /\ failures < MaxFailures
  /\ failures' = IF fails THEN failures + 1 ELSE failures
  /\ m_box' = BoxOf[pose]
  /\ m_textureSize' = IF Rebuild THEN NewSize ELSE m_textureSize
  /\ m_bUpdate3DTextures' = (m_bUpdate3DTextures \/ ~fails)

\* The renderers and textures as UpdateBoundingBox leaves them.
UpdatedVoronoi == IF Rebuild THEN VoronoiUpdate(NewDepth) ELSE voronoi
UpdatedDiffusion(fails) ==
  IF ~Rebuild THEN diffusion
  ELSE IF fails THEN DiffusionUpdateFails(diffusion, NewDepth)
  ELSE DiffusionUpdate(diffusion, NewDepth)
UpdatedIsoTex(fails) ==
  IF Rebuild /\ ~fails THEN IsoPicture(BlankDiffused(NewDepth), InitIso) ELSE isoTex
UpdatedSliceTex(fails) ==
  IF Rebuild /\ ~fails THEN BlankOneSlice(NewDepth) ELSE sliceTex

\* Mutant: bContinue is ignored, the texture is shown while it is made.
NoVolumeButShown(dif, iso, slice) ==
  /\ diffusion' = dif /\ isoTex' = iso /\ sliceTex' = slice
  /\ shown' = "diffusion"
  /\ UNCHANGED <<m_bIsoValueChanged, m_bGenerateOneSliceTexture,
                 m_nIsoSurfaceTexture, m_nOneSliceTexture>>

\* The frame ends without a call of VolumeRenderer::Render.
NoVolume(dif, iso, slice) ==
  /\ diffusion' = dif /\ isoTex' = iso /\ sliceTex' = slice
  /\ shown' = "none"
  /\ UNCHANGED <<m_bIsoValueChanged, m_bGenerateOneSliceTexture,
                 m_nIsoSurfaceTexture, m_nOneSliceTexture>>

\* Work left for the volume renderer's textures before one of them is shown.
IsoSurfaceDue == m_bRenderIsoSurface /\ m_bIsoValueChanged
OneSliceDue == ~m_bDrawAllSlices /\ m_bGenerateOneSliceTexture

\* The isosurface and the one-slice texture are brought up to date as far as
\* the flags ask for it, and one texture is shown.
ShowTexture(dif, iso, slice) ==
  LET newIso == IF IsoSurfaceDue THEN RenderIsoSurface(dif, m_iso) ELSE iso
      picture == IF m_bRenderIsoSurface THEN newIso ELSE DiffusionPicture(DiffusionTexture(dif))
  IN
  /\ diffusion' = dif
  /\ isoTex' = newIso
  /\ m_nIsoSurfaceTexture' = IF IsoSurfaceDue THEN "iso" ELSE m_nIsoSurfaceTexture
  /\ m_bIsoValueChanged' = (m_bIsoValueChanged /\ ~IsoSurfaceDue)
  /\ sliceTex' = IF OneSliceDue
                 THEN RenderOneDiffusionSlice(dif, m_iCurrentSlice, picture) ELSE slice
  /\ m_nOneSliceTexture' = IF OneSliceDue THEN "slice" ELSE m_nOneSliceTexture
  /\ m_bGenerateOneSliceTexture' = (m_bGenerateOneSliceTexture /\ ~OneSliceDue)
  /\ shown' = IF ~m_bDrawAllSlices THEN m_nOneSliceTexture'
              ELSE IF m_bRenderIsoSurface THEN m_nIsoSurfaceTexture' ELSE "diffusion"

\* The part of Render after the Voronoi diagram, entered with bContinue = true.
RenderVolume(generate, dif, vol, iso, slice) ==
  \/ /\ m_bShowVolume \in {TRUE, Uninit}     \* one diffusion pass
     /\ generate /\ dif.vb /\ dif.step < m_iDiffusionSteps
     /\ NoVolume(DiffusePass(dif, vol), iso, slice)
     /\ m_bGenerateDiffusion' = TRUE
     /\ UNCHANGED aborted
  \/ /\ m_bShowVolume \in {TRUE, Uninit}     \* nothing left to diffuse
     /\ dif.vb \/ ~(generate \/ IsoSurfaceDue \/ OneSliceDue)
     /\ generate => dif.step >= m_iDiffusionSteps
     /\ ShowTexture(IF generate THEN DiffuseFinish(dif) ELSE dif, iso, slice)
     /\ m_bGenerateDiffusion' = FALSE
     /\ UNCHANGED aborted
  \/ /\ m_bShowVolume \in {TRUE, Uninit}     \* assert(m_pSlicesVB)
     /\ ~dif.vb /\ (generate \/ IsoSurfaceDue \/ OneSliceDue)
     /\ NoVolume(dif, iso, slice)
     /\ m_bGenerateDiffusion' = generate
     /\ aborted' = TRUE
  \/ /\ m_bShowVolume \in {FALSE, Uninit}
     /\ NoVolume(dif, iso, slice)
     /\ m_bGenerateDiffusion' = generate
     /\ UNCHANGED aborted

\* A frame that draws a Voronoi slice other than the last one: bContinue = false.
VoronoiFrame(fails) ==
  /\ ~aborted
  /\ m_bGenerateVoronoi
  /\ ~LastSlice(UpdatedVoronoi)
  /\ UpdateBoundingBox(fails)
  /\ UNCHANGED <<pose, m_bGenerateVoronoi, m_bRender3DTexture, m_bGenerateDiffusion,
                 view, ui, aborted, losses>>
  /\ voronoi' = RenderVoronoi(UpdatedVoronoi, pose)
  /\ NoVolume(UpdatedDiffusion(fails), UpdatedIsoTex(fails), UpdatedSliceTex(fails))

\* A frame that draws the last slice and goes on with the diffusion.
LastVoronoiFrame(fails) ==
  /\ ~aborted
  /\ m_bGenerateVoronoi
  /\ LastSlice(UpdatedVoronoi)
  /\ UpdateBoundingBox(fails)
  /\ UNCHANGED <<pose, view, ui, losses>>
  /\ voronoi' = RenderVoronoi(UpdatedVoronoi, pose)
  /\ m_bGenerateVoronoi' = FALSE
  /\ m_bRender3DTexture' = TRUE
  /\ RenderVolume(TRUE, UpdatedDiffusion(fails), voronoi'.tex,
                  UpdatedIsoTex(fails), UpdatedSliceTex(fails))

\* A frame in which UpdateBoundingBox asks for textures without a texel: the
\* assertion of TextureManager::ItlCreate3DTexture ends the program, and what
\* UpdateBoundingBox has written by then is not read again.
FlatBoxFrame ==
  /\ ~aborted
  /\ m_bGenerateVoronoi
  /\ Rebuild /\ ~HasTexels(NewSize)
  /\ UNCHANGED <<pose, size, todo, view, textures, ui, failures, losses>>
  /\ aborted' = TRUE
  /\ shown' = "none"

\* A frame without Voronoi work.
VolumeFrame ==
  /\ ~aborted
  /\ ~m_bGenerateVoronoi
  /\ m_bRender3DTexture
  /\ UNCHANGED <<pose, size, m_bGenerateVoronoi, m_bRender3DTexture, view, voronoi, ui,
                 failures, losses>>
  /\ RenderVolume(m_bGenerateDiffusion, diffusion, voronoi.tex, isoTex, sliceTex)

\* A frame in which only the surfaces are drawn.
SurfacesFrame ==
  /\ ~aborted
  /\ ~m_bGenerateVoronoi
  /\ ~m_bRender3DTexture
  /\ shown' = "none"
  /\ UNCHANGED <<pose, size, todo, view, textures, ui, failures, aborted, losses>>

Frame ==
  \/ \E fails \in BOOLEAN : VoronoiFrame(fails) \/ LastVoronoiFrame(fails)
  \/ FlatBoxFrame
  \/ VolumeFrame
  \/ SurfacesFrame

\* Mutant: the texture the next pass would write is saved.
SavedVolumeIsTarget ==
  IF m_bRenderIsoSurface THEN isoTex ELSE DiffusionPicture(diffusion.tex[diffusion.cur])

\* What Scene::SaveCurrentVolume writes to the file, whose button is visible
\* with the other controls; saving changes nothing.
SavedVolume ==
  IF m_bRenderIsoSurface THEN isoTex ELSE DiffusionPicture(DiffusionTexture(diffusion))

-----------------------------------------------------------------------------
(* The device                                                              *)

\* The device is lost, or the user chooses another one: OnD3D11DestroyDevice
\* deletes the scene and OnD3D11CreateDevice makes a new one, while the globals
\* and controls of the user interface stay as they are.  If its textures cannot be
\* created the program ends there, and no part of the scene is read again.
DeviceLost ==
  LET d == Depth(NewSceneSize) IN
  /\ ~aborted
  /\ losses < MaxLosses
  /\ losses' = losses + 1
  /\ pose' = InitPose
  /\ m_box' = NewBox
  /\ m_textureSize' = NewSceneSize
  /\ m_bUpdate3DTextures' = TRUE
  /\ m_bGenerateVoronoi' = FALSE
  /\ m_bRender3DTexture' = FALSE
  /\ m_bGenerateDiffusion' = FALSE
  /\ m_bIsoValueChanged' = TRUE
  /\ m_bGenerateOneSliceTexture' = TRUE
  /\ m_bRenderIsoSurface' = FALSE
  /\ m_bDrawAllSlices' = TRUE
  /\ m_bShowVolume' = Uninit
  /\ m_iCurrentSlice' = 64
  /\ m_iDiffusionSteps' = InitSteps
  /\ m_iso' = InitIso
  /\ m_nIsoSurfaceTexture' = Uninit
  /\ m_nOneSliceTexture' = Uninit
  /\ voronoi' = VoronoiUpdate(d)
  /\ diffusion' = DiffusionInit(d)
  /\ isoTex' = IsoPicture(BlankDiffused(d), InitIso)
  /\ sliceTex' = BlankOneSlice(d)
  /\ shown' = "none"
  /\ aborted' = ~CanInitialize
  /\ UNCHANGED <<ui, failures>>

-----------------------------------------------------------------------------
Next == UserEvent \/ Frame \/ DeviceLost

Spec == Init /\ [][Next]_vars

\* DXUTMainLoop renders a frame whenever no message waits.
FairSpec == Spec /\ WF_vars(Frame)

-----------------------------------------------------------------------------
(* Properties                                                              *)

IsPicture(q) ==
  /\ q = [surface |-> q.surface, vol |-> q.vol, iso |-> q.iso]
  /\ q.surface \in BOOLEAN
  /\ q.iso \in IsoSetting

\* Every variable has its type; the slice to draw exists in the Voronoi textures.
TypeOK ==
  /\ pose \in Pose /\ m_box \in Box
  /\ m_textureSize \in Triple /\ Largest(m_textureSize) \in Resolution
  /\ m_bUpdate3DTextures \in BOOLEAN
  /\ m_bGenerateVoronoi \in BOOLEAN /\ m_bRender3DTexture \in BOOLEAN
  /\ m_bGenerateDiffusion \in BOOLEAN /\ m_bIsoValueChanged \in BOOLEAN
  /\ m_bGenerateOneSliceTexture \in BOOLEAN
  /\ m_bRenderIsoSurface \in BOOLEAN /\ m_bDrawAllSlices \in BOOLEAN
  /\ m_bShowVolume \in BOOLEAN \cup {Uninit}
  /\ m_iCurrentSlice \in Int /\ m_iDiffusionSteps \in StepCount /\ m_iso \in IsoSetting
  /\ m_nIsoSurfaceTexture \in {Uninit, "iso"} /\ m_nOneSliceTexture \in {Uninit, "slice"}
  /\ IsVoronoi(voronoi) /\ IsDiffusion(diffusion)
  /\ IsPicture(isoTex)
  /\ g_bCameraActive \in BOOLEAN /\ controls \in BOOLEAN
  /\ g_textureSize \in Triple /\ Largest(g_textureSize) \in Resolution
  /\ g_iTextureMaximum \in Resolution /\ g_iDiffusionSteps \in StepCount
  /\ g_bShowVolume \in BOOLEAN /\ g_bShowIsoSurface \in BOOLEAN /\ g_iso \in IsoSetting
  /\ oneSliceChecked \in BOOLEAN /\ sliceSlider \in SliderPos
  /\ shown \in {Uninit, "none", "diffusion", "iso", "slice"}
  /\ failures \in Nat /\ aborted \in BOOLEAN /\ losses \in Nat

\* Scene's constructor leaves m_bShowVolume, m_nIsoSurfaceTexture and
\* m_nOneSliceTexture uninitialised: Render never decides on the first, nor
\* shows one of the others, before a handler or a frame has written it.
NoUninitialisedRead ==
  /\ m_bRender3DTexture => m_bShowVolume # Uninit
  /\ shown # Uninit

\* Render keeps the isosurface texture across frames.  Whenever the flag says it
\* need not be rendered again, it shows the present diffusion texture at the
\* present isovalue and colour, whatever was regenerated or changed in between.
IsoTextureFresh ==
  ~m_bIsoValueChanged =>
    /\ m_nIsoSurfaceTexture = "iso"
    /\ isoTex = IsoPicture(DiffusionTexture(diffusion), m_iso)

\* RenderVoronoi draws each slice in the box of its frame.  The slices drawn
\* into one pair of textures, over many frames and events, share one box.
SlicesShareBox ==
  \A s \in Slice(voronoi.depth) : voronoi.tex[s] # NoPose => BoxOf[voronoi.tex[s]] = m_box

\* The texture the ping-pong passes read has received as many passes as
\* m_iCurrentDiffusionStep counts, and its chain began with a whole diagram.
PingPong ==
  diffusion.step # 0 =>
    /\ DiffusionTexture(diffusion).passes = diffusion.step
    /\ Drawn(DiffusionTexture(diffusion).src)

\* The state in which a frame hands a texture to the volume renderer.
Presentable == m_bRender3DTexture /\ ~m_bGenerateDiffusion

\* A presentable volume is whole: all slices of its Voronoi diagram were drawn,
\* it has had at least the passes the slider asks for, and neither generator
\* is in the middle of its work.
PresentableIsWhole ==
  Presentable =>
    /\ ~m_bGenerateVoronoi /\ voronoi.slice = 0 /\ diffusion.step = 0
    /\ Drawn(DiffusionTexture(diffusion).src)
    /\ DiffusionTexture(diffusion).passes >= m_iDiffusionSteps

\* Volume ray casting, Voronoi diagram and diffusion work on textures of one
\* size while a volume is generated or shown, although the resolution slider
\* changes the scene's sizes at once and the renderers' only in a later frame.
SizesAgree ==
  /\ diffusion.vb => diffusion.depth = voronoi.depth
  /\ m_bRender3DTexture => Depth(m_textureSize) = voronoi.depth
  /\ m_textureSize = SizeFor[m_box][Largest(m_textureSize)]

\* Only three things let an assertion end the program, after any sequence of
\* events: a call that failed while the slice buffers were made anew, surfaces so
\* flat that their textures would have no texel, and a device lost while the user
\* interface knows the size of such surfaces, whichever the scene has by then.
AbortsExplained ==
  /\ ~diffusion.vb => failures > 0
  /\ aborted => \/ ~diffusion.vb
                \/ ~HasTexels(NewSize)
                \/ losses > 0 /\ ~HasTexels(g_textureSize)

\* UpdateBoundingBox computes each size from the one before and rounds it.
\* Nothing adds up: after any sequence of boxes, resolutions, failures and lost
\* devices the largest side has the texels the slider asks for, also in the
\* copy of the user interface from which the next device's scene is made.
ResolutionKept ==
  /\ Largest(m_textureSize) = g_iTextureMaximum
  /\ Largest(g_textureSize) = g_iTextureMaximum

\* Once the volume is made and the isosurface, if it is asked for, was extracted,
\* the button saves the whole present volume, whatever the user did in between.
SavesTheVolume ==
  Presentable /\ ~IsoSurfaceDue =>
    /\ Drawn(SavedVolume.vol.src)
    /\ SavedVolume.vol.passes >= m_iDiffusionSteps
    /\ SavedVolume = IF m_bRenderIsoSurface THEN IsoPicture(DiffusionTexture(diffusion), m_iso)
                     ELSE DiffusionPicture(DiffusionTexture(diffusion))

\* The texture VolumeRenderer::Render got, when it is not the one-slice texture.
ShownPicture == IF shown = "iso" THEN isoTex ELSE DiffusionPicture(DiffusionTexture(diffusion))

\* The program keeps every setting twice, in its globals and in Scene, and each
\* picture is made many frames after it was set.  The volume on the screen is the
\* one the controls describe.  (A lost device resets Scene, not the controls.)
ShownAsSet ==
  [][shown' \in {"diffusion", "iso"} /\ losses = 0 /\ Frame =>
       /\ g_bShowVolume /\ ~oneSliceChecked
       /\ ShownPicture'.surface = g_bShowIsoSurface
       /\ g_bShowIsoSurface => ShownPicture'.iso = g_iso
       /\ ShownPicture'.vol.passes >= g_iDiffusionSteps]_vars

\* A frame shows a texture only in a presentable state: never half-diffused
\* voxels, and nothing while Voronoi slices are drawn.
ShownWhenPresentable == [][Frame /\ shown' # "none" => Presentable']_vars

\* The frames Render still needs for the volume it is making: one for each slice
\* it has to draw, one for each pass, and the one that shows the volume, which
\* comes with the last slice if no pass is left and else after the last pass,
\* while the first pass comes with the last slice.
Generating == m_bGenerateVoronoi \/ (m_bRender3DTexture /\ m_bGenerateDiffusion)

SlicesLeft == IF Rebuild THEN NewDepth ELSE voronoi.depth - voronoi.slice

PassesLeft ==
  LET step == IF m_bGenerateVoronoi /\ Rebuild THEN 0 ELSE diffusion.step
  IN IF step < m_iDiffusionSteps THEN m_iDiffusionSteps - step ELSE 0

FramesLeft == PassesLeft + (IF m_bGenerateVoronoi THEN SlicesLeft ELSE 1)

\* No frame's work is lost: whatever handlers ran since the last one, each frame
\* of a visible volume in which no call fails brings it one frame nearer, and
\* the frame that has nothing left after it shows it.
FramesCountDown ==
  [][Frame /\ Generating /\ m_bShowVolume = TRUE /\ failures' = failures /\ ~aborted' =>
       IF FramesLeft = 1 THEN ~Generating' /\ shown' # "none"
       ELSE Generating' /\ FramesLeft' = FramesLeft - 1 /\ shown' = "none"]_vars

\* Once the user leaves the program alone, a diagram asked for with "Diffuse!"
\* ends up on the screen, unless the user hid the volume, a call failed, the
\* device was lost with the request, or the box was too flat for a texture.
DiffuseIsShown ==
  <>[][Frame]_vars =>
    (m_bGenerateVoronoi ~>
       shown # "none" \/ ~controls \/ m_bShowVolume = FALSE
         \/ failures > 0 \/ losses > 0 \/ aborted)

-----------------------------------------------------------------------------
(* The inductive invariant behind the safety properties                    *)

\* Render3DTexture(false) and the restart of the generation keep a texture off
\* the screen while slices are drawn; a completed frame turns it on.
HiddenWhileGenerating == m_bGenerateVoronoi => ~m_bRender3DTexture

\* Without a resize to come, the scene's depth is the renderers' depth.
ResizedOrPending == m_bUpdate3DTextures => Depth(m_textureSize) = voronoi.depth

\* Pending generation has marked the isosurface as outdated beforehand.
GenerationOutdatesIso == m_bGenerateVoronoi \/ m_bGenerateDiffusion => m_bIsoValueChanged

\* A generator in the middle of its work is due to go on.
StepIsPending == diffusion.step # 0 => m_bGenerateDiffusion \/ m_bGenerateVoronoi
SliceIsPending == voronoi.slice # 0 => m_bGenerateVoronoi

\* Every handler passes its setting on, so the two copies are equal; the globals
\* do not know that Scene's visibility was never initialised.
SettingsAgree ==
  losses = 0 =>
    /\ m_bRenderIsoSurface = g_bShowIsoSurface
    /\ m_iso = g_iso
    /\ m_iDiffusionSteps = g_iDiffusionSteps
    /\ m_bDrawAllSlices = ~oneSliceChecked
    /\ m_bShowVolume # Uninit => m_bShowVolume = g_bShowVolume

\* What was written before it may be read.
WrittenFirst ==
  /\ m_bGenerateVoronoi \/ m_bRender3DTexture => m_bShowVolume # Uninit
  /\ ~m_bGenerateOneSliceTexture => m_nOneSliceTexture = "slice"

\* The slices before the next one were drawn, and all of them when no diagram
\* is being generated and the 3D texture is rendered.
DrawnSoFar ==
  /\ \A s \in Slice(voronoi.slice) : voronoi.tex[s] # NoPose
  /\ m_bRender3DTexture => Drawn(voronoi.tex)

IInv ==
  /\ TypeOK
  /\ HiddenWhileGenerating /\ ResizedOrPending /\ GenerationOutdatesIso
  /\ StepIsPending /\ SliceIsPending
  /\ WrittenFirst /\ DrawnSoFar
  /\ NoUninitialisedRead /\ IsoTextureFresh /\ SlicesShareBox
  /\ PingPong /\ PresentableIsWhole /\ SizesAgree /\ ResolutionKept
  /\ SettingsAgree

-----------------------------------------------------------------------------
(* What the flags of Scene amount to for the user                          *)

Stage ==
  IF m_bGenerateVoronoi THEN "drawing"
  ELSE IF ~m_bRender3DTexture THEN "surfaces"
  ELSE IF m_bGenerateDiffusion THEN "diffusing"
  ELSE "presentable"

View == INSTANCE VolumeView WITH stage <- Stage, onScreen <- (shown # "none")

\* Scene implements VolumeView: through all interleavings of handlers and frames
\* its five flags amount to one volume that is drawn, diffused and only then
\* shown, and that comes back after it was hidden only when asked for.
ImplementsView == View!Spec

-----------------------------------------------------------------------------
(* Statements of the source that the code does not keep                    *)

\* "As first resource texture you have to use the voronoi texture"
\* (Diffusion.cpp:291): what a frame shows was diffused from the diagram that
\* was generated last.
DiffusedFromVoronoi ==
  [][Frame /\ shown' # "none" => DiffusionTexture(diffusion').src = voronoi'.tex]_vars

\* "Change the scene so only one slice of the 3D texture is shown" (Scene.h:86):
\* a slice of the texture is coloured ...
OneSliceIsShown == [][Frame /\ shown' = "slice" => sliceTex'.coloured # {}]_vars

\* ... and it is a slice of the present texture.
OneSliceIsPresent ==
  [][Frame /\ shown' = "slice" =>
       sliceTex'.of = IF m_bRenderIsoSurface THEN isoTex'
                      ELSE DiffusionPicture(DiffusionTexture(diffusion'))]_vars

\* "true, if the 3D texture should be visible, else false" (Scene.h:139): after
\* Render3DTexture(false) no texture is shown until the next "Diffuse!".
HiddenStaysHidden == [][Frame /\ shown' # "none" => controls]_vars

\* "assert(m_pSlicesVB)" (Diffusion.cpp:272) and its siblings hold.
AssertionsHold == ~aborted
=============================================================================
