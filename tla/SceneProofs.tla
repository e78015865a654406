---------------------------- MODULE SceneProofs ----------------------------
(***************************************************************************)
(* Proofs that the scene's safety properties hold for every value of the   *)
(* constants.                                                              *)
(***************************************************************************)
EXTENDS Scene, TextureSizeProofs

-----------------------------------------------------------------------------
(* The operators of the two generators                                     *)

\* A rebuilt Voronoi object starts with its first slice and nothing drawn.
LEMMA VoronoiUpdateIsVoronoi ==
  ASSUME NEW d \in Nat \ {0}
  PROVE  /\ IsVoronoi(VoronoiUpdate(d))
         /\ VoronoiUpdate(d).depth = d /\ VoronoiUpdate(d).slice = 0
         /\ \A s \in Slice(d) : VoronoiUpdate(d).tex[s] = NoPose
BY DEF IsVoronoi, VoronoiUpdate, BlankVolume, Volume, Slice

\* RenderVoronoi stays within the textures and changes one slice.
LEMMA RenderVoronoiIsVoronoi ==
  ASSUME NEW v, IsVoronoi(v), NEW q \in Pose
  PROVE  LET w == RenderVoronoi(v, q) IN
         /\ IsVoronoi(w)
         /\ w.depth = v.depth
         /\ w.slice = IF LastSlice(v) THEN 0 ELSE v.slice + 1
         /\ \A s \in Slice(v.depth) : w.tex[s] = IF s = v.slice THEN q ELSE v.tex[s]
         /\ DOMAIN w.tex = Slice(v.depth)
BY DEF IsVoronoi, RenderVoronoi, LastSlice, Volume, Slice

\* After the last slice of a volume whose earlier slices were drawn, it is whole.
LEMMA LastSliceCompletes ==
  ASSUME NEW v, IsVoronoi(v), NEW q \in Pose, LastSlice(v),
         \A s \in Slice(v.slice) : v.tex[s] # NoPose
  PROVE  Drawn(RenderVoronoi(v, q).tex)
<1> DEFINE w == RenderVoronoi(v, q)
<1>1. /\ \A s \in Slice(v.depth) : w.tex[s] = IF s = v.slice THEN q ELSE v.tex[s]
      /\ DOMAIN w.tex = Slice(v.depth)
  BY RenderVoronoiIsVoronoi
<1>2. \A s \in Slice(v.depth) : s = v.slice \/ s \in Slice(v.slice)
  BY DEF Slice, LastSlice, IsVoronoi
<1>3. QED  BY <1>1, <1>2, PoseAssumption DEF Drawn

\* Initialize leaves a Diffusion object at its first step.
LEMMA DiffusionInitIsDiffusion ==
  ASSUME NEW d \in Nat \ {0}
  PROVE  /\ IsDiffusion(DiffusionInit(d)) /\ DiffusionInit(d).depth = d
         /\ DiffusionInit(d).step = 0
BY DEF IsDiffusion, DiffusionInit

\* Update and its failure leave a Diffusion object; a successful
\* update puts it at its first step, a failing one keeps step and textures.
LEMMA DiffusionUpdates ==
  ASSUME NEW f, IsDiffusion(f), NEW d \in Nat \ {0}
  PROVE  /\ IsDiffusion(DiffusionUpdate(f, d)) /\ DiffusionUpdate(f, d).depth = d
         /\ DiffusionUpdate(f, d).step = 0
         /\ IsDiffusion(DiffusionUpdateFails(f, d))
         /\ ~DiffusionUpdateFails(f, d).vb
         /\ DiffusionUpdateFails(f, d).step = f.step
         /\ DiffusionUpdateFails(f, d).depth = d
         /\ DiffusionTexture(DiffusionUpdateFails(f, d)) = DiffusionTexture(f)
BY DEF IsDiffusion, DiffusionUpdate, DiffusionUpdateFails, DiffusionTexture

\* A pass writes the texture GetDiffusionTexture returns next: one more pass
\* than the texture it read, on the same diagram, or the first on a new one.
LEMMA DiffusePassResult ==
  ASSUME NEW f, IsDiffusion(f), NEW vol
  PROVE  LET g == DiffusePass(f, vol) IN
         /\ IsDiffusion(g)
         /\ g.depth = f.depth /\ g.vb = f.vb /\ g.step = f.step + 1
         /\ f.step = 0 => DiffusionTexture(g) = [src |-> vol, passes |-> 1]
         /\ f.step # 0 => DiffusionTexture(g) = [src |-> DiffusionTexture(f).src,
                                                 passes |-> DiffusionTexture(f).passes + 1]
BY DEF IsDiffusion, DiffusePass, DiffusionTexture

\* The end of the diffusion changes no texture.
LEMMA DiffuseFinishResult ==
  ASSUME NEW f, IsDiffusion(f)
  PROVE  LET g == DiffuseFinish(f) IN
         /\ IsDiffusion(g)
         /\ g.depth = f.depth /\ g.vb = f.vb /\ g.step = 0
         /\ DiffusionTexture(g) = DiffusionTexture(f)
BY DEF IsDiffusion, DiffuseFinish, DiffusionTexture

-----------------------------------------------------------------------------
(* Events and frames preserve the inductive invariant                      *)

\* The table of texture sizes keeps the resolution.
LEMMA SizeForResult ==
  ASSUME NEW b \in Box, NEW r \in Resolution
  PROVE  SizeFor[b][r] \in Triple /\ Largest(SizeFor[b][r]) = r
<1>1. SizeFor[b][r] = SizeOf(Extent[b], r)  BY DEF SizeFor
<1>2. Extent[b] \in Triple /\ Largest(Extent[b]) # 0 /\ r \in Nat  BY SceneAssumption
<1>3. QED  BY <1>1, <1>2, LargestIsResolution

\* What the rest of the program is like when a scene is made: its settings are
\* those of a new scene, unless a device was lost before.
RestOK ==
  /\ g_bCameraActive \in BOOLEAN /\ controls \in BOOLEAN
  /\ g_textureSize \in Triple /\ Largest(g_textureSize) \in Resolution
  /\ g_iTextureMaximum \in Resolution /\ g_iDiffusionSteps \in StepCount
  /\ g_bShowVolume \in BOOLEAN /\ g_bShowIsoSurface \in BOOLEAN /\ g_iso \in IsoSetting
  /\ oneSliceChecked \in BOOLEAN /\ sliceSlider \in SliderPos
  /\ failures \in Nat /\ aborted \in BOOLEAN /\ losses \in Nat
  /\ Largest(g_textureSize) = g_iTextureMaximum
  /\ losses = 0 =>
       /\ g_bShowIsoSurface = FALSE /\ g_iso = InitIso
       /\ g_iDiffusionSteps = InitSteps /\ oneSliceChecked = FALSE

\* The scene OnD3D11CreateDevice makes, for the first time or after a loss,
\* satisfies the invariant.
LEMMA NewSceneIInv == NewScene /\ RestOK => IInv
<1> SUFFICES ASSUME NewScene, RestOK PROVE IInv  OBVIOUS
<1> DEFINE d == Depth(NewSceneSize)
<1>0. /\ NewBox \in Box /\ Largest(g_textureSize) \in Resolution
      /\ NewSceneSize = SizeOf(Extent[BoxOf[InitPose]], Largest(g_textureSize))
  BY SceneAssumption DEF NewBox, NewSceneSize, SizeFor, RestOK
<1>1. /\ NewSceneSize \in Triple
      /\ Largest(NewSceneSize) = Largest(g_textureSize)
      /\ d \in Nat \ {0}
  <2>1. NewSceneSize \in Triple /\ Largest(NewSceneSize) = Largest(g_textureSize)
    BY <1>0, SizeForResult DEF NewSceneSize
  <2>2. HasTexels(NewSceneSize)  BY <1>0, SceneAssumption
  <2>3. QED  BY <2>1, <2>2 DEF HasTexels, Depth, Triple
<1>2. /\ IsVoronoi(voronoi) /\ voronoi.depth = d /\ voronoi.slice = 0
      /\ \A s \in Slice(d) : voronoi.tex[s] = NoPose
  BY <1>1, VoronoiUpdateIsVoronoi DEF NewScene
<1>3. IsDiffusion(diffusion) /\ diffusion.depth = d /\ diffusion.step = 0
  BY <1>1, DiffusionInitIsDiffusion DEF NewScene
<1>4. TypeOK
  <2>1. FALSE \in BOOLEAN  BY Zenon
  <2>2. m_iso \in IsoSetting  BY <2>1, IsoAssumption, Zenon DEF NewScene, InitIso, IsoSetting
  <2>3. IsPicture(isoTex)  BY <2>2 DEF NewScene, IsPicture, IsoPicture
  <2>4. /\ pose \in Pose /\ m_box \in Box
        /\ m_textureSize \in Triple /\ Largest(m_textureSize) \in Resolution
        /\ m_iCurrentSlice \in Int /\ m_iDiffusionSteps \in StepCount
    BY <1>0, <1>1, SceneAssumption DEF NewScene
  <2>5. /\ m_bGenerateVoronoi \in BOOLEAN /\ m_bRender3DTexture \in BOOLEAN
        /\ m_bGenerateDiffusion \in BOOLEAN /\ m_bRenderIsoSurface \in BOOLEAN
        /\ m_bUpdate3DTextures \in BOOLEAN /\ m_bIsoValueChanged \in BOOLEAN
        /\ m_bGenerateOneSliceTexture \in BOOLEAN /\ m_bDrawAllSlices \in BOOLEAN
        /\ m_bShowVolume \in BOOLEAN \cup {Uninit} /\ m_nIsoSurfaceTexture \in {Uninit, "iso"}
        /\ m_nOneSliceTexture \in {Uninit, "slice"}
        /\ shown \in {Uninit, "none", "diffusion", "iso", "slice"}
    BY Zenon DEF NewScene
  <2>6. QED
    BY <1>2, <1>3, <2>2, <2>3, <2>4, <2>5, Zenon DEF TypeOK, RestOK
<1>5. ResizedOrPending /\ SizesAgree /\ ResolutionKept
  <2>1. m_textureSize = NewSceneSize /\ m_box = NewBox  BY DEF NewScene
  <2>2. m_textureSize = SizeFor[m_box][Largest(m_textureSize)]
    BY <1>1, <2>1 DEF NewSceneSize
  <2>3. Largest(m_textureSize) = g_iTextureMaximum /\ Largest(g_textureSize) = g_iTextureMaximum
    BY <1>1, <2>1 DEF RestOK
  <2>4. QED
    BY <1>2, <1>3, <2>1, <2>2, <2>3 DEF NewScene, ResizedOrPending, SizesAgree, ResolutionKept
<1>6. SettingsAgree
  <2>1. /\ m_bRenderIsoSurface = FALSE /\ m_iso = InitIso /\ m_iDiffusionSteps = InitSteps
        /\ m_bDrawAllSlices = TRUE /\ m_bShowVolume = Uninit
    BY DEF NewScene
  <2>2. QED  BY <2>1, Zenon DEF SettingsAgree, RestOK
<1>7. QED
  BY <1>2, <1>3, <1>4, <1>5, <1>6, SceneAssumption
     DEF NewScene, IInv, HiddenWhileGenerating, GenerationOutdatesIso,
         StepIsPending, SliceIsPending, WrittenFirst, DrawnSoFar, Slice, NoUninitialisedRead,
         IsoTextureFresh, SlicesShareBox, PingPong, PresentableIsWhole, Presentable

\* The program starts with its first scene.
LEMMA InitIInv == Init => IInv
<1> SUFFICES ASSUME Init PROVE NewScene /\ RestOK  BY NewSceneIInv
<1>1. /\ g_bCameraActive \in BOOLEAN /\ controls \in BOOLEAN /\ g_bShowVolume \in BOOLEAN
      /\ g_bShowIsoSurface \in BOOLEAN /\ oneSliceChecked \in BOOLEAN /\ aborted \in BOOLEAN
      /\ g_bShowIsoSurface = FALSE /\ oneSliceChecked = FALSE
  BY Zenon DEF Init
<1>2. g_iso \in IsoSetting
  <2>1. FALSE \in BOOLEAN  BY Zenon
  <2>2. QED  BY <2>1, IsoAssumption, Zenon DEF Init, InitIso, IsoSetting
<1>3. /\ g_textureSize \in Triple /\ Largest(g_textureSize) = InitResolution
      /\ InitResolution \in Resolution
  BY SceneAssumption DEF Init, Triple, Largest, Larger
<1>4. QED  BY <1>1, <1>2, <1>3, SceneAssumption DEF Init, RestOK

\* A lost device leaves a new scene to the old user interface.
LEMMA DeviceLostIInv == IInv /\ DeviceLost => IInv'
<1> SUFFICES ASSUME IInv, DeviceLost PROVE IInv'  OBVIOUS
<1>1. g_textureSize' = g_textureSize  BY DEF DeviceLost, ui
<1>2. NewScene'
  <2>1. NewSceneSize' = NewSceneSize  BY <1>1 DEF NewSceneSize
  <2>2. QED  BY <2>1, Zenon DEF DeviceLost, NewScene
<1>3. RestOK'
  <2>1. losses' # 0 /\ losses' \in Nat  BY DEF DeviceLost, IInv, TypeOK
  <2>2. UNCHANGED <<ui, failures>>  BY DEF DeviceLost
  <2>3. aborted' \in BOOLEAN  BY Zenon DEF DeviceLost
  <2>4. QED
    BY <2>1, <2>2, <2>3 DEF IInv, TypeOK, ResolutionKept, RestOK, ui, settings
<1>4. NewScene' /\ RestOK' => IInv'  BY NewSceneIInv, PTL
<1>5. QED  BY <1>2, <1>3, <1>4

\* The handlers of the user interface write values of the variables' types.
LEMMA UserEventTypeOK == TypeOK /\ UserEvent => TypeOK'
<1> SUFFICES ASSUME TypeOK, UserEvent PROVE TypeOK'  OBVIOUS
<1> USE SceneAssumption
    DEF TypeOK, size, todo, view, textures, settings, ui, result, Message, SlicesOnly
<1>0. TRUE \in BOOLEAN /\ FALSE \in BOOLEAN  BY Zenon
<1>1. ASSUME NEW p \in Pose, OnMouseEvent(p) PROVE TypeOK'
  BY <1>1 DEF OnMouseEvent
<1>2. ASSUME NEW p \in Pose, LoadSurface(p) PROVE TypeOK'
  <2>1. controls' \in BOOLEAN /\ m_bRender3DTexture' \in BOOLEAN
    BY <1>2, Zenon DEF LoadSurface, HideVolume
  <2>2. QED  BY <1>2, <2>1 DEF LoadSurface, HideVolume
<1>3. ASSUME NEW p \in Pose, LoadSurfaceFails(p) PROVE TypeOK'
  BY <1>3 DEF LoadSurfaceFails
<1>4. CASE RotateOrMove
  <2>1. controls' \in BOOLEAN /\ m_bRender3DTexture' \in BOOLEAN /\ g_bCameraActive' \in BOOLEAN
    BY <1>4, Zenon DEF RotateOrMove, HideVolume
  <2>2. QED  BY <1>4, <2>1 DEF RotateOrMove, HideVolume
<1>5. CASE Camera
  BY <1>5 DEF Camera
<1>6. ASSUME NEW r \in Resolution, TextureResolution(r) PROVE TypeOK'
  <2>1. controls' \in BOOLEAN /\ m_bRender3DTexture' \in BOOLEAN /\ m_bUpdate3DTextures' \in BOOLEAN
    BY <1>6, Zenon DEF TextureResolution, HideVolume
  <2>2. m_textureSize' \in Triple /\ Largest(m_textureSize') = r /\ g_textureSize' = m_textureSize'
    BY <1>6, SizeForResult DEF TextureResolution
  <2>3. QED  BY <1>6, <2>1, <2>2 DEF TextureResolution, HideVolume
<1>7. CASE AllSlices
  <2>1. m_bDrawAllSlices' \in BOOLEAN /\ m_bGenerateOneSliceTexture' \in BOOLEAN
        /\ oneSliceChecked' \in BOOLEAN
    BY <1>7, Zenon DEF AllSlices
  <2>2. QED  BY <1>7, <2>1 DEF AllSlices
<1>8. CASE OneSlice
  <2>1. m_bDrawAllSlices' \in BOOLEAN /\ m_bGenerateOneSliceTexture' \in BOOLEAN
        /\ oneSliceChecked' \in BOOLEAN
    BY <1>8, Zenon DEF OneSlice, ChangeRenderingToOneSlice
  <2>2. m_iCurrentSlice' \in Int
    <3>1. Depth(g_textureSize) \in Nat /\ sliceSlider \in Nat  BY DEF Depth, Triple
    <3>2. QED  BY <1>8, <3>1 DEF OneSlice, ChangeRenderingToOneSlice, Percent
  <2>3. QED  BY <1>8, <2>1, <2>2 DEF OneSlice, ChangeRenderingToOneSlice
<1>9. ASSUME NEW v \in SliderPos, SliceIndex(v) PROVE TypeOK'
  <2>1. m_bDrawAllSlices' \in BOOLEAN /\ m_bGenerateOneSliceTexture' \in BOOLEAN
    BY <1>9, Zenon DEF SliceIndex, ChangeRenderingToOneSlice
  <2>2. m_iCurrentSlice' \in Int
    <3>1. Depth(g_textureSize) \in Nat /\ v \in Nat  BY DEF Depth, Triple
    <3>2. QED  BY <1>9, <3>1 DEF SliceIndex, ChangeRenderingToOneSlice, Percent
  <2>3. QED  BY <1>9, <2>1, <2>2 DEF SliceIndex, ChangeRenderingToOneSlice
<1>10. CASE ShowVolume
  <2>1. g_bShowVolume' \in BOOLEAN /\ m_bShowVolume' \in BOOLEAN  BY <1>10, Zenon DEF ShowVolume
  <2>2. QED  BY <1>10, <2>1 DEF ShowVolume
<1>11. CASE Diffuse
  <2>1. /\ controls' \in BOOLEAN /\ g_bCameraActive' \in BOOLEAN /\ g_bShowVolume' \in BOOLEAN
        /\ m_bShowVolume' \in BOOLEAN /\ m_bGenerateVoronoi' \in BOOLEAN
        /\ m_bGenerateDiffusion' \in BOOLEAN /\ m_bIsoValueChanged' \in BOOLEAN
        /\ m_bRender3DTexture' \in BOOLEAN
    BY <1>11, Zenon DEF Diffuse
  <2>2. QED  BY <1>11, <2>1 DEF Diffuse
<1>12. ASSUME NEW n \in StepCount, DiffusionSteps(n) PROVE TypeOK'
  <2>1. /\ m_bGenerateDiffusion' \in BOOLEAN /\ m_bIsoValueChanged' \in BOOLEAN
        /\ m_bGenerateOneSliceTexture' \in BOOLEAN
    BY <1>12, Zenon DEF DiffusionSteps
  <2>2. QED  BY <1>12, <2>1 DEF DiffusionSteps
<1>13. CASE IsoCheck
  <2>1. /\ g_bShowIsoSurface' \in BOOLEAN /\ m_bRenderIsoSurface' \in BOOLEAN
        /\ m_bIsoValueChanged' \in BOOLEAN /\ m_bGenerateOneSliceTexture' \in BOOLEAN
    BY <1>13, Zenon DEF IsoCheck, IsoChanged
  <2>2. QED  BY <1>13, <2>1 DEF IsoCheck, IsoChanged
<1>14. ASSUME NEW x \in IsoValue, IsoSlider(x) PROVE TypeOK'
  <2>1. m_bIsoValueChanged' \in BOOLEAN /\ m_bGenerateOneSliceTexture' \in BOOLEAN
    BY <1>14, Zenon DEF IsoSlider, IsoChanged
  <2>2. m_iso' \in IsoSetting /\ g_iso' \in IsoSetting
    BY <1>14 DEF IsoSlider, IsoSetting
  <2>3. QED  BY <1>14, <2>1, <2>2 DEF IsoSlider, IsoChanged
<1>15. CASE IsoColor
  <2>1. m_bIsoValueChanged' \in BOOLEAN /\ m_bGenerateOneSliceTexture' \in BOOLEAN
    BY <1>15, Zenon DEF IsoColor, IsoChanged
  <2>2. m_iso' \in IsoSetting /\ g_iso' \in IsoSetting
    <3>1. \A q \in IsoSetting, c \in BOOLEAN : [q EXCEPT !.color = c] \in IsoSetting
      BY DEF IsoSetting
    <3>2. (~g_iso.color) \in BOOLEAN  BY Zenon
    <3>3. g_iso' = [g_iso EXCEPT !.color = ~g_iso.color] /\ g_iso' \in IsoSetting
      BY <1>15, <3>1, <3>2 DEF IsoColor
    <3>4. g_iso'.color \in BOOLEAN  BY <3>3 DEF IsoSetting
    <3>5. QED  BY <1>15, <3>1, <3>3, <3>4 DEF IsoColor
  <2>3. QED  BY <1>15, <2>1, <2>2 DEF IsoColor, IsoChanged
<1>16. QED
  BY <1>1, <1>2, <1>3, <1>4, <1>5, <1>6, <1>7, <1>8, <1>9, <1>10, <1>11, <1>12, <1>13,
     <1>14, <1>15 DEF UserEvent

\* They pass every setting on, and keep the resolution.
LEMMA UserEventSettings ==
  IInv /\ UserEvent => SettingsAgree' /\ ResolutionKept' /\ losses' = losses
<1> SUFFICES ASSUME IInv, UserEvent
             PROVE  SettingsAgree' /\ ResolutionKept' /\ losses' = losses
  OBVIOUS
<1>0. SettingsAgree /\ ResolutionKept /\ TypeOK /\ Uninit \notin BOOLEAN
  BY SceneAssumption DEF IInv
<1> USE <1>0 DEF SettingsAgree, ResolutionKept, size, todo, view, textures, settings, ui, result,
        Message, SlicesOnly
<1>1. ASSUME NEW p \in Pose, OnMouseEvent(p)
      PROVE  SettingsAgree' /\ ResolutionKept' /\ losses' = losses
  BY <1>1 DEF OnMouseEvent
<1>2. ASSUME NEW p \in Pose, LoadSurface(p)
      PROVE  SettingsAgree' /\ ResolutionKept' /\ losses' = losses
  BY <1>2 DEF LoadSurface
<1>3. ASSUME NEW p \in Pose, LoadSurfaceFails(p)
      PROVE  SettingsAgree' /\ ResolutionKept' /\ losses' = losses
  BY <1>3 DEF LoadSurfaceFails
<1>4. CASE RotateOrMove
  BY <1>4 DEF RotateOrMove
<1>5. CASE Camera
  BY <1>5 DEF Camera
<1>6. ASSUME NEW r \in Resolution, TextureResolution(r)
      PROVE  SettingsAgree' /\ ResolutionKept' /\ losses' = losses
  <2>1. Largest(m_textureSize') = r /\ g_textureSize' = m_textureSize' /\ g_iTextureMaximum' = r
    BY <1>6, SizeForResult DEF TextureResolution, TypeOK
  <2>2. QED  BY <1>6, <2>1 DEF TextureResolution
<1>7. CASE AllSlices
  BY <1>7, Zenon DEF AllSlices
<1>8. CASE OneSlice
  BY <1>8, Zenon DEF OneSlice, ChangeRenderingToOneSlice
<1>9. ASSUME NEW v \in SliderPos, SliceIndex(v)
      PROVE  SettingsAgree' /\ ResolutionKept' /\ losses' = losses
  <2>1. losses = 0 => m_bDrawAllSlices' = ~oneSliceChecked'
    BY <1>9, Zenon DEF SliceIndex, ChangeRenderingToOneSlice
  <2>2. QED  BY <1>9, <2>1 DEF SliceIndex, ChangeRenderingToOneSlice
<1>10. CASE ShowVolume
  BY <1>10 DEF ShowVolume
<1>11. CASE Diffuse
  BY <1>11 DEF Diffuse
<1>12. ASSUME NEW n \in StepCount, DiffusionSteps(n)
       PROVE  SettingsAgree' /\ ResolutionKept' /\ losses' = losses
  BY <1>12 DEF DiffusionSteps
<1>13. CASE IsoCheck
  BY <1>13 DEF IsoCheck, IsoChanged
<1>14. ASSUME NEW x \in IsoValue, IsoSlider(x)
       PROVE  SettingsAgree' /\ ResolutionKept' /\ losses' = losses
  BY <1>14 DEF IsoSlider, IsoChanged
<1>15. CASE IsoColor
  <2>1. losses = 0 => m_iso' = g_iso'
    <3>1. \A c : [g_iso EXCEPT !.color = [g_iso EXCEPT !.color = c].color]
                   = [g_iso EXCEPT !.color = c]
      BY DEF TypeOK, IsoSetting
    <3>2. QED  BY <1>15, <3>1 DEF IsoColor
  <2>2. QED  BY <1>15, <2>1 DEF IsoColor, IsoChanged
<1>16. QED
  BY <1>1, <1>2, <1>3, <1>4, <1>5, <1>6, <1>7, <1>8, <1>9, <1>10, <1>11, <1>12, <1>13,
     <1>14, <1>15 DEF UserEvent

\* They touch no texture, and mark what they outdate.
LEMMA UserEventIInv == IInv /\ UserEvent => IInv'
<1> SUFFICES ASSUME IInv, UserEvent PROVE IInv'  OBVIOUS
<1>0. TypeOK' /\ SettingsAgree' /\ ResolutionKept'
  BY UserEventTypeOK, UserEventSettings DEF IInv
<1> USE <1>0, SceneAssumption DEF IInv, HiddenWhileGenerating, ResizedOrPending,
      GenerationOutdatesIso, StepIsPending, SliceIsPending, WrittenFirst, DrawnSoFar,
      NoUninitialisedRead, IsoTextureFresh, SlicesShareBox, PingPong, PresentableIsWhole,
      Presentable, SizesAgree, size, todo, view, textures, settings, ui, result, Message,
      SlicesOnly
<1>1. ASSUME NEW p \in Pose, OnMouseEvent(p) PROVE IInv'
  BY <1>1 DEF OnMouseEvent
<1>2. ASSUME NEW p \in Pose, LoadSurface(p) PROVE IInv'
  BY <1>2 DEF LoadSurface, HideVolume
<1>3. ASSUME NEW p \in Pose, LoadSurfaceFails(p) PROVE IInv'
  BY <1>3 DEF LoadSurfaceFails
<1>4. CASE RotateOrMove
  BY <1>4 DEF RotateOrMove, HideVolume
<1>5. CASE Camera
  BY <1>5 DEF Camera
<1>6. ASSUME NEW r \in Resolution, TextureResolution(r) PROVE IInv'
  <2>1. m_textureSize' = SizeFor[m_box'][Largest(m_textureSize')]
    BY <1>6, SizeForResult DEF TextureResolution, TypeOK
  <2>2. QED  BY <1>6, <2>1 DEF TextureResolution, HideVolume
<1>7. CASE AllSlices
  BY <1>7 DEF AllSlices
<1>8. CASE OneSlice
  BY <1>8 DEF OneSlice, ChangeRenderingToOneSlice
<1>9. ASSUME NEW v \in SliderPos, SliceIndex(v) PROVE IInv'
  BY <1>9 DEF SliceIndex, ChangeRenderingToOneSlice
<1>10. CASE ShowVolume
  BY <1>10, <1>0 DEF ShowVolume, TypeOK
<1>11. CASE Diffuse
  BY <1>11 DEF Diffuse
<1>12. ASSUME NEW n \in StepCount, DiffusionSteps(n) PROVE IInv'
  BY <1>12 DEF DiffusionSteps
<1>13. CASE IsoCheck
  BY <1>13 DEF IsoCheck, IsoChanged
<1>14. ASSUME NEW x \in IsoValue, IsoSlider(x) PROVE IInv'
  BY <1>14 DEF IsoSlider, IsoChanged
<1>15. CASE IsoColor
  BY <1>15 DEF IsoColor, IsoChanged
<1>16. QED
  BY <1>1, <1>2, <1>3, <1>4, <1>5, <1>6, <1>7, <1>8, <1>9, <1>10, <1>11, <1>12, <1>13,
     <1>14, <1>15 DEF UserEvent

\* After ShowTexture the textures that the frame needed are written and fresh.
LEMMA ShowTextureResult ==
  ASSUME TypeOK, WrittenFirst, UNCHANGED view,
         NEW dif, NEW iso, IsPicture(iso), NEW slice,
         ~m_bIsoValueChanged =>
            m_nIsoSurfaceTexture = "iso" /\ iso = IsoPicture(DiffusionTexture(dif), m_iso),
         ShowTexture(dif, iso, slice)
  PROVE  /\ diffusion' = dif
         /\ IsPicture(isoTex')
         /\ m_bIsoValueChanged' \in BOOLEAN /\ m_bGenerateOneSliceTexture' \in BOOLEAN
         /\ m_nIsoSurfaceTexture' \in {Uninit, "iso"} /\ m_nOneSliceTexture' \in {Uninit, "slice"}
         /\ shown' \in {"diffusion", "iso", "slice"}
         /\ ~m_bGenerateOneSliceTexture' => m_nOneSliceTexture' = "slice"
         /\ ~m_bIsoValueChanged' =>
              m_nIsoSurfaceTexture' = "iso" /\ isoTex' = IsoPicture(DiffusionTexture(dif), m_iso')
<1>1. m_bIsoValueChanged' \in BOOLEAN /\ m_bGenerateOneSliceTexture' \in BOOLEAN
  BY Zenon DEF ShowTexture
<1>2. IsPicture(RenderIsoSurface(dif, m_iso))
  <2>1. TRUE \in BOOLEAN  BY Zenon
  <2>2. QED  BY <2>1, Zenon DEF TypeOK, IsPicture, RenderIsoSurface, IsoPicture
<1>3. IsPicture(isoTex')
  BY <1>2 DEF ShowTexture
<1>4. QED
  BY <1>1, <1>3 DEF TypeOK, WrittenFirst, ShowTexture, IsoSurfaceDue, OneSliceDue,
     RenderIsoSurface, view

\* What the volume part of Render leaves behind when it worked on dif.
VolumeLeft(dif) ==
  /\ IsDiffusion(diffusion') /\ diffusion'.depth = dif.depth /\ diffusion'.vb = dif.vb
  /\ m_bGenerateDiffusion' \in BOOLEAN
  /\ aborted' \in BOOLEAN
  /\ IsPicture(isoTex')
  /\ m_bIsoValueChanged' \in BOOLEAN /\ m_bGenerateOneSliceTexture' \in BOOLEAN
  /\ m_nIsoSurfaceTexture' \in {Uninit, "iso"} /\ m_nOneSliceTexture' \in {Uninit, "slice"}
  /\ shown' \in {"none", "diffusion", "iso", "slice"}
  /\ shown' # "none" => ~m_bGenerateDiffusion'
  /\ ~m_bGenerateOneSliceTexture' => m_nOneSliceTexture' = "slice"
  /\ m_bGenerateDiffusion' => m_bIsoValueChanged'
  /\ ~m_bIsoValueChanged' =>
       /\ m_nIsoSurfaceTexture' = "iso"
       /\ isoTex' = IsoPicture(DiffusionTexture(diffusion'), m_iso')
  /\ diffusion'.step # 0 => /\ m_bGenerateDiffusion'
                            /\ DiffusionTexture(diffusion').passes = diffusion'.step
                            /\ Drawn(DiffusionTexture(diffusion').src)
  /\ ~m_bGenerateDiffusion' => /\ Drawn(DiffusionTexture(diffusion').src)
                               /\ DiffusionTexture(diffusion').passes >= m_iDiffusionSteps

\* The volume part of Render: whatever it is entered with, it leaves either a
\* step to go on with or a diffused volume, and shows only the latter.
LEMMA RenderVolumeResult ==
  ASSUME TypeOK, WrittenFirst, UNCHANGED view, m_bShowVolume # Uninit,
         NEW generate \in BOOLEAN, NEW dif, IsDiffusion(dif), NEW vol, Drawn(vol),
         NEW iso, IsPicture(iso), NEW slice,
         generate => m_bIsoValueChanged,
         dif.step # 0 => /\ generate
                         /\ DiffusionTexture(dif).passes = dif.step
                         /\ Drawn(DiffusionTexture(dif).src),
         ~generate => /\ Drawn(DiffusionTexture(dif).src)
                      /\ DiffusionTexture(dif).passes >= m_iDiffusionSteps,
         ~m_bIsoValueChanged =>
            m_nIsoSurfaceTexture = "iso" /\ iso = IsoPicture(DiffusionTexture(dif), m_iso),
         RenderVolume(generate, dif, vol, iso, slice)
  PROVE  VolumeLeft(dif)
<1> USE DEF VolumeLeft
<1>1. CASE /\ generate /\ dif.vb /\ dif.step < m_iDiffusionSteps
           /\ NoVolume(DiffusePass(dif, vol), iso, slice)
           /\ m_bGenerateDiffusion' = TRUE
           /\ UNCHANGED aborted
  <2> DEFINE g == DiffusePass(dif, vol)
  <2>1. /\ IsDiffusion(g) /\ g.depth = dif.depth /\ g.vb = dif.vb /\ g.step = dif.step + 1
        /\ dif.step = 0 => DiffusionTexture(g) = [src |-> vol, passes |-> 1]
        /\ dif.step # 0 => DiffusionTexture(g) = [src |-> DiffusionTexture(dif).src,
                                                  passes |-> DiffusionTexture(dif).passes + 1]
    BY DiffusePassResult
  <2>2. dif.step \in Nat  BY DEF IsDiffusion
  <2>3. DiffusionTexture(g).passes = g.step /\ Drawn(DiffusionTexture(g).src)
    <3> HIDE DEF g
    <3>1. CASE dif.step = 0  BY <2>1, <3>1
    <3>2. CASE dif.step # 0  BY <2>1, <2>2, <3>2
    <3>3. QED  BY <3>1, <3>2
  <2>4. QED
    <3> HIDE DEF g
    <3>1. diffusion' = g  BY <1>1 DEF NoVolume, g
    <3>2. QED  BY <1>1, <2>1, <2>3, <3>1 DEF NoVolume, TypeOK, WrittenFirst
<1>2. CASE /\ generate => dif.step >= m_iDiffusionSteps
           /\ ShowTexture(IF generate THEN DiffuseFinish(dif) ELSE dif, iso, slice)
           /\ m_bGenerateDiffusion' = FALSE
           /\ UNCHANGED aborted
  <2> DEFINE g == IF generate THEN DiffuseFinish(dif) ELSE dif
  <2>1. /\ IsDiffusion(g) /\ g.depth = dif.depth /\ g.vb = dif.vb /\ g.step = 0
        /\ DiffusionTexture(g) = DiffusionTexture(dif)
    BY DiffuseFinishResult
  <2>2. /\ Drawn(DiffusionTexture(dif).src)
        /\ DiffusionTexture(dif).passes >= m_iDiffusionSteps
    <3>1. m_iDiffusionSteps \in Nat \ {0} /\ dif.step \in Nat
      BY SceneAssumption DEF TypeOK, IsDiffusion
    <3>2. QED  BY <1>2, <3>1
  <2>3. m_bGenerateDiffusion' \in BOOLEAN  BY <1>2, Zenon
  <2> HIDE DEF g
  <2>4. /\ diffusion' = g
        /\ IsPicture(isoTex')
        /\ m_bIsoValueChanged' \in BOOLEAN /\ m_bGenerateOneSliceTexture' \in BOOLEAN
        /\ m_nIsoSurfaceTexture' \in {Uninit, "iso"} /\ m_nOneSliceTexture' \in {Uninit, "slice"}
        /\ shown' \in {"diffusion", "iso", "slice"}
        /\ ~m_bGenerateOneSliceTexture' => m_nOneSliceTexture' = "slice"
        /\ ~m_bIsoValueChanged' =>
             m_nIsoSurfaceTexture' = "iso" /\ isoTex' = IsoPicture(DiffusionTexture(g), m_iso')
    <3>1. ShowTexture(g, iso, slice)  BY <1>2 DEF g
    <3>2. QED  BY <2>1, <3>1, ShowTextureResult
  <2>5. aborted' \in BOOLEAN  BY <1>2 DEF TypeOK
  <2>6. QED  BY <1>2, <2>1, <2>2, <2>3, <2>4, <2>5
<1>3. CASE NoVolume(dif, iso, slice) /\ m_bGenerateDiffusion' = generate
           /\ aborted' \in BOOLEAN
  BY <1>3 DEF NoVolume, TypeOK, WrittenFirst, view
<1>4. QED
  <2>1. aborted' = TRUE \/ UNCHANGED aborted => aborted' \in BOOLEAN  BY DEF TypeOK
  <2>2. QED  BY <1>1, <1>2, <1>3, <2>1 DEF RenderVolume
\* What UpdateBoundingBox leaves to the rest of a frame: objects v and f and a
\* texture iso of one size in the box of the surfaces.
BoxUpdated(v, f, iso) ==
  /\ m_box' = BoxOf[pose] /\ m_box' \in Box
  /\ m_textureSize' \in Triple
  /\ Largest(m_textureSize') = Largest(m_textureSize)
  /\ m_textureSize' = SizeFor[m_box'][Largest(m_textureSize')]
  /\ m_bUpdate3DTextures' \in BOOLEAN
  /\ failures' \in Nat
  /\ IsVoronoi(v)
  /\ Depth(m_textureSize') = v.depth
  /\ \A s \in Slice(v.slice) : v.tex[s] # NoPose
  /\ \A s \in Slice(v.depth) : v.tex[s] # NoPose => BoxOf[v.tex[s]] = BoxOf[pose]
  /\ IsDiffusion(f)
  /\ f.vb => f.depth = v.depth
  /\ f.step # 0 => /\ DiffusionTexture(f).passes = f.step
                   /\ Drawn(DiffusionTexture(f).src)
  /\ IsPicture(iso)

\* What UpdateBoundingBox leaves to the rest of a frame: textures of one size
\* in the box of the surfaces, with what was drawn in another box forgotten.
LEMMA UpdateBoundingBoxResult ==
  ASSUME IInv, m_bGenerateVoronoi, NEW fails \in BOOLEAN, UpdateBoundingBox(fails)
  PROVE  BoxUpdated(UpdatedVoronoi, UpdatedDiffusion(fails), UpdatedIsoTex(fails))
<1> DEFINE v == UpdatedVoronoi
           f == UpdatedDiffusion(fails)
<1>1. /\ BoxOf[pose] \in Box
      /\ NewSize \in Triple /\ Largest(NewSize) = Largest(m_textureSize)
      /\ Rebuild => NewDepth \in Nat \ {0}
  <2>1. BoxOf[pose] \in Box  BY SceneAssumption DEF IInv, TypeOK
  <2>2. NewSize \in Triple /\ Largest(NewSize) = Largest(m_textureSize)
    BY <2>1, SizeForResult DEF IInv, TypeOK, NewSize
  <2>3. Rebuild => HasTexels(NewSize)  BY DEF UpdateBoundingBox
  <2>4. QED  BY <2>1, <2>2, <2>3 DEF HasTexels, Depth, Triple, NewDepth
<1>2. /\ m_box' = BoxOf[pose]
      /\ m_textureSize' \in Triple
      /\ Largest(m_textureSize') = Largest(m_textureSize)
      /\ m_textureSize' = SizeFor[m_box'][Largest(m_textureSize')]
  BY <1>1 DEF IInv, TypeOK, SizesAgree, UpdateBoundingBox, NewSize, Rebuild
<1>3. m_bUpdate3DTextures' \in BOOLEAN  BY Zenon DEF UpdateBoundingBox
<1>4. failures' \in Nat  BY DEF IInv, TypeOK, UpdateBoundingBox
<1>5. /\ IsVoronoi(v)
      /\ Depth(m_textureSize') = v.depth
      /\ \A s \in Slice(v.slice) : v.tex[s] # NoPose
      /\ \A s \in Slice(v.depth) : v.tex[s] # NoPose => BoxOf[v.tex[s]] = BoxOf[pose]
  <2>1. CASE Rebuild
    <3>1. v = VoronoiUpdate(NewDepth) /\ Depth(m_textureSize') = NewDepth
      BY <2>1 DEF UpdatedVoronoi, UpdateBoundingBox, NewDepth
    <3> HIDE DEF v
    <3>2. /\ IsVoronoi(v) /\ v.depth = NewDepth /\ v.slice = 0
          /\ \A s \in Slice(NewDepth) : v.tex[s] = NoPose
      BY <1>1, <2>1, <3>1, VoronoiUpdateIsVoronoi
    <3>3. Slice(0) = {}  BY DEF Slice
    <3>4. QED  BY <3>1, <3>2, <3>3
  <2>2. CASE ~Rebuild
    BY <2>2 DEF IInv, TypeOK, UpdatedVoronoi, UpdateBoundingBox, Rebuild, ResizedOrPending,
       DrawnSoFar, SlicesShareBox
  <2>3. QED  BY <2>1, <2>2
<1>6. /\ IsDiffusion(f)
      /\ f.vb => f.depth = v.depth
      /\ f.step # 0 => /\ DiffusionTexture(f).passes = f.step
                       /\ Drawn(DiffusionTexture(f).src)
  <2>1. CASE Rebuild
    <3>1. v.depth = NewDepth
      BY <2>1, <1>5 DEF UpdateBoundingBox, NewDepth
    <3>2. CASE fails
      <4>1. f = DiffusionUpdateFails(diffusion, NewDepth)
        BY <2>1, <3>2 DEF UpdatedDiffusion
      <4> HIDE DEF f, v
      <4>2. QED  BY <1>1, <2>1, <4>1, DiffusionUpdates DEF IInv, TypeOK, PingPong
    <3>3. CASE ~fails
      <4>1. f = DiffusionUpdate(diffusion, NewDepth)
        BY <2>1, <3>3 DEF UpdatedDiffusion
      <4> HIDE DEF f, v
      <4>2. QED  BY <1>1, <2>1, <3>1, <4>1, DiffusionUpdates DEF IInv, TypeOK
    <3>4. QED  BY <3>2, <3>3
  <2>2. CASE ~Rebuild
    BY <2>2 DEF IInv, TypeOK, UpdatedVoronoi, UpdatedDiffusion, SizesAgree, PingPong
  <2>3. QED  BY <2>1, <2>2
<1>7. IsPicture(UpdatedIsoTex(fails))
  <2>1. IsPicture(IsoPicture(BlankDiffused(NewDepth), InitIso))
    <3>1. TRUE \in BOOLEAN /\ FALSE \in BOOLEAN  BY Zenon
    <3>2. InitIso \in IsoSetting  BY <3>1, IsoAssumption, Zenon DEF InitIso, IsoSetting
    <3>3. QED  BY <3>1, <3>2, Zenon DEF IsPicture, IsoPicture
  <2>2. QED  BY <2>1 DEF IInv, TypeOK, UpdatedIsoTex
<1>8. QED
  <2> HIDE DEF v, f
  <2>1. BoxUpdated(v, f, UpdatedIsoTex(fails))
    BY <1>1, <1>2, <1>3, <1>4, <1>5, <1>6, <1>7 DEF BoxUpdated
  <2>2. QED  BY <2>1 DEF v, f

\* The slice drawn in a frame joins the others: it fills the gap that the
\* counter points to and lies in the box the scene now has.
LEMMA RenderVoronoiResult ==
  ASSUME NEW v, IsVoronoi(v), pose \in Pose,
         \A s \in Slice(v.slice) : v.tex[s] # NoPose,
         \A s \in Slice(v.depth) : v.tex[s] # NoPose => BoxOf[v.tex[s]] = BoxOf[pose]
  PROVE  LET w == RenderVoronoi(v, pose) IN
         /\ IsVoronoi(w) /\ w.depth = v.depth
         /\ LastSlice(v) => w.slice = 0 /\ Drawn(w.tex)
         /\ \A s \in Slice(w.slice) : w.tex[s] # NoPose
         /\ \A s \in Slice(w.depth) : w.tex[s] # NoPose => BoxOf[w.tex[s]] = BoxOf[pose]
<1> DEFINE w == RenderVoronoi(v, pose)
<1>1. /\ IsVoronoi(w)
      /\ w.depth = v.depth
      /\ w.slice = IF LastSlice(v) THEN 0 ELSE v.slice + 1
      /\ \A s \in Slice(v.depth) : w.tex[s] = IF s = v.slice THEN pose ELSE v.tex[s]
  BY RenderVoronoiIsVoronoi
<1>2. LastSlice(v) => Drawn(w.tex)  BY LastSliceCompletes
<1>3. v.depth \in Nat \ {0} /\ v.slice \in Slice(v.depth)  BY DEF IsVoronoi
<1> HIDE DEF w
<1>4. \A s \in Slice(w.slice) : w.tex[s] # NoPose
  <2> SUFFICES ASSUME NEW s \in Slice(w.slice) PROVE w.tex[s] # NoPose  OBVIOUS
  <2>1. s \in Slice(v.depth) /\ (s = v.slice \/ s \in Slice(v.slice))
    BY <1>1, <1>3 DEF Slice
  <2>2. QED  BY <1>1, <2>1, PoseAssumption
<1>5. \A s \in Slice(w.depth) : w.tex[s] # NoPose => BoxOf[w.tex[s]] = BoxOf[pose]
  BY <1>1
<1>6. QED  BY <1>1, <1>2, <1>4, <1>5 DEF w
\* A frame that draws a slice other than the last one.
LEMMA VoronoiFrameIInv ==
  ASSUME IInv, NEW fails \in BOOLEAN, VoronoiFrame(fails)
  PROVE  IInv'
<1> DEFINE v == UpdatedVoronoi
           w == RenderVoronoi(v, pose)
           f == UpdatedDiffusion(fails)
<1> USE DEF BoxUpdated
<1>1. m_bGenerateVoronoi /\ UpdateBoundingBox(fails) /\ ~LastSlice(v)
  BY DEF VoronoiFrame
<1>2. BoxUpdated(v, f, UpdatedIsoTex(fails))
  BY <1>1, UpdateBoundingBoxResult
<1>3. /\ IsVoronoi(w) /\ w.depth = v.depth
      /\ \A s \in Slice(w.slice) : w.tex[s] # NoPose
      /\ \A s \in Slice(w.depth) : w.tex[s] # NoPose => BoxOf[w.tex[s]] = BoxOf[pose]
  BY <1>2, RenderVoronoiResult DEF IInv, TypeOK
<1>4. /\ voronoi' = w /\ diffusion' = f /\ isoTex' = UpdatedIsoTex(fails) /\ shown' = "none"
      /\ UNCHANGED <<m_bIsoValueChanged, m_bGenerateOneSliceTexture, m_nIsoSurfaceTexture,
                     m_nOneSliceTexture, pose, m_bGenerateVoronoi, m_bRender3DTexture,
                     m_bGenerateDiffusion, view, ui, aborted, losses>>
  BY DEF VoronoiFrame, NoVolume
<1> HIDE DEF v, w, f
<1>5. TypeOK'
  BY <1>2, <1>3, <1>4 DEF IInv, TypeOK, view, settings, ui
<1>6. /\ m_bGenerateVoronoi /\ m_bGenerateVoronoi' /\ ~m_bRender3DTexture' /\ m_bIsoValueChanged'
  BY <1>1, <1>4 DEF IInv, HiddenWhileGenerating, GenerationOutdatesIso
<1>7. SlicesShareBox' /\ DrawnSoFar' /\ SizesAgree' /\ ResizedOrPending'
  BY <1>2, <1>3, <1>4, <1>6 DEF SlicesShareBox, DrawnSoFar, SizesAgree, ResizedOrPending
<1>8. PingPong' /\ StepIsPending' /\ SliceIsPending'
  BY <1>2, <1>4, <1>6 DEF PingPong, StepIsPending, SliceIsPending
<1>9. WrittenFirst' /\ NoUninitialisedRead'
  BY <1>4, <1>6, SceneAssumption DEF IInv, WrittenFirst, NoUninitialisedRead, view
<1>10. ResolutionKept' /\ SettingsAgree'
  BY <1>2, <1>4 DEF IInv, ResolutionKept, SettingsAgree, view, settings, ui
<1>11. QED
  BY <1>5, <1>6, <1>7, <1>8, <1>9, <1>10
     DEF IInv, HiddenWhileGenerating, GenerationOutdatesIso, IsoTextureFresh,
         PresentableIsWhole, Presentable

\* It ends without a call of the volume renderer.
LEMMA VoronoiFrameShowsNothing ==
  ASSUME NEW fails \in BOOLEAN, VoronoiFrame(fails)
  PROVE  shown' = "none"
BY DEF VoronoiFrame, NoVolume

\* A frame that draws the last slice: the diagram is whole and the diffusion goes on.
LEMMA LastVoronoiFrameIInv ==
  ASSUME IInv, NEW fails \in BOOLEAN, LastVoronoiFrame(fails)
  PROVE  IInv' /\ (shown' # "none" => Presentable')
<1> DEFINE v == UpdatedVoronoi
           w == RenderVoronoi(v, pose)
           f == UpdatedDiffusion(fails)
           iso == UpdatedIsoTex(fails)
<1> USE DEF BoxUpdated, VolumeLeft
<1>1. m_bGenerateVoronoi /\ UpdateBoundingBox(fails) /\ LastSlice(v)
  BY DEF LastVoronoiFrame
<1>2. BoxUpdated(v, f, iso)
  BY <1>1, UpdateBoundingBoxResult
<1>3. /\ IsVoronoi(w) /\ w.depth = v.depth /\ w.slice = 0 /\ Drawn(w.tex)
      /\ \A s \in Slice(w.slice) : w.tex[s] # NoPose
      /\ \A s \in Slice(w.depth) : w.tex[s] # NoPose => BoxOf[w.tex[s]] = BoxOf[pose]
  BY <1>1, <1>2, RenderVoronoiResult DEF IInv, TypeOK
<1>4. /\ voronoi' = w
      /\ m_bGenerateVoronoi' = FALSE /\ m_bRender3DTexture' = TRUE
      /\ UNCHANGED <<pose, view, ui, losses>>
      /\ RenderVolume(TRUE, f, w.tex, iso, UpdatedSliceTex(fails))
  BY DEF LastVoronoiFrame
<1>5. m_bIsoValueChanged /\ m_bShowVolume # Uninit /\ WrittenFirst /\ TypeOK
  BY <1>1 DEF IInv, GenerationOutdatesIso, WrittenFirst
<1>6. TRUE \in BOOLEAN /\ FALSE \in BOOLEAN  BY Zenon
<1> HIDE DEF v, w, f, iso
<1>7. VolumeLeft(f)
  BY <1>2, <1>3, <1>4, <1>5, <1>6, RenderVolumeResult
<1>8. m_bGenerateVoronoi' \in BOOLEAN /\ m_bRender3DTexture' \in BOOLEAN
  BY <1>4, Zenon
<1>9. TypeOK'
  BY <1>2, <1>3, <1>4, <1>5, <1>7, <1>8 DEF TypeOK, view, settings, ui
<1>10. SlicesShareBox' /\ DrawnSoFar' /\ SizesAgree' /\ ResizedOrPending' /\ SliceIsPending'
  BY <1>2, <1>3, <1>4, <1>7
     DEF SlicesShareBox, DrawnSoFar, SizesAgree, ResizedOrPending, SliceIsPending
<1>11. PingPong' /\ StepIsPending' /\ GenerationOutdatesIso' /\ IsoTextureFresh'
  BY <1>4, <1>7 DEF PingPong, StepIsPending, GenerationOutdatesIso, IsoTextureFresh
<1>12. WrittenFirst' /\ NoUninitialisedRead' /\ HiddenWhileGenerating'
  BY <1>4, <1>5, <1>7, SceneAssumption
     DEF WrittenFirst, NoUninitialisedRead, HiddenWhileGenerating, view
<1>13. PresentableIsWhole'
  BY <1>3, <1>4, <1>7 DEF PresentableIsWhole, Presentable, view
<1>14. ResolutionKept' /\ SettingsAgree'
  BY <1>2, <1>4 DEF IInv, ResolutionKept, SettingsAgree, view, settings, ui
<1>15. QED
  BY <1>4, <1>7, <1>9, <1>10, <1>11, <1>12, <1>13, <1>14 DEF IInv, Presentable

\* A frame without Voronoi work: one more pass, or the volume on the screen.
LEMMA VolumeFrameIInv ==
  ASSUME IInv, VolumeFrame
  PROVE  IInv' /\ (shown' # "none" => Presentable')
<1> USE DEF VolumeLeft
<1>1. /\ ~m_bGenerateVoronoi /\ m_bRender3DTexture
      /\ RenderVolume(m_bGenerateDiffusion, diffusion, voronoi.tex, isoTex, sliceTex)
      /\ UNCHANGED <<pose, size, m_bGenerateVoronoi, m_bRender3DTexture, view, voronoi, ui,
                     failures, losses>>
  BY DEF VolumeFrame
<1>2. /\ TypeOK /\ WrittenFirst /\ m_bShowVolume # Uninit
      /\ m_bGenerateDiffusion \in BOOLEAN /\ IsDiffusion(diffusion) /\ IsPicture(isoTex)
      /\ Drawn(voronoi.tex)
      /\ m_bGenerateDiffusion => m_bIsoValueChanged
  BY <1>1 DEF IInv, TypeOK, WrittenFirst, DrawnSoFar, GenerationOutdatesIso
<1>3. /\ diffusion.step # 0 => /\ m_bGenerateDiffusion
                               /\ DiffusionTexture(diffusion).passes = diffusion.step
                               /\ Drawn(DiffusionTexture(diffusion).src)
      /\ ~m_bGenerateDiffusion => /\ Drawn(DiffusionTexture(diffusion).src)
                                  /\ DiffusionTexture(diffusion).passes >= m_iDiffusionSteps
      /\ ~m_bIsoValueChanged =>
           m_nIsoSurfaceTexture = "iso" /\ isoTex = IsoPicture(DiffusionTexture(diffusion), m_iso)
  BY <1>1 DEF IInv, StepIsPending, PingPong, PresentableIsWhole, Presentable, IsoTextureFresh
<1>4. UNCHANGED view  BY <1>1
<1>5. VolumeLeft(diffusion)
  BY <1>1, <1>2, <1>3, <1>4, RenderVolumeResult
<1>6. TypeOK'
  BY <1>1, <1>2, <1>5 DEF TypeOK, view, settings, ui, size
<1>7. SlicesShareBox' /\ DrawnSoFar' /\ SizesAgree' /\ ResizedOrPending' /\ SliceIsPending'
  BY <1>1, <1>5
     DEF IInv, SlicesShareBox, DrawnSoFar, SizesAgree, ResizedOrPending, SliceIsPending, size
<1>8. PingPong' /\ StepIsPending' /\ GenerationOutdatesIso' /\ IsoTextureFresh'
  BY <1>1, <1>5 DEF PingPong, StepIsPending, GenerationOutdatesIso, IsoTextureFresh
<1>9. WrittenFirst' /\ NoUninitialisedRead' /\ HiddenWhileGenerating'
  BY <1>1, <1>2, <1>5, SceneAssumption
     DEF WrittenFirst, NoUninitialisedRead, HiddenWhileGenerating, view
<1>10. PresentableIsWhole'
  BY <1>1, <1>5 DEF IInv, SliceIsPending, PresentableIsWhole, Presentable, view
<1>11. ResolutionKept' /\ SettingsAgree'
  BY <1>1 DEF IInv, ResolutionKept, SettingsAgree, size, view, settings, ui
<1>12. QED
  BY <1>1, <1>5, <1>6, <1>7, <1>8, <1>9, <1>10, <1>11 DEF IInv, Presentable

\* A frame of the surfaces alone.
LEMMA SurfacesFrameIInv ==
  ASSUME IInv, SurfacesFrame
  PROVE  IInv' /\ shown' = "none"
<1> USE DEF SurfacesFrame, size, todo, view, textures, settings, ui
<1>1. TypeOK'  BY DEF IInv, TypeOK
<1>2. QED
  BY <1>1, SceneAssumption
     DEF IInv, HiddenWhileGenerating, ResizedOrPending, GenerationOutdatesIso, StepIsPending,
         SliceIsPending, WrittenFirst, DrawnSoFar, NoUninitialisedRead, IsoTextureFresh,
         SlicesShareBox, PingPong, PresentableIsWhole, Presentable, SizesAgree, ResolutionKept,
         SettingsAgree

\* A frame that an assertion ends.
LEMMA FlatBoxFrameIInv ==
  ASSUME IInv, FlatBoxFrame
  PROVE  IInv' /\ shown' = "none"
<1> USE DEF FlatBoxFrame, size, todo, view, textures, settings, ui
<1>1. TypeOK'
  <2>1. aborted' \in BOOLEAN  BY Zenon
  <2>2. QED  BY <2>1 DEF IInv, TypeOK
<1>2. QED
  BY <1>1, SceneAssumption
     DEF IInv, HiddenWhileGenerating, ResizedOrPending, GenerationOutdatesIso, StepIsPending,
         SliceIsPending, WrittenFirst, DrawnSoFar, NoUninitialisedRead, IsoTextureFresh,
         SlicesShareBox, PingPong, PresentableIsWhole, Presentable, SizesAgree, ResolutionKept,
         SettingsAgree

\* Every step preserves the invariant, and shows a texture only where it may.
LEMMA NextIInv == IInv /\ [Next]_vars => IInv' /\ (Frame /\ shown' # "none" => Presentable')
<1> SUFFICES ASSUME IInv, [Next]_vars
             PROVE  IInv' /\ (Frame /\ shown' # "none" => Presentable')
  OBVIOUS
<1>1. CASE Frame
  BY <1>1, VoronoiFrameIInv, VoronoiFrameShowsNothing, LastVoronoiFrameIInv, VolumeFrameIInv,
     FlatBoxFrameIInv, SurfacesFrameIInv DEF Frame
<1>2. CASE UserEvent /\ ~Frame
  BY <1>2, UserEventIInv
<1>3. CASE DeviceLost /\ ~Frame
  BY <1>3, DeviceLostIInv
<1>4. CASE UNCHANGED vars /\ ~Frame
  <2> USE <1>4 DEF vars, size, todo, view, textures, settings, ui, result
  <2>1. TypeOK'  BY DEF IInv, TypeOK
  <2>2. QED
    BY <2>1
       DEF IInv, HiddenWhileGenerating, ResizedOrPending, GenerationOutdatesIso, StepIsPending,
           SliceIsPending, WrittenFirst, DrawnSoFar, NoUninitialisedRead, IsoTextureFresh,
           SlicesShareBox, PingPong, PresentableIsWhole, Presentable, SizesAgree, ResolutionKept,
           SettingsAgree
<1>5. QED  BY <1>1, <1>2, <1>3, <1>4 DEF Next

-----------------------------------------------------------------------------
(* The safety properties                                                   *)

\* The inductive invariant holds in every state of every behaviour of Scene.
THEOREM Invariance == Spec => []IInv
<1>1. Init => IInv  BY InitIInv
<1>2. IInv /\ [Next]_vars => IInv'  BY NextIInv
<1>3. QED  BY <1>1, <1>2, PTL DEF Spec

\* Type correctness: in particular the slice that RenderVoronoi draws next
\* always exists in the textures, however often they are recreated.
THEOREM TypeCorrectness == Spec => []TypeOK
<1>1. IInv => TypeOK  BY DEF IInv
<1>2. QED  BY <1>1, Invariance, PTL

\* Render decides on no member that the constructor left uninitialised, and
\* passes no texture number of that kind to the volume renderer.
THEOREM ReadsInitialised == Spec => []NoUninitialisedRead
<1>1. IInv => NoUninitialisedRead  BY DEF IInv
<1>2. QED  BY <1>1, Invariance, PTL

\* The isosurface kept across frames is never stale when the flag says so.
THEOREM IsoSurfaceIsFresh == Spec => []IsoTextureFresh
<1>1. IInv => IsoTextureFresh  BY DEF IInv
<1>2. QED  BY <1>1, Invariance, PTL

\* The slices of one diagram share the bounding box of the scene, although
\* they are drawn in different frames with the surfaces moving in between.
THEOREM OneBoxPerDiagram == Spec => []SlicesShareBox
<1>1. IInv => SlicesShareBox  BY DEF IInv
<1>2. QED  BY <1>1, Invariance, PTL

\* The step counter of the diffusion and its two textures never part.
THEOREM StepsCountPasses == Spec => []PingPong
<1>1. IInv => PingPong  BY DEF IInv
<1>2. QED  BY <1>1, Invariance, PTL

\* A presentable volume is complete and has had its passes.
THEOREM WholeVolumes == Spec => []PresentableIsWhole
<1>1. IInv => PresentableIsWhole  BY DEF IInv
<1>2. QED  BY <1>1, Invariance, PTL

\* Scene, Voronoi and Diffusion agree on the size of the textures.
THEOREM OneTextureSize == Spec => []SizesAgree
<1>1. IInv => SizesAgree  BY DEF IInv
<1>2. QED  BY <1>1, Invariance, PTL

\* Rounding the texture size again and again never touches the resolution.
THEOREM KeepsResolution == Spec => []ResolutionKept
<1>1. IInv => ResolutionKept  BY DEF IInv
<1>2. QED  BY <1>1, Invariance, PTL

\* The button saves the whole, present volume as soon as the volume is made.
THEOREM SavesWholeVolumes == Spec => []SavesTheVolume
<1>1. IInv => SavesTheVolume
  <2> SUFFICES ASSUME IInv, Presentable, ~IsoSurfaceDue
               PROVE  /\ Drawn(SavedVolume.vol.src)
                      /\ SavedVolume.vol.passes >= m_iDiffusionSteps
                      /\ SavedVolume = IF m_bRenderIsoSurface
                                       THEN IsoPicture(DiffusionTexture(diffusion), m_iso)
                                       ELSE DiffusionPicture(DiffusionTexture(diffusion))
    BY DEF SavesTheVolume
  <2>1. SavedVolume = IF m_bRenderIsoSurface
                      THEN IsoPicture(DiffusionTexture(diffusion), m_iso)
                      ELSE DiffusionPicture(DiffusionTexture(diffusion))
    BY DEF IInv, IsoTextureFresh, IsoSurfaceDue, SavedVolume
  <2>2. SavedVolume.vol = DiffusionTexture(diffusion)
    BY <2>1 DEF IsoPicture, DiffusionPicture
  <2>3. QED  BY <2>1, <2>2 DEF IInv, PresentableIsWhole
<1>2. QED  BY <1>1, Invariance, PTL

\* A frame that shows the volume as a whole does so as Scene's members say,
\* and the isosurface only when it has just been brought up to date.
LEMMA ShowsMembers ==
  ASSUME TypeOK, NEW generate, NEW dif, NEW vol, NEW iso, NEW slice,
         RenderVolume(generate, dif, vol, iso, slice), shown' \in {"diffusion", "iso"}
  PROVE  /\ m_bDrawAllSlices /\ m_bShowVolume # FALSE
         /\ shown' = "iso" <=> m_bRenderIsoSurface
         /\ shown' = "iso" => ~m_bIsoValueChanged'
<1>1. shown' # "none"  OBVIOUS
<1>2. PICK f : ShowTexture(f, iso, slice) /\ m_bShowVolume \in {TRUE, Uninit}
  BY <1>1 DEF RenderVolume, NoVolume
<1>3. /\ m_nOneSliceTexture' \in {Uninit, "slice"}
      /\ m_nIsoSurfaceTexture' \in {Uninit, "iso"}
      /\ m_bIsoValueChanged' => ~IsoSurfaceDue /\ m_bIsoValueChanged
      /\ shown' = IF ~m_bDrawAllSlices THEN m_nOneSliceTexture'
                  ELSE IF m_bRenderIsoSurface THEN m_nIsoSurfaceTexture' ELSE "diffusion"
  BY <1>2 DEF ShowTexture, TypeOK
<1>4. QED  BY <1>2, <1>3, SceneAssumption DEF IsoSurfaceDue

\* The volume on the screen is the one the controls describe.
THEOREM ShowsSettings == Spec => ShownAsSet
<1> DEFINE AsSet == /\ g_bShowVolume /\ ~oneSliceChecked
                    /\ ShownPicture'.surface = g_bShowIsoSurface
                    /\ g_bShowIsoSurface => ShownPicture'.iso = g_iso
                    /\ ShownPicture'.vol.passes >= g_iDiffusionSteps
<1>1. ASSUME IInv, [Next]_vars, shown' \in {"diffusion", "iso"}, losses = 0, Frame
      PROVE  AsSet
  <2>1. IInv' /\ Presentable'
    <3>1. shown' # "none"  BY <1>1
    <3>2. QED  BY <1>1, <3>1, NextIInv
  <2>2. /\ m_bGenerateVoronoi \/ m_bRender3DTexture
        /\ UNCHANGED <<view, ui>>
        /\ \E generate, dif, vol, iso, slice : RenderVolume(generate, dif, vol, iso, slice)
    <3>1. CASE VolumeFrame  BY <3>1 DEF VolumeFrame
    <3>2. ASSUME NEW fails \in BOOLEAN, LastVoronoiFrame(fails)
          PROVE  /\ m_bGenerateVoronoi \/ m_bRender3DTexture
                 /\ UNCHANGED <<view, ui>>
                 /\ \E generate, dif, vol, iso, slice : RenderVolume(generate, dif, vol, iso, slice)
      BY <3>2, Zenon DEF LastVoronoiFrame
    <3>3. shown' # "none"  BY <1>1
    <3>4. QED
      BY <1>1, <3>1, <3>2, <3>3, VoronoiFrameShowsNothing DEF Frame, FlatBoxFrame, SurfacesFrame
  <2>3. /\ m_bDrawAllSlices /\ m_bShowVolume # FALSE
        /\ shown' = "iso" <=> m_bRenderIsoSurface
        /\ shown' = "iso" => ~m_bIsoValueChanged'
    BY <1>1, <2>2, ShowsMembers DEF IInv
  <2>4. /\ m_bRenderIsoSurface = g_bShowIsoSurface /\ m_iso' = g_iso
        /\ m_iDiffusionSteps' = g_iDiffusionSteps /\ m_bDrawAllSlices = ~oneSliceChecked
        /\ m_bShowVolume # Uninit => m_bShowVolume = g_bShowVolume
    BY <1>1, <2>2 DEF IInv, SettingsAgree, view
  <2>5. g_bShowVolume
    <3>1. m_bShowVolume = TRUE /\ m_bShowVolume # Uninit
      BY <1>1, <2>2, <2>3 DEF IInv, WrittenFirst, TypeOK
    <3>2. QED  BY <2>4, <3>1
  <2>6. ShownPicture'.vol.passes >= g_iDiffusionSteps
    <3>1. ShownPicture'.vol = DiffusionTexture(diffusion')
      BY <2>1, <2>3 DEF IInv, IsoTextureFresh, ShownPicture, IsoPicture, DiffusionPicture
    <3>2. QED  BY <2>1, <2>4, <3>1 DEF IInv, PresentableIsWhole
  <2>7. /\ ShownPicture'.surface = g_bShowIsoSurface
        /\ g_bShowIsoSurface => ShownPicture'.iso = g_iso
    <3>1. shown' = "iso" => ShownPicture' = IsoPicture(DiffusionTexture(diffusion'), m_iso')
      BY <2>1, <2>3 DEF IInv, IsoTextureFresh, ShownPicture
    <3>2. shown' # "iso" => ShownPicture' = DiffusionPicture(DiffusionTexture(diffusion'))
      BY DEF ShownPicture
    <3>3. shown' = "iso" => ShownPicture'.surface = TRUE /\ ShownPicture'.iso = m_iso'
      BY <3>1 DEF IsoPicture
    <3>4. shown' # "iso" => ShownPicture'.surface = FALSE
      BY <3>2 DEF DiffusionPicture
    <3>5. m_bRenderIsoSurface \in BOOLEAN  BY <1>1 DEF IInv, TypeOK
    <3>6. m_bRenderIsoSurface = g_bShowIsoSurface /\ m_iso' = g_iso  BY <2>4
    <3>7. shown' = "iso" <=> g_bShowIsoSurface  BY <2>3, <3>6
    <3>8. ShownPicture'.surface = g_bShowIsoSurface
      BY <3>3, <3>4, <3>5, <3>6, <3>7, Zenon
    <3>9. QED  BY <3>3, <3>6, <3>7, <3>8
  <2>8. ~oneSliceChecked  BY <2>3, <2>4
  <2>9. QED  BY <2>5, <2>6, <2>7, <2>8
<1>2. IInv /\ [Next]_vars =>
        [shown' \in {"diffusion", "iso"} /\ losses = 0 /\ Frame => AsSet]_vars
  BY <1>1
<1>3. QED  BY <1>2, Invariance, PTL DEF Spec, ShownAsSet

\* No frame shows a volume that is half drawn or half diffused.
THEOREM ShowsWholeVolumes == Spec => ShownWhenPresentable
<1>1. IInv /\ [Next]_vars => [Frame /\ shown' # "none" => Presentable']_vars
  BY NextIInv
<1>2. QED  BY <1>1, Invariance, PTL DEF Spec, ShownWhenPresentable

-----------------------------------------------------------------------------
(* No frame's work is lost                                                 *)

\* A successful UpdateBoundingBox is the last one until the surfaces move or the
\* resolution changes, and it leaves the slices and the step FramesLeft counts.
LEMMA UpdateLeaves ==
  ASSUME IInv, m_bGenerateVoronoi, UpdateBoundingBox(FALSE), UNCHANGED pose
  PROVE  /\ ~Rebuild'
         /\ IsVoronoi(UpdatedVoronoi) /\ IsDiffusion(UpdatedDiffusion(FALSE))
         /\ SlicesLeft = UpdatedVoronoi.depth - UpdatedVoronoi.slice
         /\ UpdatedDiffusion(FALSE).step = IF Rebuild THEN 0 ELSE diffusion.step
<1>1. FALSE \in BOOLEAN  BY Zenon
<1>2. BoxUpdated(UpdatedVoronoi, UpdatedDiffusion(FALSE), UpdatedIsoTex(FALSE))
  BY <1>1, UpdateBoundingBoxResult
<1>3. IsVoronoi(UpdatedVoronoi) /\ IsDiffusion(UpdatedDiffusion(FALSE))
  BY <1>2 DEF BoxUpdated
<1>4. ~Rebuild'  BY DEF Rebuild, UpdateBoundingBox
<1>5. CASE Rebuild
  <2>1. NewDepth \in Nat \ {0}
    BY <1>3, <1>5 DEF UpdatedVoronoi, VoronoiUpdate, IsVoronoi
  <2>2. SlicesLeft = UpdatedVoronoi.depth - UpdatedVoronoi.slice
    BY <1>5, <2>1 DEF UpdatedVoronoi, VoronoiUpdate, SlicesLeft
  <2>3. UpdatedDiffusion(FALSE).step = 0
    BY <1>5 DEF UpdatedDiffusion, DiffusionUpdate
  <2>4. QED  BY <1>3, <1>4, <1>5, <2>2, <2>3
<1>6. CASE ~Rebuild
  BY <1>3, <1>4, <1>6 DEF UpdatedVoronoi, UpdatedDiffusion, SlicesLeft
<1>7. QED  BY <1>5, <1>6

\* Where the volume part of Render was to diffuse and shows nothing, it is still to.
LEMMA ShownOrPending ==
  ASSUME IInv, NEW dif, NEW vol, NEW iso, NEW slice, NEW generate, generate,
         m_bGenerateVoronoi \/ m_bRender3DTexture,
         RenderVolume(generate, dif, vol, iso, slice), shown' = "none"
  PROVE  m_bGenerateDiffusion'
<1> DEFINE g == IF generate THEN DiffuseFinish(dif) ELSE dif
<1>1. ~ShowTexture(g, iso, slice)
  <2> SUFFICES ASSUME ShowTexture(g, iso, slice) PROVE FALSE  OBVIOUS
  <2>1. shown' \in {m_nOneSliceTexture', m_nIsoSurfaceTexture', "diffusion"}
    BY DEF ShowTexture
  <2>2. m_nOneSliceTexture' # "none" /\ m_nIsoSurfaceTexture' # "none"
    BY SceneAssumption DEF ShowTexture, IInv, TypeOK
  <2>3. QED  BY <2>1, <2>2
<1>2. QED  BY <1>1 DEF RenderVolume, NoVolume

\* The volume part of Render, entered to diffuse a visible volume, makes the
\* next pass or, if none is left, shows the volume.
LEMMA PassOrShow ==
  ASSUME IInv, NEW dif, IsDiffusion(dif), NEW vol, NEW iso, NEW slice,
         m_bGenerateVoronoi \/ m_bRender3DTexture, m_bShowVolume = TRUE, ~aborted',
         RenderVolume(TRUE, dif, vol, iso, slice)
  PROVE  IF dif.step < m_iDiffusionSteps
         THEN m_bGenerateDiffusion' /\ diffusion'.step = dif.step + 1 /\ shown' = "none"
         ELSE ~m_bGenerateDiffusion' /\ shown' # "none"
<1>1. TRUE \notin {FALSE, Uninit}
  BY SceneAssumption DEF IInv, TypeOK, WrittenFirst
<1>2. CASE /\ dif.vb /\ dif.step < m_iDiffusionSteps
           /\ NoVolume(DiffusePass(dif, vol), iso, slice)
           /\ m_bGenerateDiffusion' = TRUE
  <2>1. DiffusePass(dif, vol).step = dif.step + 1  BY DiffusePassResult
  <2>2. QED  BY <1>2, <2>1 DEF NoVolume
<1>3. CASE /\ dif.step >= m_iDiffusionSteps
           /\ ShowTexture(DiffuseFinish(dif), iso, slice)
           /\ m_bGenerateDiffusion' = FALSE
  <2>1. ~(dif.step < m_iDiffusionSteps)
    BY <1>3, SceneAssumption DEF IInv, TypeOK, IsDiffusion
  <2>2. ~m_bGenerateDiffusion'  BY <1>3
  <2>3. shown' # "none"  BY <2>2, ShownOrPending
  <2>4. QED  BY <2>1, <2>2, <2>3
<1>4. QED  BY <1>1, <1>2, <1>3 DEF RenderVolume

\* A frame that works on a visible volume in which no call fails.
WorkingFrame ==
  Frame /\ Generating /\ m_bShowVolume = TRUE /\ failures' = failures /\ ~aborted'

\* Its outcome: the volume is nearer by one frame, or it is there.
OneFrameNearer ==
  IF FramesLeft = 1 THEN ~Generating' /\ shown' # "none"
  ELSE Generating' /\ FramesLeft' = FramesLeft - 1 /\ shown' = "none"

\* A slice other than the last one: the passes left stay as they are.
LEMMA VoronoiFrameNearer ==
  ASSUME IInv, NEW fails \in BOOLEAN, VoronoiFrame(fails), failures' = failures
  PROVE  OneFrameNearer
<1> DEFINE v == UpdatedVoronoi
           f == UpdatedDiffusion(FALSE)
<1>1. ~fails  BY DEF VoronoiFrame, UpdateBoundingBox, IInv, TypeOK
<1>2. /\ m_bGenerateVoronoi /\ m_bGenerateVoronoi' /\ ~LastSlice(v)
      /\ UpdateBoundingBox(FALSE) /\ UNCHANGED <<pose, m_iDiffusionSteps>>
      /\ voronoi' = RenderVoronoi(v, pose) /\ diffusion' = f /\ shown' = "none"
  BY <1>1 DEF VoronoiFrame, NoVolume, view
<1>3. /\ ~Rebuild' /\ IsVoronoi(v) /\ IsDiffusion(f)
      /\ SlicesLeft = v.depth - v.slice
      /\ f.step = IF Rebuild THEN 0 ELSE diffusion.step
  BY <1>2, UpdateLeaves
<1>4. voronoi'.depth = v.depth /\ voronoi'.slice = v.slice + 1
  BY <1>2, <1>3, RenderVoronoiIsVoronoi DEF IInv, TypeOK
<1> HIDE DEF v, f
<1>5. v.depth \in Nat /\ v.slice \in Nat /\ v.slice + 1 < v.depth
  BY <1>2, <1>3 DEF IsVoronoi, LastSlice, Slice
<1>6. SlicesLeft \in Nat /\ SlicesLeft > 1 /\ SlicesLeft' = SlicesLeft - 1
  BY <1>3, <1>4, <1>5 DEF SlicesLeft
<1>7. PassesLeft' = PassesLeft /\ PassesLeft \in Nat
  BY <1>2, <1>3, SceneAssumption DEF PassesLeft, IsDiffusion, IInv, TypeOK
<1>8. QED  BY <1>2, <1>6, <1>7 DEF OneFrameNearer, FramesLeft, Generating

\* The last slice, and with it the first pass.
LEMMA LastVoronoiFrameNearer ==
  ASSUME IInv, NEW fails \in BOOLEAN, LastVoronoiFrame(fails), m_bShowVolume = TRUE,
         failures' = failures, ~aborted'
  PROVE  OneFrameNearer
<1> DEFINE v == UpdatedVoronoi
           f == UpdatedDiffusion(FALSE)
<1>1. ~fails  BY DEF LastVoronoiFrame, UpdateBoundingBox, IInv, TypeOK
<1>2. /\ m_bGenerateVoronoi /\ ~m_bGenerateVoronoi' /\ m_bRender3DTexture' /\ LastSlice(v)
      /\ UpdateBoundingBox(FALSE) /\ UNCHANGED <<pose, m_iDiffusionSteps>>
      /\ RenderVolume(TRUE, f, voronoi'.tex, UpdatedIsoTex(FALSE), UpdatedSliceTex(FALSE))
  BY <1>1 DEF LastVoronoiFrame, view
<1>3. /\ IsVoronoi(v) /\ IsDiffusion(f)
      /\ SlicesLeft = v.depth - v.slice
      /\ f.step = IF Rebuild THEN 0 ELSE diffusion.step
  BY <1>2, UpdateLeaves
<1> HIDE DEF v, f
<1>4. SlicesLeft = 1  BY <1>2, <1>3 DEF IsVoronoi, LastSlice, Slice
<1>5. f.step \in Nat /\ m_iDiffusionSteps \in Nat
  BY <1>3, SceneAssumption DEF IsDiffusion, IInv, TypeOK
<1>6. PassesLeft = IF f.step < m_iDiffusionSteps THEN m_iDiffusionSteps - f.step ELSE 0
  BY <1>2, <1>3 DEF PassesLeft
<1>7. IF f.step < m_iDiffusionSteps
      THEN m_bGenerateDiffusion' /\ diffusion'.step = f.step + 1 /\ shown' = "none"
      ELSE ~m_bGenerateDiffusion' /\ shown' # "none"
  BY <1>2, <1>3, PassOrShow
<1>8. FramesLeft = PassesLeft + 1 /\ FramesLeft' = PassesLeft' + 1
  BY <1>2, <1>4 DEF FramesLeft
<1>9. CASE f.step < m_iDiffusionSteps
  <2>1. PassesLeft' = PassesLeft - 1
    BY <1>2, <1>5, <1>6, <1>7, <1>9 DEF PassesLeft
  <2>2. QED
    BY <1>2, <1>5, <1>6, <1>7, <1>8, <1>9, <2>1 DEF OneFrameNearer, Generating
<1>10. CASE ~(f.step < m_iDiffusionSteps)
  BY <1>2, <1>6, <1>7, <1>8, <1>10 DEF OneFrameNearer, Generating
<1>11. QED  BY <1>9, <1>10

\* A pass, or the frame after the last one.
LEMMA VolumeFrameNearer ==
  ASSUME IInv, VolumeFrame, Generating, m_bShowVolume = TRUE, ~aborted'
  PROVE  OneFrameNearer
<1>1. /\ ~m_bGenerateVoronoi /\ ~m_bGenerateVoronoi' /\ m_bRender3DTexture /\ m_bRender3DTexture'
      /\ m_bGenerateDiffusion /\ UNCHANGED m_iDiffusionSteps
      /\ RenderVolume(m_bGenerateDiffusion, diffusion, voronoi.tex, isoTex, sliceTex)
  BY DEF VolumeFrame, Generating, view
<1>2. m_bGenerateDiffusion = TRUE  BY <1>1 DEF IInv, TypeOK
<1>3. IsDiffusion(diffusion) /\ diffusion.step \in Nat /\ m_iDiffusionSteps \in Nat
  BY SceneAssumption DEF IInv, TypeOK, IsDiffusion
<1>4. IF diffusion.step < m_iDiffusionSteps
      THEN m_bGenerateDiffusion' /\ diffusion'.step = diffusion.step + 1 /\ shown' = "none"
      ELSE ~m_bGenerateDiffusion' /\ shown' # "none"
  BY <1>1, <1>2, <1>3, PassOrShow
<1>5. FramesLeft = PassesLeft + 1 /\ FramesLeft' = PassesLeft' + 1
  BY <1>1 DEF FramesLeft
<1>6. PassesLeft = IF diffusion.step < m_iDiffusionSteps
                   THEN m_iDiffusionSteps - diffusion.step ELSE 0
  BY <1>1 DEF PassesLeft
<1>7. CASE diffusion.step < m_iDiffusionSteps
  <2>1. PassesLeft' = PassesLeft - 1
    BY <1>1, <1>3, <1>4, <1>6, <1>7 DEF PassesLeft
  <2>2. QED  BY <1>1, <1>3, <1>4, <1>5, <1>6, <1>7, <2>1 DEF OneFrameNearer, Generating
<1>8. CASE ~(diffusion.step < m_iDiffusionSteps)
  BY <1>1, <1>4, <1>5, <1>6, <1>8 DEF OneFrameNearer, Generating
<1>9. QED  BY <1>7, <1>8

\* Each frame that works on a visible volume brings it one frame nearer, so
\* FramesLeft frames after the user has left the program alone it is shown.
THEOREM CountsDown == Spec => FramesCountDown
<1>1. ASSUME IInv, WorkingFrame PROVE OneFrameNearer
  BY <1>1, VoronoiFrameNearer, LastVoronoiFrameNearer, VolumeFrameNearer
     DEF WorkingFrame, Frame, FlatBoxFrame, SurfacesFrame, Generating
<1>2. IInv /\ [Next]_vars => [WorkingFrame => OneFrameNearer]_vars
  BY <1>1
<1>3. QED
  BY <1>2, Invariance, PTL DEF Spec, FramesCountDown, WorkingFrame, OneFrameNearer

-----------------------------------------------------------------------------
(* Assertions fail only after a failed call, or for flat surfaces          *)

\* The volume part of Render leaves the slice buffers alone and fails an
\* assertion only without them.
LEMMA RenderVolumeAborts ==
  ASSUME NEW generate, NEW dif, IsDiffusion(dif), NEW vol, NEW iso, NEW slice, ~aborted,
         RenderVolume(generate, dif, vol, iso, slice)
  PROVE  diffusion'.vb = dif.vb /\ (aborted' => ~dif.vb)
<1>1. DiffusePass(dif, vol).vb = dif.vb  BY DiffusePassResult
<1>2. (IF generate THEN DiffuseFinish(dif) ELSE dif).vb = dif.vb  BY DiffuseFinishResult
<1> DEFINE g == IF generate THEN DiffuseFinish(dif) ELSE dif
<1>3. diffusion' \in {DiffusePass(dif, vol), g, dif}
  BY Zenon DEF RenderVolume, NoVolume, ShowTexture
<1>4. aborted' => ~dif.vb  BY DEF RenderVolume
<1>5. QED  BY <1>1, <1>2, <1>3, <1>4

\* A handler never gets to run after an assertion, and makes no buffers.
LEMMA UserEventAborts ==
  ASSUME UserEvent
  PROVE  /\ ~aborted /\ ~aborted' /\ UNCHANGED diffusion
         /\ failures' \in {failures, failures + 1}
BY DEF UserEvent, Message, OnMouseEvent, LoadSurface, LoadSurfaceFails, RotateOrMove, Camera,
       TextureResolution, AllSlices, OneSlice, SliceIndex, ShowVolume, Diffuse, DiffusionSteps,
       IsoCheck, IsoSlider, IsoColor, IsoChanged, SlicesOnly, textures, result

\* The buffers are there when UpdateBoundingBox returns, unless it failed now or
\* a call failed before.
LEMMA UpdateBoundingBoxAborts ==
  ASSUME IInv, AbortsExplained, NEW fails \in BOOLEAN, UpdateBoundingBox(fails)
  PROVE  ~UpdatedDiffusion(fails).vb => failures' > 0
<1>1. failures \in Nat  BY DEF IInv, TypeOK
<1>2. CASE Rebuild /\ ~fails
  BY <1>2 DEF UpdatedDiffusion, DiffusionUpdate
<1>3. CASE fails
  BY <1>1, <1>3 DEF UpdateBoundingBox
<1>4. CASE ~Rebuild /\ ~fails
  BY <1>4 DEF UpdatedDiffusion, UpdateBoundingBox, AbortsExplained
<1>5. QED  BY <1>2, <1>3, <1>4

\* The first scene has the same resolution on every side.
LEMMA InitRuns == Init => CanInitialize /\ ~aborted
<1>1. InitResolution \in Nat \ {0}  BY SceneAssumption
<1>2. Init => CanInitialize
  BY <1>1 DEF Init, CanInitialize, HasTexels
<1>3. QED  BY <1>2, Zenon DEF Init

\* The user interface takes its sizes from the scene.
LEMMA GlobalSizeCopies ==
  [Next]_vars => g_textureSize' \in {g_textureSize, m_textureSize, m_textureSize'}
<1>1. UserEvent => g_textureSize' \in {g_textureSize, m_textureSize, m_textureSize'}
  BY DEF UserEvent, OnMouseEvent, LoadSurface, LoadSurfaceFails, RotateOrMove, Camera,
         TextureResolution, AllSlices, OneSlice, SliceIndex, ShowVolume, Diffuse, DiffusionSteps,
         IsoCheck, IsoSlider, IsoColor, IsoChanged, SlicesOnly, ui
<1>2. Frame \/ DeviceLost \/ UNCHANGED vars => g_textureSize' = g_textureSize
  BY DEF Frame, VoronoiFrame, LastVoronoiFrame, FlatBoxFrame, VolumeFrame, SurfacesFrame,
         DeviceLost, vars, ui
<1>3. QED  BY <1>1, <1>2 DEF Next

\* Only a call that fails while the slice buffers are made anew, surfaces too flat
\* for a texture, or a device lost while the user interface knows the size of such
\* surfaces, let an assertion end the program.
THEOREM AbortsOnlySo == Spec => []AbortsExplained
<1>1. Init => AbortsExplained
  <2>1. Init => ~aborted /\ failures = 0  BY InitRuns DEF Init
  <2>2. Init => diffusion.vb  BY DEF Init, NewScene, DiffusionInit
  <2>3. QED  BY <2>1, <2>2 DEF AbortsExplained
<1>2. ASSUME IInv, AbortsExplained, [Next]_vars PROVE AbortsExplained'
  <2>1. CASE UserEvent
    <3>1. failures \in Nat  BY <1>2 DEF IInv, TypeOK
    <3>2. QED  BY <1>2, <2>1, <3>1, UserEventAborts DEF AbortsExplained
  <2>2. ASSUME NEW fails \in BOOLEAN, VoronoiFrame(fails) PROVE AbortsExplained'
    BY <1>2, <2>2, UpdateBoundingBoxAborts DEF VoronoiFrame, NoVolume, AbortsExplained
  <2>3. ASSUME NEW fails \in BOOLEAN, LastVoronoiFrame(fails) PROVE AbortsExplained'
    <3> DEFINE f == UpdatedDiffusion(fails)
    <3>1. /\ ~aborted /\ m_bGenerateVoronoi /\ UpdateBoundingBox(fails)
          /\ RenderVolume(TRUE, f, voronoi'.tex, UpdatedIsoTex(fails), UpdatedSliceTex(fails))
      BY <2>3 DEF LastVoronoiFrame
    <3>2. IsDiffusion(f)  BY <1>2, <3>1, UpdateBoundingBoxResult DEF BoxUpdated
    <3>3. ~f.vb => failures' > 0  BY <1>2, <3>1, UpdateBoundingBoxAborts
    <3> HIDE DEF f
    <3>4. diffusion'.vb = f.vb /\ (aborted' => ~f.vb)
      BY <3>1, <3>2, RenderVolumeAborts
    <3>5. QED  BY <3>3, <3>4 DEF AbortsExplained
  <2>4. CASE FlatBoxFrame
    BY <1>2, <2>4 DEF FlatBoxFrame, AbortsExplained, NewSize, size, textures
  <2>5. CASE VolumeFrame
    <3>1. /\ ~aborted /\ UNCHANGED failures
          /\ RenderVolume(m_bGenerateDiffusion, diffusion, voronoi.tex, isoTex, sliceTex)
      BY <2>5 DEF VolumeFrame
    <3>2. IsDiffusion(diffusion)  BY <1>2 DEF IInv, TypeOK
    <3>3. diffusion'.vb = diffusion.vb /\ (aborted' => ~diffusion.vb)
      BY <3>1, <3>2, RenderVolumeAborts
    <3>4. QED  BY <1>2, <3>1, <3>3 DEF AbortsExplained
  <2>6. CASE SurfacesFrame
    BY <1>2, <2>6 DEF SurfacesFrame, AbortsExplained, textures
  <2>7. CASE DeviceLost
    <3>1. diffusion'.vb /\ g_textureSize' = g_textureSize
      BY <2>7 DEF DeviceLost, DiffusionInit, ui
    <3>2. losses' > 0  BY <1>2, <2>7 DEF DeviceLost, IInv, TypeOK
    <3>3. aborted' => ~HasTexels(g_textureSize)  BY <2>7, Zenon DEF DeviceLost, CanInitialize
    <3>4. QED  BY <3>1, <3>2, <3>3, Zenon DEF AbortsExplained
  <2>8. CASE UNCHANGED vars
    BY <1>2, <2>8 DEF vars, size, textures, ui, result, AbortsExplained, NewSize
  <2>9. QED
    BY <1>2, <2>1, <2>2, <2>3, <2>4, <2>5, <2>6, <2>7, <2>8 DEF Next, Frame
<1>3. QED  BY <1>1, <1>2, Invariance, PTL DEF Spec

\* Where no side of a surface's box is that flat, the user interface never knows a
\* size without texels, and no assertion fails while no call does: the failing
\* call is the whole cause of the assertion that fails.
THEOREM NoFailureNoAbort ==
  ASSUME \A b \in Box, r \in Resolution : HasTexels(SizeOf(Extent[b], r))
  PROVE  Spec => [](failures = 0 => AssertionsHold)
<1>1. ASSUME IInv, AbortsExplained, CanInitialize, failures = 0 PROVE AssertionsHold
  <2>1. NewSize = SizeOf(Extent[BoxOf[pose]], Largest(m_textureSize))
    BY <1>1, SceneAssumption DEF IInv, TypeOK, NewSize, SizeFor
  <2>2. HasTexels(NewSize)
    BY <1>1, <2>1, SceneAssumption DEF IInv, TypeOK
  <2>3. QED  BY <1>1, <2>2 DEF AbortsExplained, AssertionsHold, CanInitialize
<1>2. IInv => HasTexels(m_textureSize)
  <2> SUFFICES ASSUME IInv PROVE HasTexels(m_textureSize)  OBVIOUS
  <2>1. m_box \in Box /\ Largest(m_textureSize) \in Resolution
        /\ m_textureSize = SizeFor[m_box][Largest(m_textureSize)]
    BY DEF IInv, TypeOK, SizesAgree
  <2>2. m_textureSize = SizeOf(Extent[m_box], Largest(m_textureSize))
    BY <2>1 DEF SizeFor
  <2>3. HasTexels(SizeOf(Extent[m_box], Largest(m_textureSize)))  BY <2>1
  <2>4. QED  BY <2>2, <2>3
<1>3. IInv' => HasTexels(m_textureSize)'  BY <1>2, PTL
<1>4. ASSUME IInv, IInv', CanInitialize, [Next]_vars PROVE CanInitialize'
  <2>1. g_textureSize' \in {g_textureSize, m_textureSize, m_textureSize'}
    BY <1>4, GlobalSizeCopies
  <2>2. QED  BY <1>2, <1>3, <1>4, <2>1 DEF CanInitialize, HasTexels
<1>5. Init => CanInitialize  BY InitRuns
<1>6. QED  BY <1>1, <1>4, <1>5, Invariance, AbortsOnlySo, PTL DEF Spec

-----------------------------------------------------------------------------
(* A volume diffused from an older diagram has one cause                   *)

\* What has been diffused, or is being diffused, comes from the present diagram.
SourceIsPresent ==
  /\ diffusion.step # 0 \/ Presentable => DiffusionTexture(diffusion).src = voronoi.tex
  /\ m_bGenerateVoronoi => diffusion.step = 0

\* The steps of a user who presses "Diffuse!" only when no pass has been made
\* since the last finished volume.
RestartAtRest == Next /\ (Diffuse => diffusion.step = 0)

\* The volume part of Render, entered with the present diagram in vol.
LEMMA RenderVolumeSource ==
  ASSUME m_iDiffusionSteps \in Nat \ {0}, NEW generate \in BOOLEAN,
         NEW dif, IsDiffusion(dif), NEW vol, NEW iso, NEW slice,
         dif.step # 0 \/ ~generate => DiffusionTexture(dif).src = vol,
         RenderVolume(generate, dif, vol, iso, slice)
  PROVE  diffusion'.step # 0 \/ ~m_bGenerateDiffusion' => DiffusionTexture(diffusion').src = vol
<1> DEFINE g == IF generate THEN DiffuseFinish(dif) ELSE dif
<1>1. /\ DiffusePass(dif, vol).step = dif.step + 1
      /\ dif.step = 0 => DiffusionTexture(DiffusePass(dif, vol)).src = vol
      /\ dif.step # 0 => DiffusionTexture(DiffusePass(dif, vol)).src = DiffusionTexture(dif).src
  BY DiffusePassResult
<1>2. DiffusionTexture(g) = DiffusionTexture(dif)  BY DiffuseFinishResult
<1>3. dif.step \in Nat  BY DEF IsDiffusion
<1>4. CASE NoVolume(DiffusePass(dif, vol), iso, slice)
  BY <1>1, <1>4 DEF NoVolume
<1>5. CASE (generate => dif.step >= m_iDiffusionSteps) /\ ShowTexture(g, iso, slice)
  <2>1. DiffusionTexture(dif).src = vol  BY <1>3, <1>5
  <2>2. diffusion' = g  BY <1>5 DEF ShowTexture
  <2>3. QED  BY <1>2, <2>1, <2>2
<1>6. CASE NoVolume(dif, iso, slice) /\ m_bGenerateDiffusion' = generate
  BY <1>6 DEF NoVolume
<1>7. QED
  <2> HIDE DEF g
  <2>1. \/ NoVolume(DiffusePass(dif, vol), iso, slice)
        \/ (generate => dif.step >= m_iDiffusionSteps) /\ ShowTexture(g, iso, slice)
        \/ NoVolume(dif, iso, slice) /\ m_bGenerateDiffusion' = generate
    BY Zenon DEF RenderVolume, g
  <2>2. QED  BY <1>4, <1>5, <1>6, <2>1

\* No handler but "Diffuse!" asks for a diagram, and none finishes a volume.
LEMMA UserEventSource ==
  ASSUME UserEvent, ~Diffuse
  PROVE  /\ UNCHANGED <<voronoi, diffusion, m_bGenerateVoronoi>>
         /\ Presentable' => Presentable
<1> USE DEF Presentable, size, todo, view, textures, SlicesOnly, HideVolume, IsoChanged
<1>1. QED
  BY DEF UserEvent, OnMouseEvent, LoadSurface, LoadSurfaceFails, RotateOrMove, Camera,
         TextureResolution, AllSlices, OneSlice, SliceIndex, ShowVolume, DiffusionSteps,
         IsoCheck, IsoSlider, IsoColor

\* For that user every volume on the screen was diffused from the diagram that
\* was generated last: the step counter which "Diffuse!" does not reset is the
\* only way to a volume of an older one.
THEOREM RestartIsTheCause == Init /\ [][RestartAtRest]_vars => DiffusedFromVoronoi
<1>1. Init => IInv  BY InitIInv
<1>2. Init => SourceIsPresent
  BY DEF Init, NewScene, SourceIsPresent, Presentable, DiffusionInit
<1>3. [RestartAtRest]_vars => [Next]_vars  BY DEF RestartAtRest
<1>4. IInv /\ [RestartAtRest]_vars => IInv'  BY <1>3, NextIInv
<1>5. ASSUME IInv, SourceIsPresent, [RestartAtRest]_vars PROVE SourceIsPresent'
  <2>1. m_iDiffusionSteps \in Nat \ {0} /\ IsDiffusion(diffusion)
    BY <1>5, SceneAssumption DEF IInv, TypeOK
  <2>2. CASE Diffuse /\ RestartAtRest
    BY <1>5, <2>2 DEF RestartAtRest, Diffuse, SourceIsPresent, Presentable, textures
  <2>3. CASE UserEvent /\ ~Diffuse
    BY <1>5, <2>3, UserEventSource DEF SourceIsPresent
  <2>4. ASSUME NEW fails \in BOOLEAN, m_bGenerateVoronoi, UpdateBoundingBox(fails)
        PROVE  IsDiffusion(UpdatedDiffusion(fails)) /\ UpdatedDiffusion(fails).step = 0
    <3>1. IsDiffusion(UpdatedDiffusion(fails))
      BY <1>5, <2>4, UpdateBoundingBoxResult DEF BoxUpdated
    <3>2. diffusion.step = 0  BY <1>5, <2>4 DEF SourceIsPresent
    <3>3. UpdatedDiffusion(fails).step = 0
      BY <3>2 DEF UpdatedDiffusion, DiffusionUpdate, DiffusionUpdateFails
    <3>4. QED  BY <3>1, <3>3
  <2>5. ASSUME NEW fails \in BOOLEAN, VoronoiFrame(fails) PROVE SourceIsPresent'
    <3>1. UpdatedDiffusion(fails).step = 0  BY <2>4, <2>5 DEF VoronoiFrame
    <3>2. ~m_bRender3DTexture'
      BY <1>5, <2>5 DEF VoronoiFrame, IInv, HiddenWhileGenerating
    <3>3. diffusion' = UpdatedDiffusion(fails)  BY <2>5 DEF VoronoiFrame, NoVolume
    <3>4. QED  BY <3>1, <3>2, <3>3 DEF SourceIsPresent, Presentable
  <2>6. ASSUME NEW fails \in BOOLEAN, LastVoronoiFrame(fails) PROVE SourceIsPresent'
    <3> DEFINE f == UpdatedDiffusion(fails)
    <3>1. IsDiffusion(f) /\ f.step = 0  BY <2>4, <2>6 DEF LastVoronoiFrame
    <3>2. /\ ~m_bGenerateVoronoi'
          /\ RenderVolume(TRUE, f, voronoi'.tex, UpdatedIsoTex(fails), UpdatedSliceTex(fails))
      BY <2>6 DEF LastVoronoiFrame
    <3>3. TRUE \in BOOLEAN  BY Zenon
    <3> HIDE DEF f
    <3>4. diffusion'.step # 0 \/ ~m_bGenerateDiffusion'
            => DiffusionTexture(diffusion').src = voronoi'.tex
      BY <2>1, <3>1, <3>2, <3>3, RenderVolumeSource
    <3>5. QED  BY <3>2, <3>4 DEF SourceIsPresent, Presentable
  <2>7. CASE VolumeFrame
    <3>1. /\ ~m_bGenerateVoronoi' /\ m_bRender3DTexture /\ UNCHANGED voronoi
          /\ RenderVolume(m_bGenerateDiffusion, diffusion, voronoi.tex, isoTex, sliceTex)
      BY <2>7 DEF VolumeFrame
    <3>2. m_bGenerateDiffusion \in BOOLEAN  BY <1>5 DEF IInv, TypeOK
    <3>3. diffusion.step # 0 \/ ~m_bGenerateDiffusion
            => DiffusionTexture(diffusion).src = voronoi.tex
      BY <1>5, <3>1 DEF SourceIsPresent, Presentable
    <3>4. diffusion'.step # 0 \/ ~m_bGenerateDiffusion'
            => DiffusionTexture(diffusion').src = voronoi.tex
      BY <2>1, <3>1, <3>2, <3>3, RenderVolumeSource
    <3>5. QED  BY <3>1, <3>4 DEF SourceIsPresent, Presentable
  <2>8. CASE FlatBoxFrame \/ SurfacesFrame
    BY <1>5, <2>8 DEF FlatBoxFrame, SurfacesFrame, SourceIsPresent, Presentable, todo, textures
  <2>9. CASE DeviceLost
    BY <2>9 DEF DeviceLost, SourceIsPresent, Presentable, DiffusionInit
  <2>10. CASE UNCHANGED vars
    BY <1>5, <2>10 DEF vars, todo, textures, SourceIsPresent, Presentable
  <2>11. QED
    BY <1>5, <2>2, <2>3, <2>5, <2>6, <2>7, <2>8, <2>9, <2>10 DEF RestartAtRest, Next, Frame
<1>6. IInv /\ SourceIsPresent' /\ [RestartAtRest]_vars =>
        [Frame /\ shown' # "none" => DiffusionTexture(diffusion').src = voronoi'.tex]_vars
  BY <1>3, NextIInv DEF SourceIsPresent
<1>7. QED  BY <1>1, <1>2, <1>4, <1>5, <1>6, PTL DEF DiffusedFromVoronoi

-----------------------------------------------------------------------------
(* A volume that comes back after it was hidden has one cause              *)

\* The steps of a user who hides the volume only while no slices are drawn.
HideAtRest == Next /\ (controls /\ ~controls' => ~m_bGenerateVoronoi)

\* A volume that is made or shown has its controls on the screen.
WithControls == m_bGenerateVoronoi \/ m_bRender3DTexture => controls

\* A handler that hides the controls hides the volume, but does not stop a
\* generation; only "Diffuse!" starts one, and it shows the controls.
LEMMA UserEventControls ==
  ASSUME UserEvent
  PROVE  \/ controls'
         \/ ~m_bRender3DTexture' /\ UNCHANGED m_bGenerateVoronoi /\ ~controls'
         \/ UNCHANGED <<controls, m_bRender3DTexture, m_bGenerateVoronoi>>
BY DEF UserEvent, OnMouseEvent, LoadSurface, LoadSurfaceFails, RotateOrMove, Camera,
       TextureResolution, AllSlices, OneSlice, SliceIndex, ShowVolume, Diffuse, DiffusionSteps,
       IsoCheck, IsoSlider, IsoColor, SlicesOnly, HideVolume, IsoChanged, todo, ui

\* For that user a hidden volume stays hidden: the generation that goes on after
\* Render3DTexture(false) is the only way it comes back.
THEOREM HidingIsTheCause == Init /\ [][HideAtRest]_vars => HiddenStaysHidden
<1>1. Init => WithControls  BY DEF Init, NewScene, WithControls
<1>2. ASSUME WithControls, [HideAtRest]_vars PROVE WithControls'
  <2>1. CASE UserEvent /\ HideAtRest
    BY <1>2, <2>1, UserEventControls DEF WithControls, HideAtRest
  <2>2. CASE Frame
    BY <1>2, <2>2 DEF Frame, VoronoiFrame, LastVoronoiFrame, FlatBoxFrame, VolumeFrame,
       SurfacesFrame, WithControls, todo, ui
  <2>3. CASE DeviceLost  BY <2>3 DEF DeviceLost, WithControls
  <2>4. CASE UNCHANGED vars  BY <1>2, <2>4 DEF vars, todo, ui, WithControls
  <2>5. QED  BY <1>2, <2>1, <2>2, <2>3, <2>4 DEF HideAtRest, Next
<1>3. WithControls /\ [HideAtRest]_vars => [Frame /\ shown' # "none" => controls]_vars
  BY VoronoiFrameShowsNothing
     DEF WithControls, Frame, LastVoronoiFrame, FlatBoxFrame, VolumeFrame, SurfacesFrame
<1>4. QED  BY <1>1, <1>2, <1>3, PTL DEF HiddenStaysHidden

-----------------------------------------------------------------------------
(* A slice of an older volume has one cause                                *)

\* What the one-slice texture is to be a slice of.
SlicePicture ==
  IF m_bRenderIsoSurface THEN isoTex ELSE DiffusionPicture(DiffusionTexture(diffusion))

\* The one-slice texture is due whenever what it shows is going to change.
SliceIsPresent ==
  /\ m_bGenerateOneSliceTexture \/ sliceTex.of = SlicePicture
  /\ m_bDrawAllSlices \/ m_bGenerateVoronoi \/ m_bGenerateDiffusion \/ IsoSurfaceDue
       => m_bGenerateOneSliceTexture

\* The steps of a user who presses "Diffuse!" only while all slices are chosen.
DiffuseAllSlices == Next /\ (Diffuse => m_bDrawAllSlices)

\* All other handlers that change what is shown mark the one-slice texture.
LEMMA UserEventSlice ==
  ASSUME SliceIsPresent, UserEvent, Diffuse => m_bDrawAllSlices
  PROVE  SliceIsPresent'
<1> USE DEF SliceIsPresent, SlicePicture, IsoSurfaceDue, size, todo, view, textures
<1>1. CASE Diffuse
  BY <1>1 DEF Diffuse
<1>2. CASE \/ \E p \in Pose : OnMouseEvent(p) \/ LoadSurface(p) \/ LoadSurfaceFails(p)
           \/ RotateOrMove \/ Camera \/ (\E r \in Resolution : TextureResolution(r))
           \/ ShowVolume
  BY <1>2 DEF OnMouseEvent, LoadSurface, LoadSurfaceFails, RotateOrMove, Camera,
     TextureResolution, ShowVolume, HideVolume
<1>3. CASE \/ AllSlices \/ OneSlice \/ (\E v \in SliderPos : SliceIndex(v))
           \/ (\E s \in StepCount : DiffusionSteps(s))
           \/ IsoCheck \/ (\E x \in IsoValue : IsoSlider(x)) \/ IsoColor
  BY <1>3 DEF AllSlices, OneSlice, SliceIndex, ChangeRenderingToOneSlice, DiffusionSteps,
     IsoCheck, IsoSlider, IsoColor, IsoChanged
<1>4. QED  BY <1>1, <1>2, <1>3 DEF UserEvent

\* The volume part of Render brings the one-slice texture up to date before it
\* shows it, and has it due until then.
LEMMA RenderVolumeSlice ==
  ASSUME TypeOK, UNCHANGED view, m_bGenerateVoronoi' = FALSE,
         NEW generate \in BOOLEAN, NEW dif, IsDiffusion(dif), NEW vol, NEW iso, NEW slice,
         m_bDrawAllSlices \/ generate \/ IsoSurfaceDue => m_bGenerateOneSliceTexture,
         \/ m_bGenerateOneSliceTexture
         \/ slice.of = IF m_bRenderIsoSurface THEN iso
                       ELSE DiffusionPicture(DiffusionTexture(dif)),
         RenderVolume(generate, dif, vol, iso, slice)
  PROVE  SliceIsPresent' /\ (shown' = "slice" => sliceTex'.of = SlicePicture')
<1> DEFINE g == IF generate THEN DiffuseFinish(dif) ELSE dif
<1> USE DEF SliceIsPresent, SlicePicture, view
<1>1. DiffusionTexture(g) = DiffusionTexture(dif)  BY DiffuseFinishResult
<1>2. CASE /\ generate /\ NoVolume(DiffusePass(dif, vol), iso, slice)
           /\ m_bGenerateDiffusion' = TRUE
  BY <1>2 DEF NoVolume, IsoSurfaceDue
<1>3. CASE ShowTexture(g, iso, slice) /\ m_bGenerateDiffusion' = FALSE
  <2> DEFINE newIso == IF IsoSurfaceDue THEN RenderIsoSurface(g, m_iso) ELSE iso
             picture == IF m_bRenderIsoSurface THEN newIso
                        ELSE DiffusionPicture(DiffusionTexture(g))
  <2>1. /\ diffusion' = g /\ isoTex' = newIso
        /\ sliceTex' = IF OneSliceDue
                       THEN RenderOneDiffusionSlice(g, m_iCurrentSlice, picture) ELSE slice
        /\ m_bGenerateOneSliceTexture' = (m_bGenerateOneSliceTexture /\ ~OneSliceDue)
        /\ m_bIsoValueChanged' = (m_bIsoValueChanged /\ ~IsoSurfaceDue)
        /\ shown' = "slice" => ~m_bDrawAllSlices
    <3>1. m_nIsoSurfaceTexture' # "slice"
      BY <1>3, SceneAssumption DEF ShowTexture, TypeOK
    <3>2. QED  BY <1>3, <3>1 DEF ShowTexture
  <2> HIDE DEF g
  <2>2. SlicePicture' = picture  BY <2>1
  <2>3. ~IsoSurfaceDue'  BY <2>1 DEF IsoSurfaceDue
  <2>4. CASE OneSliceDue
    <3>1. sliceTex'.of = picture  BY <2>1, <2>4 DEF RenderOneDiffusionSlice
    <3>2. ~m_bDrawAllSlices  BY <2>4 DEF OneSliceDue
    <3>3. QED  BY <1>3, <2>2, <2>3, <3>1, <3>2
  <2>5. CASE ~OneSliceDue
    <3>1. m_bGenerateOneSliceTexture' <=> m_bGenerateOneSliceTexture  BY <2>1, <2>5
    <3>2. ~m_bGenerateOneSliceTexture =>
            ~IsoSurfaceDue /\ sliceTex'.of = SlicePicture'
      BY <1>1, <2>1, <2>2, <2>5
    <3>3. shown' = "slice" => ~m_bGenerateOneSliceTexture
      BY <2>1, <2>5 DEF OneSliceDue
    <3>4. QED  BY <1>3, <2>3, <3>1, <3>2, <3>3
  <2>6. QED  BY <2>4, <2>5
<1>4. CASE NoVolume(dif, iso, slice) /\ m_bGenerateDiffusion' = generate
  BY <1>4 DEF NoVolume, IsoSurfaceDue
<1>5. QED
  <2> HIDE DEF g
  <2>1. \/ /\ generate /\ NoVolume(DiffusePass(dif, vol), iso, slice)
           /\ m_bGenerateDiffusion' = TRUE
        \/ ShowTexture(g, iso, slice) /\ m_bGenerateDiffusion' = FALSE
        \/ NoVolume(dif, iso, slice) /\ m_bGenerateDiffusion' = generate
    BY Zenon DEF RenderVolume, g
  <2>2. QED  BY <1>2, <1>3, <1>4, <2>1

\* For that user the slice on the screen is one of the present volume: that
\* "Diffuse!" does not mark the one-slice texture is the only way to another.
THEOREM UnmarkedSliceIsTheCause == Init /\ [][DiffuseAllSlices]_vars => OneSliceIsPresent
<1> DEFINE Present == sliceTex'.of = IF m_bRenderIsoSurface THEN isoTex'
                                     ELSE DiffusionPicture(DiffusionTexture(diffusion'))
<1>1. Init => IInv  BY InitIInv
<1>2. Init => SliceIsPresent  BY DEF Init, NewScene, SliceIsPresent
<1>3. [DiffuseAllSlices]_vars => [Next]_vars  BY DEF DiffuseAllSlices
<1>4. IInv /\ [DiffuseAllSlices]_vars => IInv'  BY <1>3, NextIInv
<1>5. ASSUME IInv, SliceIsPresent, Frame
      PROVE  SliceIsPresent' /\ (shown' = "slice" => Present)
  <2>1. ASSUME NEW fails \in BOOLEAN, VoronoiFrame(fails)
        PROVE  SliceIsPresent' /\ shown' = "none"
    BY <1>5, <2>1 DEF VoronoiFrame, NoVolume, SliceIsPresent, IsoSurfaceDue, view
  <2>2. ASSUME NEW fails \in BOOLEAN, LastVoronoiFrame(fails)
        PROVE  SliceIsPresent' /\ (shown' = "slice" => Present)
    <3> DEFINE f == UpdatedDiffusion(fails)
    <3>1. /\ m_bGenerateVoronoi /\ UpdateBoundingBox(fails) /\ UNCHANGED view
          /\ m_bGenerateVoronoi' = FALSE
          /\ RenderVolume(TRUE, f, voronoi'.tex, UpdatedIsoTex(fails), UpdatedSliceTex(fails))
      BY <2>2 DEF LastVoronoiFrame
    <3>2. IsDiffusion(f)  BY <1>5, <3>1, UpdateBoundingBoxResult DEF BoxUpdated
    <3>3. m_bGenerateOneSliceTexture  BY <1>5, <3>1 DEF SliceIsPresent
    <3>4. TRUE \in BOOLEAN /\ TypeOK  BY <1>5, Zenon DEF IInv
    <3> HIDE DEF f
    <3>5. SliceIsPresent' /\ (shown' = "slice" => sliceTex'.of = SlicePicture')
      BY <3>1, <3>2, <3>3, <3>4, RenderVolumeSlice
    <3>6. QED  BY <3>1, <3>5 DEF SlicePicture, view
  <2>3. CASE VolumeFrame
    <3>1. /\ ~m_bGenerateVoronoi /\ UNCHANGED <<view, m_bGenerateVoronoi>>
          /\ RenderVolume(m_bGenerateDiffusion, diffusion, voronoi.tex, isoTex, sliceTex)
      BY <2>3 DEF VolumeFrame
    <3>2. /\ TypeOK /\ IsDiffusion(diffusion) /\ m_bGenerateDiffusion \in BOOLEAN
          /\ m_bGenerateVoronoi' = FALSE
      BY <1>5, <3>1 DEF IInv, TypeOK
    <3>3. /\ m_bDrawAllSlices \/ m_bGenerateDiffusion \/ IsoSurfaceDue
                => m_bGenerateOneSliceTexture
          /\ \/ m_bGenerateOneSliceTexture
             \/ sliceTex.of = IF m_bRenderIsoSurface THEN isoTex
                              ELSE DiffusionPicture(DiffusionTexture(diffusion))
      BY <1>5 DEF SliceIsPresent, SlicePicture
    <3>4. SliceIsPresent' /\ (shown' = "slice" => sliceTex'.of = SlicePicture')
      BY <3>1, <3>2, <3>3, RenderVolumeSlice
    <3>5. QED  BY <3>1, <3>4 DEF SlicePicture, view
  <2>4. CASE FlatBoxFrame \/ SurfacesFrame
    BY <1>5, <2>4
       DEF FlatBoxFrame, SurfacesFrame, SliceIsPresent, SlicePicture, IsoSurfaceDue, todo, view,
           textures
  <2>5. QED  BY <1>5, <2>1, <2>2, <2>3, <2>4 DEF Frame
<1>6. ASSUME IInv, SliceIsPresent, [DiffuseAllSlices]_vars PROVE SliceIsPresent'
  <2>1. CASE UserEvent /\ DiffuseAllSlices
    BY <1>6, <2>1, UserEventSlice DEF DiffuseAllSlices
  <2>2. CASE Frame  BY <1>5, <1>6, <2>2
  <2>3. CASE DeviceLost  BY <2>3 DEF DeviceLost, SliceIsPresent
  <2>4. CASE UNCHANGED vars
    BY <1>6, <2>4 DEF vars, SliceIsPresent, SlicePicture, IsoSurfaceDue, todo, view, textures
  <2>5. QED  BY <1>6, <2>1, <2>2, <2>3, <2>4 DEF DiffuseAllSlices, Next
<1>7. IInv /\ SliceIsPresent /\ [DiffuseAllSlices]_vars =>
        [Frame /\ shown' = "slice" => Present]_vars
  BY <1>5
<1>8. QED  BY <1>1, <1>2, <1>4, <1>6, <1>7, PTL DEF OneSliceIsPresent

-----------------------------------------------------------------------------
(* Scene implements VolumeView                                             *)

\* A handler asks for the volume, hides it, sends it back to the diffusion or
\* does not concern it.
LEMMA UserEventView == IInv /\ UserEvent => [View!Next]_View!view
<1> SUFFICES ASSUME IInv, UserEvent PROVE [View!Next]_View!view  OBVIOUS
<1>0. HiddenWhileGenerating  BY DEF IInv
<1> USE <1>0 DEF HiddenWhileGenerating, View!Next, View!view, View!Request, View!Hide,
      View!Refine, Stage, size, todo, view, textures, ui, result, SlicesOnly
<1>1. ASSUME NEW p \in Pose, OnMouseEvent(p) PROVE [View!Next]_View!view
  BY <1>1 DEF OnMouseEvent
<1>2. ASSUME NEW p \in Pose, LoadSurface(p) PROVE [View!Next]_View!view
  BY <1>2 DEF LoadSurface, HideVolume
<1>3. ASSUME NEW p \in Pose, LoadSurfaceFails(p) PROVE [View!Next]_View!view
  BY <1>3 DEF LoadSurfaceFails
<1>4. CASE RotateOrMove
  BY <1>4 DEF RotateOrMove, HideVolume
<1>5. CASE Camera
  BY <1>5 DEF Camera
<1>6. ASSUME NEW r \in Resolution, TextureResolution(r) PROVE [View!Next]_View!view
  BY <1>6 DEF TextureResolution, HideVolume
<1>7. CASE AllSlices
  BY <1>7 DEF AllSlices
<1>8. CASE OneSlice
  BY <1>8 DEF OneSlice, ChangeRenderingToOneSlice
<1>9. ASSUME NEW v \in SliderPos, SliceIndex(v) PROVE [View!Next]_View!view
  BY <1>9 DEF SliceIndex, ChangeRenderingToOneSlice
<1>10. CASE ShowVolume
  BY <1>10 DEF ShowVolume
<1>11. CASE Diffuse
  BY <1>11 DEF Diffuse
<1>12. ASSUME NEW n \in StepCount, DiffusionSteps(n) PROVE [View!Next]_View!view
  BY <1>12 DEF DiffusionSteps
<1>13. CASE IsoCheck
  BY <1>13 DEF IsoCheck, IsoChanged
<1>14. ASSUME NEW x \in IsoValue, IsoSlider(x) PROVE [View!Next]_View!view
  BY <1>14 DEF IsoSlider, IsoChanged
<1>15. CASE IsoColor
  BY <1>15 DEF IsoColor, IsoChanged
<1>16. QED
  BY <1>1, <1>2, <1>3, <1>4, <1>5, <1>6, <1>7, <1>8, <1>9, <1>10, <1>11, <1>12, <1>13,
     <1>14, <1>15 DEF UserEvent

\* A frame works on the volume, presents it or draws the surfaces.
LEMMA FrameView == IInv /\ Frame => [View!Next]_View!view
<1> SUFFICES ASSUME IInv, Frame PROVE [View!Next]_View!view  OBVIOUS
<1> USE DEF View!Next, View!view, View!Work, View!Present, View!Surfaces, Stage
<1>1. ASSUME NEW fails \in BOOLEAN, VoronoiFrame(fails) PROVE [View!Next]_View!view
  BY <1>1 DEF VoronoiFrame, NoVolume
<1>2. ASSUME NEW fails \in BOOLEAN, LastVoronoiFrame(fails) PROVE [View!Next]_View!view
  <2>1. shown' # "none" => ~m_bGenerateDiffusion'
    BY <1>2, LastVoronoiFrameIInv DEF Presentable
  <2>2. shown' = "none" => m_bGenerateDiffusion'
    BY <1>2, ShownOrPending DEF LastVoronoiFrame
  <2>3. m_bGenerateVoronoi /\ ~m_bGenerateVoronoi' /\ m_bRender3DTexture' /\ UNCHANGED losses
    BY <1>2 DEF LastVoronoiFrame
  <2>4. QED  BY <2>1, <2>2, <2>3
<1>3. CASE VolumeFrame
  <2>1. shown' # "none" => ~m_bGenerateDiffusion'
    BY <1>3, VolumeFrameIInv DEF Presentable
  <2>2. m_bGenerateDiffusion /\ shown' = "none" => m_bGenerateDiffusion'
    BY <1>3, ShownOrPending DEF VolumeFrame
  <2>3. /\ ~m_bGenerateVoronoi /\ ~m_bGenerateVoronoi'
        /\ m_bRender3DTexture /\ m_bRender3DTexture' /\ UNCHANGED losses
    BY <1>3 DEF VolumeFrame
  <2>4. ~m_bGenerateDiffusion => ~m_bGenerateDiffusion'
    <3>1. RenderVolume(m_bGenerateDiffusion, diffusion, voronoi.tex, isoTex, sliceTex)
      BY <1>3 DEF VolumeFrame
    <3>2. QED  BY <3>1, Zenon DEF RenderVolume
  <2>5. QED  BY <2>1, <2>2, <2>3, <2>4
<1>4. CASE FlatBoxFrame
  BY <1>4 DEF FlatBoxFrame, todo
<1>5. CASE SurfacesFrame
  BY <1>5 DEF SurfacesFrame, todo
<1>6. QED  BY <1>1, <1>2, <1>3, <1>4, <1>5 DEF Frame

\* With the device the volume is lost.
LEMMA DeviceLostView == DeviceLost => [View!Next]_View!view
BY DEF DeviceLost, View!Next, View!Lost, Stage

\* The detailed specification implements the abstract one: initial states map
\* to initial states, and every step to a step or to a stutter.
THEOREM Refinement == Spec => ImplementsView
<1>1. Init => View!Init  BY DEF Init, NewScene, View!Init, Stage
<1>2. IInv /\ [Next]_vars => [View!Next]_View!view
  <2>1. UNCHANGED vars => UNCHANGED View!view
    BY DEF vars, todo, result, View!view, Stage
  <2>2. QED  BY <2>1, UserEventView, FrameView, DeviceLostView DEF Next
<1>3. QED  BY <1>1, <1>2, Invariance, PTL DEF Spec, ImplementsView, View!Spec
=============================================================================
