------------------------------- MODULE Device -------------------------------
(***************************************************************************)
(* The life of the Direct3D objects: DXUT's device callbacks               *)
(* (VolumetricDiffusion11.cpp), the objects Scene::Initialize builds, the  *)
(* textures of Voronoi and Diffusion in the texture manager, and the       *)
(* textures of VolumeRenderer that follow the size of the window.          *)
(*                                                                         *)
(* DXUT creates the device, then the swap chain; renders frames, resizing  *)
(* the swap chain with the window; and destroys the device when it is lost *)
(* or the program ends.  Which parts of Scene::Render a frame runs is the  *)
(* subject of module Scene; here any part may run at any time.             *)
(***************************************************************************)
EXTENDS TextureManager

CONSTANTS Window,       \* sizes of the window
          MaxFailures   \* bound on failing Direct3D calls in a behaviour

ASSUME DeviceAssumption ==
  /\ Null \notin Size \cup Window
  /\ Null \notin [n : 1 .. 12, replaced : BOOLEAN]
  /\ MaxFailures \in Nat

VARIABLES
  phase,          \* the last callback: "none", "created", "ready", or "over"
  g_Window,       \* g_Width and g_Height
  g_pSceneDepthTex2D,
  manager,        \* the texture manager
  voronoiSize,    \* the texture size Voronoi has stored
  diffusionSize,  \* the texture size Diffusion has stored
  m_pSlicesVB,    \* Diffusion's vertex buffer and input layout are there
  m_iDiffTex,
  screen,         \* VolumeRenderer's two textures, two render target views and
                  \* two shader resource views, in the order they are created
  colorVar,       \* what the shader variables m_pColor3DTexSRVar and
  distVar,        \* m_pDist3DTexSRVar keep alive
  orphans,        \* the pointers whose objects were forgotten unreleased
  failures

shaderVars == <<colorVar, distVar>>
textures == <<manager, voronoiSize, diffusionSize, m_pSlicesVB, m_iDiffTex, shaderVars>>
window == <<phase, g_Window, g_pSceneDepthTex2D, screen, orphans>>
vars == <<window, textures, failures>>

-----------------------------------------------------------------------------
(* Textures of the renderers                                               *)

\* Scene::Initialize initialises Voronoi before Diffusion with a new manager,
\* so these are the numbers their textures get.
m_nColorTex3D == 1
m_nDistTex3D == 2
m_nColorSliceTex2D == 3
m_nDistSliceTex2D == 4
m_nDiffuseTex3D == <<5, 6>>
m_nDiffuseSliceTex2D == <<7, 8>>
m_nOneSliceTex3D == 9
m_nOneSliceSliceTex2D == 10
m_nIsoSurfaceTex3D == 11
m_nIsoSurfaceSliceTex2D == 12
m_nDepthBufferTex2D == 1

VoronoiTypes == <<3, 3, 2, 2>>                 \* in the order of ItlInitTextures
DiffusionTypes == <<3, 3, 2, 2, 3, 2, 3, 2>>   \* in the order of Initialize

\* The type each number is updated with, by the function its name says.
UpdateTypes == VoronoiTypes \o DiffusionTypes

\* Voronoi::ItlInitTextures and the end of Diffusion::Initialize
InitTextures(tm, size) ==
  CreateTextures(Create2DDepthBuffer(CreateTextures(tm, VoronoiTypes, size), size),
                 DiffusionTypes, size)

\* Voronoi::ItlUpdateTextures
ItlUpdateTextures(tm, size) ==
  Update2DDepthBuffer(UpdateTextures(tm, 1 .. 4, UpdateTypes, size), m_nDepthBufferTex2D, size)

\* Mutant: the textures of the isosurface are forgotten.
UpdateDiffusionNoIso(tm, size) == UpdateTextures(tm, 5 .. 10, UpdateTypes, size)

\* Mutant: the textures are created again instead of updated.
UpdateDiffusionCreates(tm, size) == CreateTextures(tm, DiffusionTypes, size)

\* The part of Diffusion::Update that follows InitSlices.
UpdateDiffusionTextures(tm, size) == UpdateTextures(tm, 5 .. 12, UpdateTypes, size)

-----------------------------------------------------------------------------
(* A shader variable of an effect holds a reference of its own to the view *)
(* it was set to, and through it to the texture: it is Null or the number  *)
(* of a texture and whether that texture was replaced in the manager since.*)

PointsAt(n) == [n |-> n, replaced |-> FALSE]

AfterUpdate(var, numbers) ==
  IF var # Null /\ var.n \in numbers THEN [var EXCEPT !.replaced = TRUE] ELSE var

\* Voronoi::Update and Diffusion::Update as UpdateBoundingBox calls them.
\* When InitSlices fails the textures of Diffusion keep their size.
UpdateBoundingBox(tm, size, slicesFail) ==
  LET t == ItlUpdateTextures(tm, size)
      replaced == IF slicesFail THEN 1 .. 4 ELSE 1 .. 12 IN
  /\ manager' = IF slicesFail THEN t ELSE UpdateDiffusionTextures(t, size)
  /\ voronoiSize' = size
  /\ diffusionSize' = size
  /\ m_pSlicesVB' = ~slicesFail
  /\ colorVar' = AfterUpdate(colorVar, replaced)
  /\ distVar' = AfterUpdate(distVar, replaced)

-----------------------------------------------------------------------------
(* The device and the window                                               *)

NoScreen == [i \in 1 .. 6 |-> Null]

Init ==
  /\ phase = "none"
  /\ g_Window \in Window
  /\ g_pSceneDepthTex2D = Null
  /\ manager = NoManager
  /\ voronoiSize = Null /\ diffusionSize = Null
  /\ m_pSlicesVB = FALSE
  /\ m_iDiffTex = 0
  /\ screen = NoScreen
  /\ colorVar = Null /\ distVar = Null
  /\ orphans = {}
  /\ failures = 0

Fail == failures < MaxFailures /\ failures' = failures + 1

\* Mutant: the old objects are not released, so they outlive a failure.
SetScreenSizeKeepsOld(w, done) == [i \in 1 .. 6 |-> IF i <= done THEN w ELSE screen[i]]

\* SetScreenSize: all six objects are released; then they are created one
\* after the other until a creation fails, after done of them.
SetScreenSize(w, done) == [i \in 1 .. 6 |-> IF i <= done THEN w ELSE Null]

\* OnD3D11CreateDevice: Initialize with the size g_iTextureWidth, ... had when
\* the last device was lost, which ends with an UpdateBoundingBox; SetScreenSize.
OnD3D11CreateDevice ==
  /\ phase = "none"
  /\ phase' = "created"
  /\ \E g, size \in Size : UpdateBoundingBox(InitTextures(manager, g), size, FALSE)
  /\ m_iDiffTex' = 0
  /\ screen' = SetScreenSize(g_Window, 6)
  /\ UNCHANGED <<g_Window, g_pSceneDepthTex2D, orphans, failures>>

\* Any call in it that fails makes it fail, and DXUT gives the device up.
OnD3D11CreateDeviceFails ==
  /\ phase = "none"
  /\ Fail
  /\ phase' = "over"
  /\ UNCHANGED <<g_Window, g_pSceneDepthTex2D, screen, orphans, textures>>

\* OnD3D11ResizedSwapChain does not look at what SetScreenSize returns.  Then
\* ReinitWindowSizeDependentRenderTargets overwrites g_pSceneDepthTex2D.
OnD3D11ResizedSwapChain(w, done) ==
  /\ phase \in {"created", "ready"}
  /\ IF done < 6 THEN Fail ELSE UNCHANGED failures
  /\ phase' = "ready"
  /\ g_Window' = w
  /\ screen' = SetScreenSize(w, done)
  /\ g_pSceneDepthTex2D' = w
  /\ orphans' = orphans \cup (IF g_pSceneDepthTex2D = Null THEN {} ELSE {"g_pSceneDepthTex2D"})
  /\ UNCHANGED textures

\* OnD3D11DestroyDevice: ~Scene releases the effects and with them their
\* variables; ~Diffusion and ~VolumeRenderer release what they hold, ~Voronoi
\* nothing; at last the texture manager goes.
OnD3D11DestroyDevice ==
  /\ phase \in {"created", "ready"}
  /\ phase' \in {"none", "over"}
  /\ manager' = DeleteInstance(manager)
  /\ voronoiSize' = Null /\ diffusionSize' = Null
  /\ m_pSlicesVB' = FALSE
  /\ m_iDiffTex' = 0
  /\ colorVar' = Null /\ distVar' = Null
  /\ screen' = NoScreen
  /\ orphans' = orphans \cup {"Voronoi::m_pInputLayout", "Voronoi::m_pSlicesVB"}
  /\ UNCHANGED <<g_Window, g_pSceneDepthTex2D, failures>>

-----------------------------------------------------------------------------
(* The parts of a frame                                                    *)

\* UpdateBoundingBox, when the box or the resolution has changed
Rebuild(size) ==
  /\ phase = "ready"
  /\ \/ UpdateBoundingBox(manager, size, FALSE) /\ UNCHANGED failures
     \/ UpdateBoundingBox(manager, size, TRUE) /\ Fail
  /\ UNCHANGED <<window, m_iDiffTex>>

\* RenderVoronoi
RenderVoronoi ==
  /\ phase = "ready"
  /\ manager' = BindTextureAsRTV(BindTextureAsRTV(manager, m_nColorSliceTex2D), m_nDistSliceTex2D)
  /\ UNCHANGED <<window, voronoiSize, diffusionSize, m_pSlicesVB, m_iDiffTex,
                 shaderVars, failures>>

\* Mutant: the colour texture is not unbound after the pass.
RenderDiffusionKeepsBound(source) ==
  LET i == m_iDiffTex + 1 IN
  /\ phase = "ready"
  /\ m_pSlicesVB
  /\ manager' = BindTextureAsSRV(BindTextureAsRTV(
       BindTextureAsSRV(manager, m_nDistTex3D), m_nDiffuseSliceTex2D[i]), source)
  /\ distVar' = PointsAt(m_nDistTex3D)
  /\ colorVar' = PointsAt(source)
  /\ m_iDiffTex' = 1 - m_iDiffTex
  /\ UNCHANGED <<window, voronoiSize, diffusionSize, m_pSlicesVB, failures>>

\* A pass of RenderDiffusion, from the Voronoi texture or the texture the last
\* pass has written.  The distance texture stays bound.
RenderDiffusion(source) ==
  LET i == m_iDiffTex + 1 IN
  /\ phase = "ready"
  /\ m_pSlicesVB
  /\ manager' = BindTextureAsSRV(BindTextureAsRTV(
       BindTextureAsSRV(manager, m_nDistTex3D), m_nDiffuseSliceTex2D[i]), source)
  /\ distVar' = PointsAt(m_nDistTex3D)
  /\ colorVar' = Null
  /\ m_iDiffTex' = 1 - m_iDiffTex
  /\ UNCHANGED <<window, voronoiSize, diffusionSize, m_pSlicesVB, failures>>

\* RenderIsoSurface and RenderOneDiffusionSlice: source is rendered into a slice.
RenderSlices(slice, source) ==
  /\ phase = "ready"
  /\ m_pSlicesVB
  /\ manager' = BindTextureAsSRV(BindTextureAsRTV(manager, slice), source)
  /\ colorVar' = Null
  /\ UNCHANGED <<window, voronoiSize, diffusionSize, m_pSlicesVB, m_iDiffTex, distVar, failures>>

\* VolumeRenderer::Render sets three variables and resets them.
RenderVolume(source) ==
  /\ phase = "ready"
  /\ manager' = BindTextureAsSRV(manager, source)
  /\ UNCHANGED <<window, voronoiSize, diffusionSize, m_pSlicesVB, m_iDiffTex,
                 shaderVars, failures>>

GetDiffusionTexture == m_nDiffuseTex3D[2 - m_iDiffTex]

Next ==
  \/ OnD3D11CreateDevice
  \/ OnD3D11CreateDeviceFails
  \/ \E w \in Window, done \in 0 .. 6 : OnD3D11ResizedSwapChain(w, done)
  \/ OnD3D11DestroyDevice
  \/ \E size \in Size : Rebuild(size)
  \/ RenderVoronoi
  \/ \E source \in {m_nColorTex3D, GetDiffusionTexture} : RenderDiffusion(source)
  \/ RenderSlices(m_nIsoSurfaceSliceTex2D, GetDiffusionTexture)
  \/ \E source \in {m_nIsoSurfaceTex3D, GetDiffusionTexture} :
       RenderSlices(m_nOneSliceSliceTex2D, source)
  \/ \E source \in {m_nOneSliceTex3D, m_nIsoSurfaceTex3D, GetDiffusionTexture} :
       RenderVolume(source)

Spec == Init /\ [][Next]_vars
-----------------------------------------------------------------------------
ShaderVariable == [n : 1 .. 12, replaced : BOOLEAN] \cup {Null}

\* Every variable has its type.
TypeOK ==
  /\ phase \in {"none", "created", "ready", "over"}
  /\ g_Window \in Window
  /\ g_pSceneDepthTex2D \in Window \cup {Null}
  /\ manager = [tex |-> manager.tex, depth |-> manager.depth, lost |-> manager.lost]
  /\ \E n \in {0, 12} : manager.tex \in [1 .. n -> Texture]
  /\ \E n \in {0, 1} : manager.depth \in [1 .. n -> Size]
  /\ manager.lost \in BOOLEAN
  /\ voronoiSize \in Size \cup {Null}
  /\ diffusionSize \in Size \cup {Null}
  /\ m_pSlicesVB \in BOOLEAN
  /\ m_iDiffTex \in {0, 1}
  /\ screen \in [1 .. 6 -> Window \cup {Null}]
  /\ colorVar \in ShaderVariable /\ distVar \in ShaderVariable
  /\ orphans \subseteq {"Voronoi::m_pInputLayout", "Voronoi::m_pSlicesVB", "g_pSceneDepthTex2D"}
  /\ failures \in 0 .. MaxFailures

\* From its first frame to its last, a device has the textures its renderers
\* count on: a slice rendered in 2D fits the 3D texture it is copied into
\* (Render2DTextureInto3DSlice), with as many slices as the loops run over, and
\* Diffusion reads Voronoi's textures at the size it tells its shader, whatever
\* numbers the textures had been created or replaced under.
CopiesFit ==
  LET Is(n, type, size) == manager.tex[n].type = type /\ manager.tex[n].size = size
      Fits(slice, volume, size) == Is(slice, 2, size) /\ Is(volume, 3, size) IN
  phase \in {"created", "ready"} =>
    /\ Fits(m_nColorSliceTex2D, m_nColorTex3D, voronoiSize)
    /\ Fits(m_nDistSliceTex2D, m_nDistTex3D, voronoiSize)
    /\ manager.depth[m_nDepthBufferTex2D] = voronoiSize
    /\ m_pSlicesVB =>
         /\ \A i \in 1 .. 2 : Fits(m_nDiffuseSliceTex2D[i], m_nDiffuseTex3D[i], diffusionSize)
         /\ Fits(m_nOneSliceSliceTex2D, m_nOneSliceTex3D, diffusionSize)
         /\ Fits(m_nIsoSurfaceSliceTex2D, m_nIsoSurfaceTex3D, diffusionSize)
         /\ diffusionSize = voronoiSize

\* The volume renderer sets its viewport to the size of the window it was told.
\* Whatever creation failed in SetScreenSize, every texture and view it has is
\* of that window, and it has no view without the texture.
ScreenFits ==
  phase \in {"created", "ready"} =>
    \A i \in 1 .. 6 :
      screen[i] # Null => screen[i] = g_Window /\ \A j \in 1 .. i : screen[j] = g_Window

\* No texture and no view of the manager is ever forgotten unreleased, by
\* replacing it or by losing the device.
NothingLost == ~manager.lost /\ (phase = "none" => manager.tex = <<>> /\ manager.depth = <<>>)

\* Replacing the textures frees them: at most one replaced texture, the
\* distance texture RenderDiffusion leaves bound, is kept in memory by a
\* shader variable until the next pass.
OnlyDistanceKept ==
  \A var \in {colorVar, distVar} :
    var # Null /\ var.replaced => var = distVar /\ var.n = m_nDistTex3D

(* The inductive invariant behind the safety properties                    *)

\* A device has its textures, all of the types they were created with, and
\* nothing of them outlives it.
TexturesOfDevice ==
  IF phase \in {"created", "ready"}
    THEN /\ manager.tex \in [1 .. 12 -> Texture] /\ manager.depth \in [1 .. 1 -> Size]
         /\ \A n \in 1 .. 12 : manager.tex[n].type = UpdateTypes[n]
    ELSE manager = NoManager

\* The colour texture is bound within a call only, the distance texture beyond it.
KeptVariables == colorVar = Null /\ (distVar # Null => distVar.n = m_nDistTex3D)

IInv == TypeOK /\ TexturesOfDevice /\ CopiesFit /\ ScreenFits /\ NothingLost /\ KeptVariables

-----------------------------------------------------------------------------
(* A statement of the source that the code does not keep                   *)

\* "Release D3D11 resources created in OnD3D11ResizedSwapChain" and "... in
\* OnD3D11CreateDevice" (VolumetricDiffusion11.cpp:895, 904): once the device is
\* destroyed, nothing made with it is left.
ReleasedWithDevice == phase = "none" => orphans = {} /\ g_pSceneDepthTex2D = Null
=============================================================================
