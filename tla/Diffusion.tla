----------------------------- MODULE Diffusion -----------------------------
(***************************************************************************)
(* The diffusion renderer (Diffusion.cpp).  A diffusion texture is         *)
(* abstracted to what a reader of it depends on: the Voronoi volume the    *)
(* chain of passes started from and the number of passes applied since.    *)
(* The object keeps two such textures and renders from one into the other  *)
(* ("ping-pong"): cur = m_iDiffTex is the one the next pass writes.        *)
(* vb tells that m_pInputLayout and m_pSlicesVB exist, which the rendering *)
(* functions assert.                                                       *)
(***************************************************************************)
EXTENDS Voronoi

CONSTANTS IsoValue,      \* values of the isovalue slider
          InitIsoValue   \* 0.5, the value both Scene and Diffusion start with

ASSUME IsoAssumption == InitIsoValue \in IsoValue

\* What RenderIsoSurface reads besides the volume: m_fIsoValue, m_bShowIsoColor.
IsoSetting == [value : IsoValue, color : BOOLEAN]
InitIso == [value |-> InitIsoValue, color |-> FALSE]

IsDiffusion(f) ==
  /\ f = [depth |-> f.depth, vb |-> f.vb, tex |-> f.tex, cur |-> f.cur, step |-> f.step]
  /\ f.depth \in Nat \ {0}
  /\ f.vb \in BOOLEAN
  /\ f.cur \in {0, 1}
  /\ f.step \in Nat
  /\ f.tex = [i \in {0, 1} |-> f.tex[i]]

\* A texture as TextureManager::Update3DTexture leaves it.
BlankDiffused(d) == [src |-> BlankVolume(d), passes |-> 0]

\* Diffusion::Initialize
DiffusionInit(d) ==
  [depth |-> d, vb |-> TRUE, tex |-> [i \in {0, 1} |-> BlankDiffused(d)],
   cur |-> 0, step |-> 0]

\* Mutant: the slice buffers are released and not made again.
DiffusionUpdateNoSlices(f, d) ==
  [depth |-> d, vb |-> FALSE, tex |-> [i \in {0, 1} |-> BlankDiffused(d)],
   cur |-> f.cur, step |-> 0]

\* Diffusion::Update: new slice buffers, new textures, first step; m_iDiffTex stays.
DiffusionUpdate(f, d) ==
  [depth |-> d, vb |-> TRUE, tex |-> [i \in {0, 1} |-> BlankDiffused(d)],
   cur |-> f.cur, step |-> 0]

\* Mutant: the new size is lost when InitSlices fails, the old buffers stay.
DiffusionUpdateFailsEarly(f, d) == f

\* Diffusion::Update when InitSlices fails: it has stored the new size and
\* released the old buffers, and returns before the textures and the step.
DiffusionUpdateFails(f, d) ==
  [depth |-> d, vb |-> FALSE, tex |-> f.tex, cur |-> f.cur, step |-> f.step]

\* GetDiffusionTexture: the texture the last pass wrote
DiffusionTexture(f) == f.tex[1 - f.cur]

\* Mutant: the textures do not change roles after a pass.
DiffusePassNoSwap(f, vol) ==
  LET from == IF f.step = 0 THEN [src |-> vol, passes |-> 0] ELSE f.tex[1 - f.cur]
  IN [depth |-> f.depth, vb |-> f.vb,
      tex  |-> [f.tex EXCEPT ![f.cur] = [src |-> from.src, passes |-> from.passes + 1]],
      cur  |-> f.cur,
      step |-> f.step + 1]

\* Mutant: the pass is not counted.
DiffusePassNoCount(f, vol) ==
  LET from == IF f.step = 0 THEN [src |-> vol, passes |-> 0] ELSE f.tex[1 - f.cur]
  IN [depth |-> f.depth, vb |-> f.vb,
      tex  |-> [f.tex EXCEPT ![f.cur] = [src |-> from.src, passes |-> from.passes + 1]],
      cur  |-> 1 - f.cur,
      step |-> f.step]

\* RenderDiffusion, first branch: one pass from the Voronoi texture (step 0)
\* or from the other texture into tex[cur], then the two change roles.
DiffusePass(f, vol) ==
  LET from == IF f.step = 0 THEN [src |-> vol, passes |-> 0] ELSE f.tex[1 - f.cur]
  IN [depth |-> f.depth, vb |-> f.vb,
      tex  |-> [f.tex EXCEPT ![f.cur] = [src |-> from.src, passes |-> from.passes + 1]],
      cur  |-> 1 - f.cur,
      step |-> f.step + 1]

\* Mutant: the step counter is not reset.
DiffuseFinishNoReset(f) == f

\* RenderDiffusion, second branch: the passes are done.
DiffuseFinish(f) == [f EXCEPT !.step = 0]

-----------------------------------------------------------------------------
\* A picture is what the volume renderer or the one-slice pass samples: the
\* diffusion texture itself, or the isosurface extracted from it.
DiffusionPicture(c) == [surface |-> FALSE, vol |-> c, iso |-> InitIso]
IsoPicture(c, iso) == [surface |-> TRUE, vol |-> c, iso |-> iso]

\* RenderIsoSurface
RenderIsoSurface(f, iso) == IsoPicture(DiffusionTexture(f), iso)

\* RenderOneDiffusionSlice: all slices are cleared, and the one whose index
\* is the requested one, if the loop over the depth meets it, is coloured.
RenderOneDiffusionSlice(f, index, picture) ==
  [of |-> picture, coloured |-> {index} \cap Slice(f.depth)]

BlankOneSlice(d) == [of |-> DiffusionPicture(BlankDiffused(d)), coloured |-> {}]
=============================================================================
