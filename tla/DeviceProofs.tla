---------------------------- MODULE DeviceProofs ----------------------------
(***************************************************************************)
(* What holds of the Direct3D objects for all sizes of textures and        *)
(* windows, any number of lost devices and of failing calls.               *)
(***************************************************************************)
EXTENDS Device, SequenceTheorems, TLAPS

-----------------------------------------------------------------------------
(* The texture manager                                                     *)

\* The manager of a running device, with its textures of the types in use.
IsManager(tm) ==
  /\ tm = [tex |-> tm.tex, depth |-> tm.depth, lost |-> FALSE]
  /\ tm.tex \in [1 .. 12 -> Texture] /\ tm.depth \in [1 .. 1 -> Size]
  /\ \A n \in 1 .. 12 : tm.tex[n].type = UpdateTypes[n]

\* A function on 1 .. n is a sequence of length n.
LEMMA SequenceOfLength ==
  ASSUME NEW S, NEW n \in Nat, NEW s \in [1 .. n -> S]
  PROVE  s \in Seq(S) /\ Len(s) = n
<1>1. s \in Seq(S)  BY SeqDef
<1>2. DOMAIN s = 1 .. Len(s) /\ Len(s) \in Nat  BY <1>1, LenProperties
<1>3. QED  BY <1>1, <1>2

\* Voronoi's textures come before Diffusion's.
LEMMA FourAndEight ==
  ASSUME NEW S, NEW s \in [1 .. 4 -> S], NEW t \in [1 .. 8 -> S]
  PROVE  /\ s \o t \in [1 .. 12 -> S]
         /\ \A i \in 1 .. 12 : (s \o t)[i] = IF i <= 4 THEN s[i] ELSE t[i - 4]
<1>1. s \in Seq(S) /\ Len(s) = 4
  <2>1. PICK n \in Nat : n = 4  OBVIOUS
  <2>2. s \in [1 .. n -> S]  BY <2>1
  <2>3. s \in Seq(S) /\ Len(s) = n  BY <2>2, SequenceOfLength
  <2>4. QED  BY <2>1, <2>3
<1>2. t \in Seq(S) /\ Len(t) = 8
  <2>1. PICK n \in Nat : n = 8  OBVIOUS
  <2>2. t \in [1 .. n -> S]  BY <2>1
  <2>3. t \in Seq(S) /\ Len(t) = n  BY <2>2, SequenceOfLength
  <2>4. QED  BY <2>1, <2>3
<1>3. /\ s \o t \in Seq(S)
      /\ Len(s \o t) = Len(s) + Len(t)
      /\ \A i \in 1 .. Len(s) + Len(t) : (s \o t)[i] = IF i <= Len(s) THEN s[i] ELSE t[i - Len(s)]
  BY <1>1, <1>2, ConcatProperties, Zenon
<1>4. s \o t \in [1 .. Len(s \o t) -> S]  BY <1>3, LenProperties, Zenon
<1>5. Len(s) + Len(t) = 12  BY <1>1, <1>2
<1>6. QED  BY <1>1, <1>2, <1>3, <1>4, <1>5, Zenon

\* The types of the twelve numbers.
LEMMA TwelveTypes ==
  /\ UpdateTypes \in [1 .. 12 -> {2, 3}]
  /\ UpdateTypes[1] = 3 /\ UpdateTypes[2] = 3 /\ UpdateTypes[3] = 2 /\ UpdateTypes[4] = 2
  /\ UpdateTypes[5] = 3 /\ UpdateTypes[6] = 3 /\ UpdateTypes[7] = 2 /\ UpdateTypes[8] = 2
  /\ UpdateTypes[9] = 3 /\ UpdateTypes[10] = 2 /\ UpdateTypes[11] = 3 /\ UpdateTypes[12] = 2
<1> DEFINE v == VoronoiTypes
           d == DiffusionTypes
           T == {2, 3}
<1>1. /\ v \in [1 .. 4 -> T] /\ v[1] = 3 /\ v[2] = 3 /\ v[3] = 2 /\ v[4] = 2
  BY DEF VoronoiTypes
<1>2. /\ d \in [1 .. 8 -> T] /\ d[1] = 3 /\ d[2] = 3 /\ d[3] = 2 /\ d[4] = 2
      /\ d[5] = 3 /\ d[6] = 2 /\ d[7] = 3 /\ d[8] = 2
  BY DEF DiffusionTypes
<1> HIDE DEF v, d, T
<1> DEFINE u == v \o d
<1>3. /\ u \in [1 .. 12 -> T]
      /\ \A i \in 1 .. 12 : u[i] = IF i <= 4 THEN v[i] ELSE d[i - 4]
  <2>1. v \in [1 .. 4 -> T] /\ d \in [1 .. 8 -> T]  BY <1>1, <1>2
  <2>2. QED  BY <2>1, FourAndEight, ZenonT(40)
<1>4. UpdateTypes = u  BY DEF UpdateTypes, v, d
<1> HIDE DEF u
<1>5. QED  BY <1>1, <1>2, <1>3, <1>4 DEF T

\* Initialize fills a new manager with the twelve textures and a depth buffer.
LEMMA InitTexturesResult ==
  ASSUME NEW g \in Size
  PROVE  IsManager(InitTextures(NoManager, g))
<1> DEFINE v == [i \in DOMAIN VoronoiTypes |-> NewTexture(VoronoiTypes[i], g)]
           d == [i \in DOMAIN DiffusionTypes |-> NewTexture(DiffusionTypes[i], g)]
           w == v \o d
<1>0. FALSE \in BOOLEAN  BY Zenon
<1>1. /\ DOMAIN VoronoiTypes = 1 .. 4 /\ \A i \in 1 .. 4 : VoronoiTypes[i] \in {2, 3}
      /\ DOMAIN DiffusionTypes = 1 .. 8 /\ \A i \in 1 .. 8 : DiffusionTypes[i] \in {2, 3}
  BY DEF VoronoiTypes, DiffusionTypes
<1>2. v \in [1 .. 4 -> Texture] /\ d \in [1 .. 8 -> Texture]
  BY <1>0, <1>1 DEF NewTexture, Texture
<1>3. /\ \A n \in 1 .. 4 : v[n].type = UpdateTypes[n]
      /\ \A n \in 1 .. 8 : d[n].type = UpdateTypes[n + 4]
  BY <1>1, TwelveTypes DEF NewTexture, VoronoiTypes, DiffusionTypes
<1>4. InitTextures(NoManager, g)
        = [[[NoManager EXCEPT !.tex = @ \o v] EXCEPT !.depth = Append(@, g)] EXCEPT !.tex = @ \o d]
  BY DEF InitTextures, CreateTextures, Create2DDepthBuffer
<1> HIDE DEF v, d
<1>5. /\ w \in [1 .. 12 -> Texture]
      /\ \A i \in 1 .. 12 : w[i] = IF i <= 4 THEN v[i] ELSE d[i - 4]
  BY <1>2, FourAndEight, ZenonT(40)
<1>6. <<>> \o v = v
  <2>1. 4 \in Nat  OBVIOUS
  <2>2. v \in Seq(Texture)  BY <1>2, <2>1, SequenceOfLength, Zenon
  <2>3. QED  BY <2>2, ConcatEmptySeq, Zenon
<1> DEFINE one == Append(<<>>, g)
<1>7. one \in [1 .. 1 -> Size]  OBVIOUS
<1>8. InitTextures(NoManager, g) = [tex |-> w, depth |-> one, lost |-> FALSE]
  BY <1>4, <1>6 DEF NoManager
<1> HIDE DEF w, one
<1>9. \A n \in 1 .. 12 : w[n].type = UpdateTypes[n]
  <2> SUFFICES ASSUME NEW n \in 1 .. 12 PROVE w[n].type = UpdateTypes[n]  OBVIOUS
  <2>1. CASE n <= 4  BY <1>3, <1>5, <2>1
  <2>2. CASE n > 4
    <3>1. n - 4 \in 1 .. 8 /\ n = (n - 4) + 4  BY <2>2
    <3>2. w[n] = d[n - 4]  BY <1>5, <2>2
    <3>3. d[n - 4].type = UpdateTypes[n]  BY <1>3, <3>1
    <3>4. QED  BY <3>2, <3>3
  <2>3. QED  BY <2>1, <2>2
<1>10. QED  BY <1>5, <1>7, <1>8, <1>9 DEF IsManager

\* new is tm after an update of textures to a new size.
Updated(new, tm, numbers, size) ==
  /\ IsManager(new)
  /\ new.depth = tm.depth
  /\ \A n \in 1 .. 12 : new.tex[n].size = IF n \in numbers THEN size ELSE tm.tex[n].size

\* An update replaces textures under their numbers, with new ones of the same
\* types and the new size, and loses none.
LEMMA UpdateTexturesResult ==
  ASSUME NEW tm, IsManager(tm), NEW numbers, numbers \subseteq 1 .. 12, NEW size \in Size,
         NEW t, t = UpdateTextures(tm, numbers, UpdateTypes, size)
  PROVE  Updated(t, tm, numbers, size)
<1> DEFINE tex == [n \in 1 .. 12 |-> IF n \in numbers THEN NewTexture(UpdateTypes[n], size)
                                     ELSE tm.tex[n]]
<1>0. FALSE \in BOOLEAN  BY Zenon
<1>1. tm = [tex |-> tm.tex, depth |-> tm.depth, lost |-> FALSE] /\ DOMAIN tm.tex = 1 .. 12
  BY DEF IsManager
<1>2. \A n \in numbers : ~IsLive(Released(tm.tex[n]))
  <2> SUFFICES ASSUME NEW n \in numbers PROVE ~IsLive(Released(tm.tex[n]))  OBVIOUS
  <2>1. tm.tex[n] \in Texture  BY DEF IsManager
  <2>2. /\ Released(tm.tex[n]).size = Null
        /\ Released(tm.tex[n]).rtv = FALSE /\ Released(tm.tex[n]).srv = FALSE
    BY <2>1 DEF Released, Texture
  <2>3. QED  BY <2>2 DEF IsLive
<1>3. t = [tex |-> tex, depth |-> tm.depth, lost |-> FALSE]
  <2>1. (\E n \in numbers : IsLive(Released(tm.tex[n]))) = FALSE  BY <1>2
  <2> DEFINE lost == tm.lost \/ \E n \in numbers : IsLive(Released(tm.tex[n]))
  <2>2. t = [tm EXCEPT !.tex = tex, !.lost = lost]
    BY <1>1, Zenon DEF UpdateTextures
  <2>3. lost = FALSE
    <3>1. tm.lost = FALSE  BY DEF IsManager
    <3>2. QED  BY <2>1, <3>1
  <2> HIDE DEF lost, tex
  <2>4. QED  BY <1>1, <2>2, <2>3
<1>4. \A n \in 1 .. 12 : NewTexture(UpdateTypes[n], size) \in Texture
  BY <1>0, TwelveTypes DEF NewTexture, Texture
<1>5. tex \in [1 .. 12 -> Texture]
  BY <1>4 DEF IsManager
<1>6. \A n \in 1 .. 12 : /\ tex[n].type = UpdateTypes[n]
                         /\ tex[n].size = IF n \in numbers THEN size ELSE tm.tex[n].size
  BY DEF NewTexture, IsManager
<1> HIDE DEF tex
<1>7. QED  BY <1>3, <1>5, <1>6 DEF IsManager, Updated

\* new is tm with other views, under the same numbers, types and sizes.
OtherViews(new, tm) ==
  /\ IsManager(new)
  /\ new.depth = tm.depth
  /\ \A n \in 1 .. 12 : new.tex[n].size = tm.tex[n].size

\* Binding makes a view.
LEMMA BindResult ==
  ASSUME NEW tm, IsManager(tm), NEW n \in 1 .. 12
  PROVE  OtherViews(BindTextureAsRTV(tm, n), tm) /\ OtherViews(BindTextureAsSRV(tm, n), tm)
<1>0. TRUE \in BOOLEAN  BY Zenon
<1>1. tm.tex[n] \in Texture /\ tm.tex \in [1 .. 12 -> Texture]  BY DEF IsManager
<1>2. ASSUME NEW x \in Texture, x.type = tm.tex[n].type, x.size = tm.tex[n].size,
             NEW t, t = [tm EXCEPT !.tex = [tm.tex EXCEPT ![n] = x]]
      PROVE  OtherViews(t, tm)
  <2> DEFINE tex == [tm.tex EXCEPT ![n] = x]
  <2>1. /\ tex \in [1 .. 12 -> Texture]
        /\ \A i \in 1 .. 12 : tex[i].type = tm.tex[i].type /\ tex[i].size = tm.tex[i].size
    BY <1>1, <1>2
  <2> HIDE DEF tex
  <2>2. t = [tex |-> tex, depth |-> tm.depth, lost |-> FALSE]
    <3> DEFINE lost == FALSE
    <3>1. t = [tm EXCEPT !.tex = tex]  BY <1>2, Zenon DEF tex
    <3>2. tm = [tex |-> tm.tex, depth |-> tm.depth, lost |-> lost]  BY DEF IsManager
    <3> HIDE DEF lost
    <3>3. t = [tex |-> tex, depth |-> tm.depth, lost |-> lost]  BY <3>1, <3>2
    <3>4. QED  BY <3>3 DEF lost
  <2>3. QED  BY <2>1, <2>2 DEF IsManager, OtherViews
<1> DEFINE r == [tm.tex[n] EXCEPT !.rtv = TRUE]
           s == [tm.tex[n] EXCEPT !.srv = TRUE]
<1>3. /\ r \in Texture /\ r.type = tm.tex[n].type /\ r.size = tm.tex[n].size
      /\ s \in Texture /\ s.type = tm.tex[n].type /\ s.size = tm.tex[n].size
  BY <1>0, <1>1 DEF Texture
<1>4. /\ BindTextureAsRTV(tm, n) = [tm EXCEPT !.tex = [tm.tex EXCEPT ![n] = r]]
      /\ BindTextureAsSRV(tm, n) = [tm EXCEPT !.tex = [tm.tex EXCEPT ![n] = s]]
  BY DEF BindTextureAsRTV, BindTextureAsSRV
<1> HIDE DEF r, s
<1>5. QED  BY <1>2, <1>3, <1>4

\* So do several in a row.
LEMMA OtherViewsTransitive ==
  ASSUME NEW tm, NEW t, NEW u, OtherViews(t, tm), OtherViews(u, t)
  PROVE  OtherViews(u, tm)
BY DEF OtherViews

\* The destructor leaves nothing behind.
LEMMA DeleteInstanceResult ==
  ASSUME NEW tm, IsManager(tm)
  PROVE  DeleteInstance(tm) = NoManager
<1>1. \A n \in DOMAIN tm.tex : ~IsLive(Released(tm.tex[n]))
  <2> SUFFICES ASSUME NEW n \in DOMAIN tm.tex PROVE ~IsLive(Released(tm.tex[n]))  OBVIOUS
  <2>1. tm.tex[n] \in Texture  BY DEF IsManager
  <2>2. /\ Released(tm.tex[n]).size = Null
        /\ Released(tm.tex[n]).rtv = FALSE /\ Released(tm.tex[n]).srv = FALSE
    BY <2>1 DEF Released, Texture
  <2>3. QED  BY <2>2 DEF IsLive
<1> DEFINE lost == tm.lost \/ \E n \in DOMAIN tm.tex : IsLive(Released(tm.tex[n]))
<1>2. lost = FALSE
  <2>1. tm.lost = FALSE  BY DEF IsManager
  <2>2. (\E n \in DOMAIN tm.tex : IsLive(Released(tm.tex[n]))) = FALSE  BY <1>1
  <2>3. QED  BY <2>1, <2>2
<1>3. DeleteInstance(tm) = [NoManager EXCEPT !.lost = lost]
  BY Zenon DEF DeleteInstance
<1> HIDE DEF lost
<1>4. QED  BY <1>2, <1>3 DEF NoManager

-----------------------------------------------------------------------------
(* A running device                                                        *)

Running == phase \in {"created", "ready"}

\* CopiesFit, in terms of the numbers alone.
SizesFit ==
  /\ \A n \in 1 .. 4 : manager.tex[n].size = voronoiSize
  /\ manager.depth[1] = voronoiSize
  /\ m_pSlicesVB => /\ \A n \in 5 .. 12 : manager.tex[n].size = diffusionSize
                    /\ diffusionSize = voronoiSize

\* The types of the variables other than the manager and the phase.
RestOK ==
  /\ g_Window \in Window
  /\ g_pSceneDepthTex2D \in Window \cup {Null}
  /\ voronoiSize \in Size \cup {Null}
  /\ diffusionSize \in Size \cup {Null}
  /\ m_pSlicesVB \in BOOLEAN
  /\ m_iDiffTex \in {0, 1}
  /\ screen \in [1 .. 6 -> Window \cup {Null}]
  /\ colorVar \in ShaderVariable /\ distVar \in ShaderVariable
  /\ orphans \subseteq {"Voronoi::m_pInputLayout", "Voronoi::m_pSlicesVB", "g_pSceneDepthTex2D"}
  /\ failures \in 0 .. MaxFailures

\* What the invariant says of a running device, and of none.
WithDevice == RestOK /\ IsManager(manager) /\ SizesFit /\ ScreenFits /\ KeptVariables
WithoutDevice == RestOK /\ phase \in {"none", "over"} /\ manager = NoManager /\ KeptVariables

\* With a device the invariant is WithDevice.
LEMMA RunningDevice == Running => (IInv <=> WithDevice)
<1> SUFFICES ASSUME Running PROVE IInv <=> WithDevice  OBVIOUS
<1>1. TypeOK /\ TexturesOfDevice /\ NothingLost <=> RestOK /\ IsManager(manager)
  <2>1. FALSE \in BOOLEAN  BY Zenon
  <2>2. CASE IsManager(manager)
    <3>1. /\ manager = [tex |-> manager.tex, depth |-> manager.depth, lost |-> FALSE]
          /\ manager.tex \in [1 .. 12 -> Texture] /\ manager.depth \in [1 .. 1 -> Size]
          /\ \A n \in 1 .. 12 : manager.tex[n].type = UpdateTypes[n]
      BY <2>2 DEF IsManager
    <3>2. manager.lost = FALSE  BY <3>1
    <3>3. /\ manager = [tex |-> manager.tex, depth |-> manager.depth, lost |-> manager.lost]
          /\ manager.lost \in BOOLEAN
      BY <2>1, <3>1, <3>2, Zenon
    <3>4. /\ \E n \in {0, 12} : manager.tex \in [1 .. n -> Texture]
          /\ \E n \in {0, 1} : manager.depth \in [1 .. n -> Size]
      BY <3>1, Zenon
    <3>5. TexturesOfDevice /\ NothingLost
      BY <3>1, <3>2, Zenon DEF Running, TexturesOfDevice, NothingLost
    <3>6. TypeOK <=> RestOK  BY <3>3, <3>4 DEF Running, TypeOK, RestOK
    <3>7. QED  BY <2>2, <3>5, <3>6
  <2>3. CASE ~IsManager(manager)
    <3>1. SUFFICES ASSUME TypeOK, TexturesOfDevice, NothingLost PROVE IsManager(manager)
      BY <2>3
    <3>2. manager.lost = FALSE  BY <3>1 DEF TypeOK, NothingLost
    <3>3. QED  BY <3>1, <3>2 DEF Running, TypeOK, TexturesOfDevice, IsManager
  <2>4. QED  BY <2>2, <2>3
<1>2. ASSUME IsManager(manager) PROVE CopiesFit <=> SizesFit
  <2>1. \A n \in 1 .. 12 : manager.tex[n].type = UpdateTypes[n]  BY <1>2 DEF IsManager
  <2>2. /\ manager.tex[1].type = 3 /\ manager.tex[2].type = 3
        /\ manager.tex[3].type = 2 /\ manager.tex[4].type = 2
        /\ manager.tex[5].type = 3 /\ manager.tex[6].type = 3
        /\ manager.tex[7].type = 2 /\ manager.tex[8].type = 2
        /\ manager.tex[9].type = 3 /\ manager.tex[10].type = 2
        /\ manager.tex[11].type = 3 /\ manager.tex[12].type = 2
    BY <2>1, TwelveTypes
  <2>3. 1 .. 4 = {1, 2, 3, 4} /\ 5 .. 12 = {5, 6, 7, 8, 9, 10, 11, 12} /\ 1 .. 2 = {1, 2}
    OBVIOUS
  <2>4. QED
    BY <2>2, <2>3
       DEF Running, CopiesFit, SizesFit, m_nColorTex3D, m_nDistTex3D, m_nColorSliceTex2D,
           m_nDistSliceTex2D, m_nDepthBufferTex2D, m_nDiffuseTex3D, m_nDiffuseSliceTex2D,
           m_nOneSliceTex3D, m_nOneSliceSliceTex2D, m_nIsoSurfaceTex3D, m_nIsoSurfaceSliceTex2D
<1>3. QED  BY <1>1, <1>2 DEF IInv, WithDevice

\* Without a device it is WithoutDevice.
LEMMA NoDevice == ~Running => (IInv <=> WithoutDevice)
<1> SUFFICES ASSUME ~Running PROVE IInv <=> WithoutDevice  OBVIOUS
<1>1. ASSUME manager = NoManager, RestOK, phase \in {"none", "over"}
      PROVE  TypeOK /\ TexturesOfDevice /\ CopiesFit /\ ScreenFits /\ NothingLost
  <2>1. /\ manager.tex \in [1 .. 0 -> Texture] /\ manager.tex = <<>>
        /\ manager.depth \in [1 .. 0 -> Size] /\ manager.depth = <<>>
        /\ manager.lost = FALSE
        /\ manager = [tex |-> manager.tex, depth |-> manager.depth, lost |-> manager.lost]
    BY <1>1 DEF NoManager
  <2>2. manager.lost \in BOOLEAN  BY <2>1, Zenon
  <2>3. QED
    BY <1>1, <2>1, <2>2
       DEF Running, TypeOK, RestOK, TexturesOfDevice, CopiesFit, ScreenFits, NothingLost
<1>2. ASSUME IInv PROVE RestOK /\ phase \in {"none", "over"} /\ manager = NoManager
  BY <1>2 DEF Running, IInv, TypeOK, TexturesOfDevice, RestOK
<1>3. QED  BY <1>1, <1>2 DEF IInv, WithoutDevice

\* The same of the next state.
LEMMA RunningDeviceNext == Running' => (IInv' <=> WithDevice')
BY RunningDevice, PTL

\* The same of the next state.
LEMMA NoDeviceNext == ~Running' => (IInv' <=> WithoutDevice')
BY NoDevice, PTL

-----------------------------------------------------------------------------
(* Every step preserves the invariant                                      *)

\* An update of a texture a variable points at leaves it pointing at one.
LEMMA AfterUpdateResult ==
  ASSUME NEW var \in ShaderVariable, NEW numbers
  PROVE  /\ AfterUpdate(var, numbers) \in ShaderVariable
         /\ AfterUpdate(var, numbers) = Null <=> var = Null
         /\ var # Null => AfterUpdate(var, numbers).n = var.n
<1>0. TRUE \in BOOLEAN  BY Zenon
<1>1. CASE var = Null  BY <1>1 DEF AfterUpdate
<1>2. CASE var # Null
  <2>1. var \in [n : 1 .. 12, replaced : BOOLEAN]  BY <1>2 DEF ShaderVariable
  <2> DEFINE w == [var EXCEPT !.replaced = TRUE]
  <2>2. w \in [n : 1 .. 12, replaced : BOOLEAN] /\ w.n = var.n  BY <1>0, <2>1
  <2>3. w \in ShaderVariable /\ AfterUpdate(var, numbers) \in {w, var}
    BY <2>2 DEF ShaderVariable, AfterUpdate
  <2>4. w # Null
    <3> HIDE DEF w
    <3>1. QED  BY <2>2, DeviceAssumption
  <2>5. QED  BY <1>2, <2>2, <2>3, <2>4
<1>3. QED  BY <1>1, <1>2

\* Updating the textures to a new box or resolution, in whole or without those
\* of Diffusion, whose slices then are not drawn.
LEMMA UpdateBoundingBoxResult ==
  ASSUME NEW tm, IsManager(tm), NEW size \in Size, NEW slicesFail \in BOOLEAN,
         UpdateBoundingBox(tm, size, slicesFail),
         KeptVariables, colorVar \in ShaderVariable, distVar \in ShaderVariable
  PROVE  /\ IsManager(manager') /\ SizesFit' /\ KeptVariables'
         /\ voronoiSize' \in Size /\ diffusionSize' \in Size /\ m_pSlicesVB' \in BOOLEAN
         /\ colorVar' \in ShaderVariable /\ distVar' \in ShaderVariable
<1> DEFINE u == UpdateTextures(tm, 1 .. 4, UpdateTypes, size)
           v == ItlUpdateTextures(tm, size)
           w == UpdateDiffusionTextures(v, size)
<1> DEFINE four == 1 .. 4
           eight == 5 .. 12
<1>0. /\ u = UpdateTextures(tm, four, UpdateTypes, size)
      /\ w = UpdateTextures(v, eight, UpdateTypes, size)
      /\ v = [u EXCEPT !.depth = [@ EXCEPT ![1] = size]]
  BY DEF UpdateDiffusionTextures, ItlUpdateTextures, Update2DDepthBuffer, m_nDepthBufferTex2D
<1>1. four \subseteq 1 .. 12 /\ eight \subseteq 1 .. 12  OBVIOUS
<1> HIDE DEF u, v, w, four, eight
<1>2. IsManager(u) /\ \A n \in 1 .. 12 : u.tex[n].size = IF n \in four THEN size ELSE tm.tex[n].size
  <2>1. Updated(u, tm, four, size)  BY <1>0, <1>1, UpdateTexturesResult
  <2>2. QED  BY <2>1 DEF Updated
<1>3. IsManager(v) /\ v.tex = u.tex /\ v.depth[1] = size
  <2> DEFINE lost == FALSE
             depth == [u.depth EXCEPT ![1] = size]
  <2>1. u = [tex |-> u.tex, depth |-> u.depth, lost |-> lost]  BY <1>2 DEF IsManager
  <2>2. depth \in [1 .. 1 -> Size] /\ depth[1] = size  BY <1>2 DEF IsManager
  <2>3. v = [u EXCEPT !.depth = depth]  BY <1>0, Zenon
  <2> HIDE DEF lost, depth
  <2>4. v = [tex |-> u.tex, depth |-> depth, lost |-> lost]  BY <2>1, <2>3
  <2>5. v.tex = u.tex /\ v.depth = depth
        /\ v = [tex |-> v.tex, depth |-> v.depth, lost |-> lost]
    BY <2>4
  <2>6. QED  BY <1>2, <2>2, <2>5 DEF IsManager, lost
<1>4. /\ IsManager(w) /\ w.depth = v.depth
      /\ \A n \in 1 .. 12 : w.tex[n].size = IF n \in eight THEN size ELSE v.tex[n].size
  <2>1. w = UpdateTextures(v, eight, UpdateTypes, size)  BY <1>0
  <2>2. IsManager(v)  BY <1>3
  <2>3. eight \subseteq 1 .. 12  BY <1>1
  <2>4. Updated(w, v, eight, size)  BY <2>1, <2>2, <2>3, UpdateTexturesResult
  <2>5. QED  BY <2>4 DEF Updated
<1>5. /\ manager' = IF slicesFail THEN v ELSE w
      /\ voronoiSize' = size /\ diffusionSize' = size /\ m_pSlicesVB' = ~slicesFail
      /\ \E numbers : /\ colorVar' = AfterUpdate(colorVar, numbers)
                      /\ distVar' = AfterUpdate(distVar, numbers)
  BY Zenon DEF UpdateBoundingBox, v, w
<1>6. IsManager(manager')  BY <1>3, <1>4, <1>5
<1>7. SizesFit'
  <2>1. \A n \in four : n \notin eight  BY DEF four, eight
  <2>2. CASE slicesFail
    <3>1. manager' = v
      <4>1. manager' = IF slicesFail THEN v ELSE w  BY <1>5
      <4>2. QED  BY <2>2, <4>1, Zenon
    <3>2. \A n \in four : v.tex[n].size = size  BY <1>1, <1>2, <1>3
    <3>3. QED  BY <1>3, <1>5, <2>2, <3>1, <3>2 DEF SizesFit, four
  <2>3. CASE ~slicesFail
    <3>1. manager' = w
      <4>1. manager' = IF slicesFail THEN v ELSE w  BY <1>5
      <4>2. QED  BY <2>3, <4>1, Zenon
    <3>2. \A n \in four : w.tex[n].size = size  BY <1>1, <1>2, <1>3, <1>4, <2>1
    <3>3. \A n \in eight : w.tex[n].size = size  BY <1>1, <1>4
    <3>4. w.depth[1] = size  BY <1>3, <1>4
    <3>5. QED  BY <1>5, <3>1, <3>2, <3>3, <3>4 DEF SizesFit, four, eight
  <2>4. QED  BY <2>2, <2>3
<1>8. KeptVariables' /\ colorVar' \in ShaderVariable /\ distVar' \in ShaderVariable
  BY <1>5, AfterUpdateResult DEF KeptVariables
<1>9. m_pSlicesVB' \in BOOLEAN  BY <1>5, Zenon
<1>10. QED  BY <1>5, <1>6, <1>7, <1>8, <1>9

\* A call that fails is counted.
LEMMA FailResult == failures \in 0 .. MaxFailures /\ Fail => failures' \in 0 .. MaxFailures
BY DeviceAssumption DEF Fail

\* The first state.
LEMMA InitIInv == Init => IInv
<1> SUFFICES ASSUME Init PROVE IInv  OBVIOUS
<1>1. ~Running /\ phase \in {"none", "over"} /\ manager = NoManager
  BY DEF Init, Running
<1>2. RestOK
  <2>1. FALSE \in BOOLEAN  BY Zenon
  <2>2. m_pSlicesVB \in BOOLEAN  BY <2>1, Zenon DEF Init
  <2>3. QED  BY <2>2, DeviceAssumption DEF Init, RestOK, ShaderVariable, NoScreen
<1>3. KeptVariables  BY DEF Init, KeptVariables
<1>4. QED  BY <1>1, <1>2, <1>3, NoDevice DEF WithoutDevice

\* OnD3D11CreateDevice: a new manager, filled and brought to the size of the scene.
LEMMA OnD3D11CreateDeviceIInv == IInv /\ OnD3D11CreateDevice => IInv'
<1> SUFFICES ASSUME IInv, OnD3D11CreateDevice PROVE IInv'  OBVIOUS
<1>1. RestOK /\ manager = NoManager /\ KeptVariables
  BY NoDevice DEF OnD3D11CreateDevice, Running, WithoutDevice
<1>2. PICK g \in Size, size \in Size : UpdateBoundingBox(InitTextures(manager, g), size, FALSE)
  BY Zenon DEF OnD3D11CreateDevice
<1> DEFINE tm == InitTextures(manager, g)
<1>3. IsManager(tm)  BY <1>1, InitTexturesResult
<1> HIDE DEF tm
<1>4. /\ IsManager(manager') /\ SizesFit' /\ KeptVariables'
      /\ voronoiSize' \in Size /\ diffusionSize' \in Size /\ m_pSlicesVB' \in BOOLEAN
      /\ colorVar' \in ShaderVariable /\ distVar' \in ShaderVariable
  <2>1. FALSE \in BOOLEAN  BY Zenon
  <2>2. UpdateBoundingBox(tm, size, FALSE)  BY <1>2 DEF tm
  <2>3. colorVar \in ShaderVariable /\ distVar \in ShaderVariable  BY <1>1 DEF RestOK
  <2>4. QED  BY <1>1, <1>3, <2>1, <2>2, <2>3, UpdateBoundingBoxResult, Zenon
<1>5. Running' /\ screen' = SetScreenSize(g_Window, 6)
      /\ UNCHANGED <<g_Window, g_pSceneDepthTex2D, orphans, failures>> /\ m_iDiffTex' = 0
  BY DEF OnD3D11CreateDevice, Running
<1>6. screen' \in [1 .. 6 -> Window \cup {Null}] /\ ScreenFits'
  BY <1>1, <1>5 DEF RestOK, SetScreenSize, ScreenFits
<1>7. RestOK'  BY <1>1, <1>4, <1>5, <1>6 DEF RestOK
<1>8. QED  BY <1>4, <1>5, <1>6, <1>7, RunningDeviceNext DEF WithDevice

\* The device is given up when a call fails.
LEMMA OnD3D11CreateDeviceFailsIInv == IInv /\ OnD3D11CreateDeviceFails => IInv'
<1> SUFFICES ASSUME IInv, OnD3D11CreateDeviceFails PROVE IInv'  OBVIOUS
<1>1. RestOK /\ manager = NoManager /\ KeptVariables
  BY NoDevice DEF OnD3D11CreateDeviceFails, Running, WithoutDevice
<1>2. failures' \in 0 .. MaxFailures
  BY <1>1, FailResult DEF OnD3D11CreateDeviceFails, RestOK
<1>3. /\ ~Running' /\ phase' = "over"
      /\ UNCHANGED <<g_Window, g_pSceneDepthTex2D, screen, orphans, manager, voronoiSize,
                     diffusionSize, m_pSlicesVB, m_iDiffTex, colorVar, distVar>>
  BY DEF OnD3D11CreateDeviceFails, Running, textures, shaderVars
<1>4. RestOK' /\ manager' = NoManager /\ KeptVariables'
  BY <1>1, <1>2, <1>3 DEF RestOK, KeptVariables
<1>5. QED  BY <1>3, <1>4, NoDeviceNext DEF WithoutDevice

\* A new window size, whether or not all of SetScreenSize succeeds.
LEMMA OnD3D11ResizedSwapChainIInv ==
  ASSUME IInv, NEW w \in Window, NEW done \in 0 .. 6, OnD3D11ResizedSwapChain(w, done)
  PROVE  IInv'
<1>1. Running /\ RestOK /\ IsManager(manager) /\ SizesFit /\ KeptVariables
  BY RunningDevice DEF OnD3D11ResizedSwapChain, Running, WithDevice
<1>2. failures' \in 0 .. MaxFailures
  BY <1>1, FailResult DEF OnD3D11ResizedSwapChain, RestOK
<1>3. /\ Running' /\ g_Window' = w /\ g_pSceneDepthTex2D' = w
      /\ screen' = SetScreenSize(w, done)
      /\ orphans' \subseteq orphans \cup {"g_pSceneDepthTex2D"}
      /\ UNCHANGED <<manager, voronoiSize, diffusionSize, m_pSlicesVB, m_iDiffTex,
                     colorVar, distVar>>
  BY DEF OnD3D11ResizedSwapChain, Running, textures, shaderVars
<1>4. screen' \in [1 .. 6 -> Window \cup {Null}] /\ ScreenFits'
  BY <1>3 DEF SetScreenSize, ScreenFits
<1>5. RestOK'  BY <1>1, <1>2, <1>3, <1>4 DEF RestOK
<1>6. IsManager(manager') /\ SizesFit' /\ KeptVariables'
  BY <1>1, <1>3 DEF SizesFit, KeptVariables
<1>7. QED  BY <1>3, <1>4, <1>5, <1>6, RunningDeviceNext DEF WithDevice

\* The end of a device.
LEMMA OnD3D11DestroyDeviceIInv == IInv /\ OnD3D11DestroyDevice => IInv'
<1> SUFFICES ASSUME IInv, OnD3D11DestroyDevice PROVE IInv'  OBVIOUS
<1>1. RestOK /\ IsManager(manager)
  BY RunningDevice DEF OnD3D11DestroyDevice, Running, WithDevice
<1>2. /\ ~Running' /\ phase' \in {"none", "over"}
      /\ manager' = DeleteInstance(manager)
      /\ voronoiSize' = Null /\ diffusionSize' = Null
      /\ m_pSlicesVB' = FALSE /\ m_iDiffTex' = 0
      /\ colorVar' = Null /\ distVar' = Null /\ screen' = NoScreen
      /\ orphans' = orphans \cup {"Voronoi::m_pInputLayout", "Voronoi::m_pSlicesVB"}
      /\ UNCHANGED <<g_Window, g_pSceneDepthTex2D, failures>>
  BY Zenon DEF OnD3D11DestroyDevice, Running
<1>3. manager' = NoManager  BY <1>1, <1>2, DeleteInstanceResult
<1>4. RestOK'
  <2>1. m_pSlicesVB' \in BOOLEAN  BY <1>2, Zenon
  <2>2. screen' \in [1 .. 6 -> Window \cup {Null}]  BY <1>2 DEF NoScreen
  <2>3. orphans' \subseteq {"Voronoi::m_pInputLayout", "Voronoi::m_pSlicesVB", "g_pSceneDepthTex2D"}
    BY <1>1, <1>2 DEF RestOK
  <2>4. QED  BY <1>1, <1>2, <2>1, <2>2, <2>3 DEF RestOK, ShaderVariable
<1>5. KeptVariables'  BY <1>2 DEF KeptVariables
<1>6. QED  BY <1>2, <1>3, <1>4, <1>5, NoDeviceNext DEF WithoutDevice

\* The textures are updated to a new box or resolution.
LEMMA RebuildIInv == ASSUME IInv, NEW size \in Size, Rebuild(size) PROVE IInv'
<1>1. RestOK /\ IsManager(manager) /\ ScreenFits /\ KeptVariables
  BY RunningDevice DEF Rebuild, Running, WithDevice
<1>2. PICK slicesFail \in BOOLEAN : UpdateBoundingBox(manager, size, slicesFail)
  BY Zenon DEF Rebuild
<1>3. /\ IsManager(manager') /\ SizesFit' /\ KeptVariables'
      /\ voronoiSize' \in Size /\ diffusionSize' \in Size /\ m_pSlicesVB' \in BOOLEAN
      /\ colorVar' \in ShaderVariable /\ distVar' \in ShaderVariable
  <2>1. colorVar \in ShaderVariable /\ distVar \in ShaderVariable  BY <1>1 DEF RestOK
  <2>2. QED  BY <1>1, <1>2, <2>1, UpdateBoundingBoxResult, Zenon
<1>4. failures' \in 0 .. MaxFailures
  <2>1. failures \in 0 .. MaxFailures  BY <1>1 DEF RestOK
  <2>2. UNCHANGED failures \/ Fail  BY Zenon DEF Rebuild
  <2>3. QED  BY <2>1, <2>2, FailResult
<1>5. /\ Running /\ UNCHANGED <<phase, g_Window, g_pSceneDepthTex2D, screen, orphans, m_iDiffTex>>
  BY DEF Rebuild, Running, window
<1>6. Running' /\ RestOK' /\ ScreenFits'
  BY <1>1, <1>3, <1>4, <1>5 DEF Running, RestOK, ScreenFits
<1>7. QED  BY <1>3, <1>6, RunningDeviceNext DEF WithDevice

\* What every step that draws leaves alone.
LEMMA DrawingIInv ==
  ASSUME IInv, Running, OtherViews(manager', manager),
         UNCHANGED <<window, voronoiSize, diffusionSize, m_pSlicesVB, failures>>,
         m_iDiffTex' \in {0, 1}, KeptVariables',
         colorVar' \in ShaderVariable, distVar' \in ShaderVariable
  PROVE  IInv'
<1>1. RestOK /\ SizesFit /\ ScreenFits  BY RunningDevice DEF WithDevice
<1>2. Running' /\ RestOK' /\ ScreenFits'  BY <1>1 DEF Running, RestOK, ScreenFits, window
<1>3. SizesFit'
  <2>1. 1 .. 4 \in SUBSET (1 .. 12) /\ 5 .. 12 \in SUBSET (1 .. 12)  OBVIOUS
  <2>2. QED  BY <1>1, <2>1 DEF SizesFit, OtherViews
<1>4. QED  BY <1>2, <1>3, RunningDeviceNext DEF WithDevice, OtherViews

\* What the steps that draw start from.
LEMMA DrawingStart ==
  ASSUME IInv, phase = "ready"
  PROVE  /\ Running /\ IsManager(manager) /\ KeptVariables
         /\ m_iDiffTex \in {0, 1} /\ colorVar \in ShaderVariable /\ distVar \in ShaderVariable
         /\ GetDiffusionTexture \in 1 .. 12 /\ m_nDiffuseSliceTex2D[m_iDiffTex + 1] \in 1 .. 12
<1>1. Running  BY DEF Running
<1>2. RestOK /\ IsManager(manager) /\ KeptVariables  BY <1>1, RunningDevice DEF WithDevice
<1>3. m_iDiffTex \in {0, 1}  BY <1>2 DEF RestOK
<1>4. GetDiffusionTexture \in 1 .. 12 /\ m_nDiffuseSliceTex2D[m_iDiffTex + 1] \in 1 .. 12
  BY <1>3 DEF GetDiffusionTexture, m_nDiffuseTex3D, m_nDiffuseSliceTex2D
<1>5. QED  BY <1>1, <1>2, <1>3, <1>4 DEF RestOK

\* RenderVoronoi binds the two slices as targets.
LEMMA RenderVoronoiIInv == IInv /\ RenderVoronoi => IInv'
<1> SUFFICES ASSUME IInv, RenderVoronoi PROVE IInv'  OBVIOUS
<1>1. /\ phase = "ready"
      /\ manager' = BindTextureAsRTV(BindTextureAsRTV(manager, 3), 4)
      /\ UNCHANGED <<window, voronoiSize, diffusionSize, m_pSlicesVB, m_iDiffTex,
                     colorVar, distVar, failures>>
  BY DEF RenderVoronoi, m_nColorSliceTex2D, m_nDistSliceTex2D, shaderVars
<1> DEFINE a == BindTextureAsRTV(manager, 3)
<1>2. OtherViews(a, manager)  BY <1>1, DrawingStart, BindResult
<1>3. IsManager(a)  BY <1>2 DEF OtherViews
<1> HIDE DEF a
<1>4. OtherViews(manager', a)  BY <1>1, <1>3, BindResult DEF a
<1>5. OtherViews(manager', manager)  BY <1>2, <1>4, OtherViewsTransitive
<1>6. KeptVariables'  BY <1>1, DrawingStart DEF KeptVariables
<1>7. QED  BY <1>1, <1>5, <1>6, DrawingStart, DrawingIInv

\* A diffusion pass leaves the distance texture bound, and no other.
LEMMA RenderDiffusionIInv ==
  ASSUME IInv, NEW source \in 1 .. 12, RenderDiffusion(source)
  PROVE  IInv'
<1> DEFINE n == m_nDiffuseSliceTex2D[m_iDiffTex + 1]
           a == BindTextureAsSRV(manager, 2)
           b == BindTextureAsRTV(a, n)
<1>1. /\ phase = "ready"
      /\ manager' = BindTextureAsSRV(b, source)
      /\ distVar' = [n |-> 2, replaced |-> FALSE] /\ colorVar' = Null
      /\ m_iDiffTex' = 1 - m_iDiffTex
      /\ UNCHANGED <<window, voronoiSize, diffusionSize, m_pSlicesVB, failures>>
  BY DEF RenderDiffusion, m_nDistTex3D, PointsAt
<1>2. n \in 1 .. 12  BY <1>1, DrawingStart
<1>3. OtherViews(a, manager)  BY <1>1, DrawingStart, BindResult
<1>4. IsManager(a)  BY <1>3 DEF OtherViews
<1> HIDE DEF n, a
<1>5. OtherViews(b, a)  BY <1>2, <1>4, BindResult
<1>6. IsManager(b)  BY <1>5 DEF OtherViews
<1> HIDE DEF b
<1>7. OtherViews(manager', b)  BY <1>1, <1>6, BindResult
<1>8. OtherViews(manager', manager)  BY <1>3, <1>5, <1>7, OtherViewsTransitive
<1>9. FALSE \in BOOLEAN  BY Zenon
<1>10. /\ KeptVariables' /\ distVar' \in ShaderVariable /\ colorVar' \in ShaderVariable
  BY <1>1, <1>9 DEF KeptVariables, m_nDistTex3D, ShaderVariable
<1>11. m_iDiffTex' \in {0, 1}  BY <1>1, DrawingStart
<1>12. QED  BY <1>1, <1>8, <1>10, <1>11, DrawingStart, DrawingIInv

\* The isosurface and the single slice.
LEMMA RenderSlicesIInv ==
  ASSUME IInv, NEW slice \in 1 .. 12, NEW source \in 1 .. 12, RenderSlices(slice, source)
  PROVE  IInv'
<1> DEFINE a == BindTextureAsRTV(manager, slice)
<1>1. /\ phase = "ready" /\ manager' = BindTextureAsSRV(a, source) /\ colorVar' = Null
      /\ UNCHANGED <<window, voronoiSize, diffusionSize, m_pSlicesVB, m_iDiffTex,
                     distVar, failures>>
  BY DEF RenderSlices
<1>2. OtherViews(a, manager)  BY <1>1, DrawingStart, BindResult
<1>3. IsManager(a)  BY <1>2 DEF OtherViews
<1> HIDE DEF a
<1>4. OtherViews(manager', a)  BY <1>1, <1>3, BindResult
<1>5. OtherViews(manager', manager)  BY <1>2, <1>4, OtherViewsTransitive
<1>6. KeptVariables' /\ colorVar' \in ShaderVariable
  BY <1>1, DrawingStart DEF KeptVariables, ShaderVariable
<1>7. QED  BY <1>1, <1>5, <1>6, DrawingStart, DrawingIInv

\* The volume on the screen.
LEMMA RenderVolumeIInv ==
  ASSUME IInv, NEW source \in 1 .. 12, RenderVolume(source)
  PROVE  IInv'
<1>1. /\ phase = "ready" /\ manager' = BindTextureAsSRV(manager, source)
      /\ UNCHANGED <<window, voronoiSize, diffusionSize, m_pSlicesVB, m_iDiffTex,
                     colorVar, distVar, failures>>
  BY DEF RenderVolume, shaderVars
<1>2. OtherViews(manager', manager)  BY <1>1, DrawingStart, BindResult
<1>3. KeptVariables'  BY <1>1, DrawingStart DEF KeptVariables
<1>4. QED  BY <1>1, <1>2, <1>3, DrawingStart, DrawingIInv

\* Every step, and the step in which nothing happens.
LEMMA NextIInv == IInv /\ [Next]_vars => IInv'
<1> SUFFICES ASSUME IInv, [Next]_vars PROVE IInv'  OBVIOUS
<1>1. CASE OnD3D11CreateDevice  BY <1>1, OnD3D11CreateDeviceIInv
<1>2. CASE OnD3D11CreateDeviceFails  BY <1>2, OnD3D11CreateDeviceFailsIInv
<1>3. CASE \E w \in Window, done \in 0 .. 6 : OnD3D11ResizedSwapChain(w, done)
  BY <1>3, OnD3D11ResizedSwapChainIInv
<1>4. CASE OnD3D11DestroyDevice  BY <1>4, OnD3D11DestroyDeviceIInv
<1>5. CASE \E size \in Size : Rebuild(size)  BY <1>5, RebuildIInv
<1>6. CASE RenderVoronoi  BY <1>6, RenderVoronoiIInv
<1>7. CASE \E source \in {m_nColorTex3D, GetDiffusionTexture} : RenderDiffusion(source)
  <2>1. PICK source \in {m_nColorTex3D, GetDiffusionTexture} : RenderDiffusion(source)  BY <1>7
  <2>2. source \in 1 .. 12  BY <2>1, DrawingStart DEF RenderDiffusion, m_nColorTex3D
  <2>3. QED  BY <2>1, <2>2, RenderDiffusionIInv
<1>8. CASE RenderSlices(m_nIsoSurfaceSliceTex2D, GetDiffusionTexture)
  <2>1. m_nIsoSurfaceSliceTex2D \in 1 .. 12 /\ GetDiffusionTexture \in 1 .. 12
    BY <1>8, DrawingStart DEF RenderSlices, m_nIsoSurfaceSliceTex2D
  <2>2. QED  BY <1>8, <2>1, RenderSlicesIInv
<1>9. CASE \E source \in {m_nIsoSurfaceTex3D, GetDiffusionTexture} :
             RenderSlices(m_nOneSliceSliceTex2D, source)
  <2>1. PICK source \in {m_nIsoSurfaceTex3D, GetDiffusionTexture} :
               RenderSlices(m_nOneSliceSliceTex2D, source)
    BY <1>9
  <2>2. source \in 1 .. 12 /\ m_nOneSliceSliceTex2D \in 1 .. 12
    BY <2>1, DrawingStart DEF RenderSlices, m_nIsoSurfaceTex3D, m_nOneSliceSliceTex2D
  <2>3. QED  BY <2>1, <2>2, RenderSlicesIInv
<1>10. CASE \E source \in {m_nOneSliceTex3D, m_nIsoSurfaceTex3D, GetDiffusionTexture} :
              RenderVolume(source)
  <2>1. PICK source \in {m_nOneSliceTex3D, m_nIsoSurfaceTex3D, GetDiffusionTexture} :
               RenderVolume(source)
    BY <1>10
  <2>2. source \in 1 .. 12
    BY <2>1, DrawingStart DEF RenderVolume, m_nIsoSurfaceTex3D, m_nOneSliceTex3D
  <2>3. QED  BY <2>1, <2>2, RenderVolumeIInv
<1>11. CASE UNCHANGED vars
  <2>1. UNCHANGED <<phase, g_Window, g_pSceneDepthTex2D, manager, voronoiSize, diffusionSize,
                    m_pSlicesVB, m_iDiffTex, screen, colorVar, distVar, orphans, failures>>
    BY <1>11 DEF vars, window, textures, shaderVars
  <2>2. TypeOK' /\ TexturesOfDevice'
    BY <2>1, ZenonT(40) DEF IInv, TypeOK, TexturesOfDevice
  <2>3. CopiesFit' /\ ScreenFits' /\ NothingLost' /\ KeptVariables'
    BY <2>1 DEF IInv, CopiesFit, ScreenFits, NothingLost, KeptVariables
  <2>4. QED  BY <2>2, <2>3 DEF IInv
<1>12. QED
  BY <1>1, <1>2, <1>3, <1>4, <1>5, <1>6, <1>7, <1>8, <1>9, <1>10, <1>11 DEF Next

-----------------------------------------------------------------------------
(* The theorems                                                            *)

\* The strengthened invariant holds in every state.
THEOREM Invariance == Spec => []IInv
<1>1. Init => IInv  BY InitIInv
<1>2. IInv /\ [Next]_vars => IInv'  BY NextIInv
<1>3. QED  BY <1>1, <1>2, PTL DEF Spec

\* Every variable keeps its type.
THEOREM TypeCorrect == Spec => []TypeOK
<1>1. IInv => TypeOK  BY DEF IInv
<1>2. QED  BY <1>1, Invariance, PTL

\* Whatever box, resolution or device is next and whatever creation fails, the
\* slices a device draws fit the textures they are copied into.
THEOREM CopiesAlwaysFit == Spec => []CopiesFit
<1>1. IInv => CopiesFit  BY DEF IInv
<1>2. QED  BY <1>1, Invariance, PTL

\* What the volume renderer has for the window is of the window's size.
THEOREM ScreenAlwaysFits == Spec => []ScreenFits
<1>1. IInv => ScreenFits  BY DEF IInv
<1>2. QED  BY <1>1, Invariance, PTL

\* The texture manager forgets no object it has not released.
THEOREM ManagerLosesNothing == Spec => []NothingLost
<1>1. IInv => NothingLost  BY DEF IInv
<1>2. QED  BY <1>1, Invariance, PTL

\* A shader variable keeps at most the replaced distance texture in memory.
THEOREM KeepsDistanceOnly == Spec => []OnlyDistanceKept
<1>1. IInv => OnlyDistanceKept
  <2>1. KeptVariables => OnlyDistanceKept  BY DEF KeptVariables, OnlyDistanceKept
  <2>2. QED  BY <2>1 DEF IInv
<1>2. QED  BY <1>1, Invariance, PTL
=============================================================================
