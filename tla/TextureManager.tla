--------------------------- MODULE TextureManager ---------------------------
(***************************************************************************)
(* The texture manager (TextureManager.cpp): 2D and 3D textures, each with *)
(* a render target and a shader resource view, and depth buffers, all      *)
(* known to the rest of the program by number.  Numbers are given out in   *)
(* order and never withdrawn, so the maps are sequences.                   *)
(*                                                                         *)
(* A texture that cannot be created fails an assertion, which is taken to  *)
(* hold here.                                                              *)
(***************************************************************************)
EXTENDS Naturals, Sequences

CONSTANTS Size,   \* sizes of the volume: width, height and depth together
          Null

\* An entry of m_TextureMap and m_TextureStateMap, and whether m_TextureRTVs
\* and m_TextureSRVs are not NULL.
Texture == [type : {2, 3}, size : Size \cup {Null}, rtv : BOOLEAN, srv : BOOLEAN]

\* A new manager.  lost: a pointer was forgotten whose object is not released.
NoManager == [tex |-> <<>>, depth |-> <<>>, lost |-> FALSE]

IsLive(t) == t.size # Null \/ t.rtv \/ t.srv

-----------------------------------------------------------------------------
\* The map entries of ItlCreate2DTexture (type 2) and ItlCreate3DTexture (type 3).
NewTexture(type, size) == [type |-> type, size |-> size, rtv |-> FALSE, srv |-> FALSE]

\* Create2DTexture and Create3DTexture, for a sequence of types: the next numbers.
CreateTextures(tm, types, size) ==
  [tm EXCEPT !.tex = @ \o [i \in DOMAIN types |-> NewTexture(types[i], size)]]

Create2DDepthBuffer(tm, size) == [tm EXCEPT !.depth = Append(@, size)]

\* Mutant: the shader resource view is not released.
ReleasedNoSRV(t) == [t EXCEPT !.size = Null, !.rtv = FALSE]

\* The three SAFE_RELEASEs of an update and of the destructor.
Released(t) == [t EXCEPT !.size = Null, !.rtv = FALSE, !.srv = FALSE]

\* Update2DTexture and Update3DTexture, for several numbers: a new texture under
\* each old number, once the old one is released.
UpdateTextures(tm, numbers, types, size) ==
  [tm EXCEPT !.tex = [n \in DOMAIN @ |-> IF n \in numbers THEN NewTexture(types[n], size) ELSE @[n]],
             !.lost = @ \/ \E n \in numbers : IsLive(Released(tm.tex[n]))]

Update2DDepthBuffer(tm, n, size) == [tm EXCEPT !.depth[n] = size]

\* BindTextureAsRTV: the old view is released, a new one made and set.
BindTextureAsRTV(tm, n) == [tm EXCEPT !.tex[n].rtv = TRUE]

\* BindTextureAsSRV, for the manager's part of it.
BindTextureAsSRV(tm, n) == [tm EXCEPT !.tex[n].srv = TRUE]

\* DeleteInstance: the numbers given out are walked through and released.
DeleteInstance(tm) ==
  [NoManager EXCEPT !.lost = tm.lost \/ \E n \in DOMAIN tm.tex : IsLive(Released(tm.tex[n]))]
=============================================================================
