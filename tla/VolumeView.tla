----------------------------- MODULE VolumeView -----------------------------
(***************************************************************************)
(* What the person in front of the window is promised about the volume     *)
(* (Scene.h): it is asked for, drawn, diffused, and then on the screen,    *)
(* frame after frame, until it is hidden or has to be diffused anew.  How  *)
(* many slices and passes this takes, and which textures hold them, is     *)
(* left to Scene.                                                          *)
(***************************************************************************)
EXTENDS Naturals

VARIABLES stage,      \* how far the volume is
          onScreen,   \* the last frame showed a volume
          losses      \* how often the device was lost

view == <<stage, onScreen, losses>>

Init == stage = "surfaces" /\ onScreen = FALSE /\ losses = 0

\* "Diffuse!" starts again from any stage.
Request == stage' = "drawing" /\ UNCHANGED <<onScreen, losses>>

\* The volume gives way to the surfaces; once asked for, a volume is drawn.
Hide == stage # "drawing" /\ stage' = "surfaces" /\ UNCHANGED <<onScreen, losses>>

\* Another number of steps sends a finished volume back to the diffusion.
Refine == stage = "presentable" /\ stage' = "diffusing" /\ UNCHANGED <<onScreen, losses>>

\* A frame of work on the volume shows nothing, or shows the finished volume.
Work ==
  /\ \/ stage = "drawing" /\ stage' \in {"drawing", "diffusing"} /\ onScreen' = FALSE
     \/ stage = "diffusing" /\ stage' = "diffusing" /\ onScreen' = FALSE
     \/ stage \in {"drawing", "diffusing"} /\ stage' = "presentable" /\ onScreen' = TRUE
  /\ UNCHANGED losses

\* A frame of a finished volume, which the user may have made invisible.
Present == stage = "presentable" /\ onScreen' \in BOOLEAN /\ UNCHANGED <<stage, losses>>

\* A frame of the surfaces alone.
Surfaces == stage = "surfaces" /\ onScreen' = FALSE /\ UNCHANGED <<stage, losses>>

\* The device is lost, and the volume with it.
Lost == stage' = "surfaces" /\ onScreen' = FALSE /\ losses' = losses + 1

Next == Request \/ Hide \/ Refine \/ Work \/ Present \/ Surfaces \/ Lost

Spec == Init /\ [][Next]_view
=============================================================================
