------------------------------ MODULE MCScene ------------------------------
EXTENDS Scene

CONSTANTS p1, p2, p3,   \* poses
          b1, b2        \* boxes: p1 and p2 differ in the inner surface only

MCPose == {p1, p2, p3}
MCTwoPoses == {p1, p3}
MCOnePose == {p1}
MCBox == {b1, b2}
MCBoxOf == [p \in Pose |-> IF p = p3 THEN b2 ELSE b1]
\* b2 is flat: its textures are half as deep as wide.
MCExtent == [b \in Box |-> IF b = b1 THEN <<2, 2, 2>> ELSE <<2, 2, 1>>]
\* b2 is so flat that its depth is a texel at resolution 2, and none at 1.
MCThinExtent == [b \in Box |-> IF b = b1 THEN <<3, 3, 3>> ELSE <<3, 3, 1>>]
=============================================================================
