--------------------------- MODULE MCSceneFrames ---------------------------
(* Small instances of SceneFrames for TLC.                                   *)
EXTENDS SceneFrames, TLC

CONSTANTS c1, s1, s2, b1, b2, b3, o1, o2

OneClient == [x \in Surfaces \cup Buffers |-> c1]
OneScreenEach == {{}} \cup {{o} : o \in Outputs}
AcrossScreens == SUBSET Outputs
\* Buffers are alike, and so are screens.
Alike == Permutations(Buffers) \cup Permutations(Outputs)
=============================================================================
