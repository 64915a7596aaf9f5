--------------------------- MODULE MCImagePipeline ---------------------------
(***************************************************************************)
(* Instances of ImagePipeline for TLC.                                     *)
(***************************************************************************)
EXTENDS ImagePipeline

CONSTANTS i1, h1, h2, w1, w2

OneImage == {i1}
OneHook == {h1}
TwoHooks == {h1, h2}
TwoWorkers == {w1, w2}
=============================================================================
