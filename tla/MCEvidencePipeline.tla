------------------------- MODULE MCEvidencePipeline -------------------------
(* Model values and symmetry for checking EvidencePipeline.                *)
EXTENDS EvidencePipeline, TLC

Symmetry == Permutations(Names) \cup Permutations(Workers)
=============================================================================
