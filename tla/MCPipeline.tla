----------------------------- MODULE MCPipeline -----------------------------
(* Values for model checking the pipeline on small instances.              *)
EXTENDS PipelineInvariants, TLC

CONSTANTS c1, c2, jpg, pdf

TwoContents == {c1, c2}
TwoExts     == {jpg, pdf}
OneExt      == {jpg}

\* The contents are interchangeable in what is checked of safety.
ContentSymmetry == Permutations(TwoContents)
=============================================================================
