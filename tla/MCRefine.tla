------------------------------ MODULE MCRefine ------------------------------
(* The instances of MCObpCore, with the refinement mapping. *)
EXTENDS MCObpCore, ObpRefinesCoin
=============================================================================
