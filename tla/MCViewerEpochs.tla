---------------------------- MODULE MCViewerEpochs ----------------------------
(***************************************************************************)
(* TLC instance of ViewerEpochs.                                           *)
(***************************************************************************)
EXTENDS ViewerEpochs
=============================================================================
