------------------------ MODULE MCSolutionResources ------------------------
(* Two offers, one of two handles and one of a single handle.              *)
EXTENDS SolutionResources

CONSTANTS o1, o2

MCLeases == {<<o1, 1>>, <<o1, 2>>, <<o2, 1>>}

===============================================================================
