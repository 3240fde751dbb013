------------------------- MODULE MCHandleRegistry -------------------------
(* The handle registry with three handle ids, two objects, two scopes: an  *)
(* object can be registered, disposed and registered again while another   *)
(* is shared.                                                              *)
EXTENDS HandleRegistry

===========================================================================
