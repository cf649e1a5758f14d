--------------------------- MODULE MCModelInstance ---------------------------
(* ModelInstance on small instances. *)
EXTENDS ModelInstance

=============================================================================
