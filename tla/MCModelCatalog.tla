--------------------------- MODULE MCModelCatalog ---------------------------
(* ModelCatalog on a small instance. *)
EXTENDS ModelCatalog
=============================================================================
