---------------------------- MODULE MCCatalogLoad ----------------------------
(***************************************************************************)
(* Instances of CatalogLoad for TLC.                                       *)
(***************************************************************************)
EXTENDS CatalogLoad

CONSTANTS r1, r2, r3

MCResolvers == {r1, r2, r3}
=============================================================================
