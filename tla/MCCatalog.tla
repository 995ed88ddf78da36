------------------------------- MODULE MCCatalog -------------------------------
(* Values for checking CatalogSnapshot are in the .cfg.                    *)
EXTENDS CatalogSnapshot
=============================================================================
