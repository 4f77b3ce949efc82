---------------------------- MODULE MCCatalogueSync ----------------------------
(* Instances of CatalogueSync for model checking. *)
EXTENDS CatalogueSync

CONSTANTS t1, t2, p1, p2

OneTab == {t1}
TwoTabs == {t1, t2}
OneProduct == {p1}
TwoProducts == {p1, p2}
===============================================================================
