------------------------------ MODULE MCOrderSync ------------------------------
(* Instances of OrderSync for model checking. *)
EXTENDS OrderSync, TLC

CONSTANTS t1, t2

TwoTabs == {t1, t2}
OneTab  == {t1}

\* Tabs are interchangeable: no action or property tells one from another.
TabSymmetry == Permutations(TwoTabs)
===============================================================================
