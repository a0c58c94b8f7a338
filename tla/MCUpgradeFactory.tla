-------------------------- MODULE MCUpgradeFactory --------------------------
(***************************************************************************)
(* Small instances of UpgradeFactory.                                      *)
(***************************************************************************)
EXTENDS UpgradeFactory

\* Every request for a path without, or with, capitals.
LowerCase == {r \in Request : ~r.path.capitals}
AsRegistered == {r \in Request : r.path.capitals /\ r.version = "13" /\ r.key}
=============================================================================
