------------------------------ MODULE MCMigrate ------------------------------
(* Migrate for TLC: the release with the baseline alone, a later one with  *)
(* two more steps, and one whose second step was copied without a new      *)
(* version.                                                                *)
EXTENDS Migrate

MCBinaries == {<<1>>, <<1, 2, 3>>, <<1, 1>>}
=============================================================================
