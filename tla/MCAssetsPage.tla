---------------------------- MODULE MCAssetsPage ----------------------------
(***************************************************************************)
(* An instance of AssetsPage for TLC: the presses of the delete buttons    *)
(* are interchangeable.                                                    *)
(***************************************************************************)
EXTENDS AssetsPage, TLC

Symmetric == Permutations(Presses)
=============================================================================
