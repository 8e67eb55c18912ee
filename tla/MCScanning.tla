----------------------------- MODULE MCScanning -----------------------------
(***************************************************************************)
(* Instances of Scanning for TLC: two overlapping scans of two hosts with  *)
(* device edits, and one watched scan of three hosts.                      *)
(***************************************************************************)
EXTENDS Scanning
TwoHosts == 1..2
ThreeHosts == 1..3
TwoHostSubnets == {TwoHosts, {2}}
ThreeHostSubnets == {ThreeHosts}
=============================================================================
