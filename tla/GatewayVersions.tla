--------------------------- MODULE GatewayVersions ---------------------------
(***************************************************************************)
(* GatewayUpdate over real version texts: Numbers is what the gateway's    *)
(* compare_versions reads in a text (Versions), and the manager reads the  *)
(* same texts, in its own way.                                             *)
(***************************************************************************)
EXTENDS GatewayUpdate, Versions

ASSUME NumbersAssumption == \A v \in Version : Numbers[v] = GatewayNumbers(v)

(* A version the manager accepts, without digits in its suffix: those are  *)
(* read by the gateway and not by the manager.                             *)
SameForBoth(v) ==
    ValidateVersionFormat(v) /\ GatewayNumbers(v) = ManagerNumbers(v)

(* The two compare_versions agree on every update between versions that    *)
(* both programs read alike: what the gateway takes for newer and gives    *)
(* the ECU, under a version that may have been cut, is newer than the      *)
(* ECU's version for the manager, too.  Nothing is said of a version with  *)
(* digits in its suffix, 1.2.3-rc1, which they do not read alike.          *)
NewerForManager ==
    [][Forward /\ SameForBoth(LocalVersion') /\ SameForBoth(LocalVersion) =>
         ManagerCompare(LocalVersion', LocalVersion) = 1]_vars
=============================================================================
