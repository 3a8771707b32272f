----------------------------- MODULE MCRelease ------------------------------
(* A small instance of Release: blocks of two bytes, a version that does  *)
(* not fit the header, an image that ends inside a block and one that      *)
(* fills its block and ends with a byte that looks like padding.           *)
EXTENDS Release

MCBytes == {1, 2, 7}
MCBuilds ==
    {[image |-> <<7>>,    version |-> <<"1">>,           hashed |-> TRUE],
     [image |-> <<7, 1>>, version |-> <<"1", ".", "1">>, hashed |-> FALSE]}

Symmetry == Permutations(Pairs)

(* Keys are left alone once the last release is made and the ECU is built: *)
(* nothing reads them any more.                                            *)
KeysMatter == keyVars' # keyVars => Len(releases) < MaxReleases \/ ecu = None
=============================================================================
