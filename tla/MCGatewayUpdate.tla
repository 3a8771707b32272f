---------------------------- MODULE MCGatewayUpdate ----------------------------
(* A small instance of GatewayUpdate, over version texts that both         *)
(* programs read: two releases, the second with a two-part version, and    *)
(* builds that are good or wrong in one field each.                        *)
EXTENDS GatewayVersions

CONSTANTS r1, r2, old, one, two, cut

(* The last text has 12 characters, one more than the header keeps.        *)
MCVersion == {"", "1.0.0", "v1.0", "1.0.10", "1.1-release", "1.1-releases"}

(* What every text reads as, put in a set so that TLC reads each text once. *)
MCReadings == {<<v, GatewayNumbers(v)>> : v \in MCVersion}
MCNumbers == [v \in MCVersion |-> (CHOOSE reading \in MCReadings : reading[1] = v)[2]]

MCKept == [v \in MCVersion |-> CopyVersionStr(v)]

MCFactory == {[version |-> v, payload |-> old] : v \in {"", "v1.0", "1.0.10"}}

MCVersionOf == [r \in {r1, r2} |-> IF r = r1 THEN "1.0.10" ELSE "1.1-releases"]

Good(r, p, f) ==
    [release |-> r, payload |-> p,
     metadata |-> [version |-> MCVersionOf[r], sha |-> p, sig |-> [form |-> f, of |-> p]]]

MCBuilds ==
    {Good(r1, one, "raw"), Good(r2, two, "der"),
     [Good(r2, two, "raw") EXCEPT !.metadata.sig = [form |-> "raw", of |-> one]],
     [Good(r2, two, "raw") EXCEPT !.metadata.sig = [form |-> "bad", of |-> Missing]],
     [Good(r1, one, "raw") EXCEPT !.metadata.sig = [form |-> "absent", of |-> Missing]],
     [Good(r1, one, "raw") EXCEPT !.metadata.sha = "bad"],
     [Good(r2, two, "raw") EXCEPT !.payload = cut]}

MCIndexes ==
    {[latest |-> r1, direct |-> TRUE, listed |-> {}],
     [latest |-> r2, direct |-> FALSE, listed |-> {r1, r2}],
     [latest |-> r2, direct |-> FALSE, listed |-> {r1}]}
=============================================================================
