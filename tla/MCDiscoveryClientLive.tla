----------------------- MODULE MCDiscoveryClientLive -----------------------
(***************************************************************************)
(* A smaller instance of DiscoveryClient for the liveness runs: a fixed    *)
(* world of three addresses: r1 answers ok at i1, nothing answers at i2   *)
(* (every check times out), and r2 answers ok at i3. The seed is the one  *)
(* an earlier session left: r1 at all three, so i3 changed robots since.  *)
(***************************************************************************)
EXTENDS DiscoveryClient

CONSTANTS i1, i2, i3, r1, r2

LiveIps   == {i1, i2, i3}
LiveNames == {r1, r2}

LiveIpLocality == (i1 :> 1) @@ (i2 :> 3) @@ (i3 :> 3)

LiveInitialRobotsChoices ==
    { r1 :> [health |-> NULL, serverHealth |-> NULL, addresses |-> {i1, i2, i3}] }

LiveManualChoices == { {i2} }

LiveResponses ==
    (i1 :> {[health |-> r1, serverHealth |-> r1]})
    @@ (i2 :> {[health |-> FetchError, serverHealth |-> FetchError]})
    @@ (i3 :> {[health |-> r2, serverHealth |-> r2]})

\* mDNS reports the robots where they are, and r1 also at i3, where an
\* announcement cached from before i3 changed robots can still arrive.
LiveServices == {<<i1, r1>>, <<i3, r1>>, <<i3, r2>>}

=============================================================================
