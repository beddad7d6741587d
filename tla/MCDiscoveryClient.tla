------------------------- MODULE MCDiscoveryClient -------------------------
(***************************************************************************)
(* Model values for DiscoveryClient.  Two addresses of distinct locality, *)
(* two robot names.  The seed is the one the app passes after a restart:  *)
(* robot r1 known at both addresses; the manual list pins i2.             *)
(***************************************************************************)
EXTENDS DiscoveryClient

CONSTANTS i1, i2, r1, r2

MCIps   == {i1, i2}
MCNames == {r1, r2}

MCIpLocality == (i1 :> 1) @@ (i2 :> 3)

MCInitialRobotsChoices ==
    { r1 :> [health |-> NULL, serverHealth |-> NULL, addresses |-> {i1, i2}] }

MCManualChoices == { {i2} }

\* A robot answers both endpoints with its name, or (r1) /health only, or is
\* unreachable, or errors on both endpoints; and the two requests of one
\* check reach different robots (the IP changed hands between them).
MCAnswers ==
    { [health |-> n, serverHealth |-> n] : n \in MCNames }
    \cup { [health |-> r1, serverHealth |-> HttpError],
           [health |-> HttpError, serverHealth |-> HttpError],
           [health |-> FetchError, serverHealth |-> FetchError],
           [health |-> r1, serverHealth |-> r2] }

\* Any address may give any of them.
MCResponses == [ip \in MCIps |-> MCAnswers]

\* mDNS may report any robot at any address.
MCServices == MCIps \X MCNames

\* The fixtures of the selector tests, over the same store operators.
Fixtures == INSTANCE SelectorFixtures

\* The store's selectors, as modelled, give what selectors.test.ts expects
\* of getRobots, getAddresses and the sort by compareHostsByConnectability.
SelectorsMeetTheirTests == Fixtures!SelectorsMeetTheirTests

=============================================================================
