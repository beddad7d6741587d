-------------------------- MODULE SelectorFixtures --------------------------
(***************************************************************************)
(* The fixtures and expectations of                                       *)
(* src/discovery-client/src/store/__tests__/selectors.test.ts, stated     *)
(* over the store model of DiscoveryStore, so that the selectors modelled *)
(* from the spec (getAddresses, getRobots, compareHostsByConnectability)  *)
(* are checked against the repository's own tests.                        *)
(*                                                                         *)
(* The abstraction is DiscoveryStore's: an IP is its literal, ranked by   *)
(* the locality tiers of spec 4.2; a health payload is the robot name it  *)
(* carries (the mock responses are taken to name the robot they belong    *)
(* to); the port and the error payloads are left out. A field a Partial   *)
(* fixture leaves out is undefined: NULL for a status, FALSE for seen.    *)
(***************************************************************************)
EXTENDS Integers, Sequences, SequencesExt

CONSTANT NULL

FixtureIps ==
    {"127.0.0.1", "127.0.0.2", "127.0.0.3", "127.0.0.4", "127.0.0.5",
     "127.0.0.6", "localhost", "169.254.24.42", "fd00:0:cafe:fefe::1",
     "192.168.1.100", "192.168.1.1", "192.168.1.2"}

FixtureNames == {"opentrons-1", "opentrons-2", "opentrons-3"}

\* Spec 4.2 stage 3: loopback / localhost, link-local v4, link-local v6, other.
FixtureLocality ==
    [ip \in FixtureIps |->
        CASE ip \in {"127.0.0.1", "127.0.0.2", "127.0.0.3", "127.0.0.4",
                     "127.0.0.5", "127.0.0.6", "localhost"} -> 0
          [] ip = "169.254.24.42"                           -> 1
          [] ip = "fd00:0:cafe:fefe::1"                     -> 2
          [] OTHER                                          -> 3]

Store == INSTANCE DiscoveryStore
            WITH Ips <- FixtureIps, Names <- FixtureNames,
                 IpLocality <- FixtureLocality

OK          == Store!HEALTH_STATUS_OK
NOT_OK      == Store!HEALTH_STATUS_NOT_OK
UNREACHABLE == Store!HEALTH_STATUS_UNREACHABLE

-----------------------------------------------------------------------------
(* const STATE                                                             *)

\* robotsByName: opentrons-2 has no /health payload, opentrons-3 no
\* /server/update/health payload.
robotsByName ==
    [n \in FixtureNames |->
        [health       |-> IF n = "opentrons-2" THEN NULL ELSE n,
         serverHealth |-> IF n = "opentrons-3" THEN NULL ELSE n]]

Host(robotName, seen, status) ==
    [robotName |-> robotName, seen |-> seen,
     healthStatus |-> status, serverHealthStatus |-> status]

hostsByIp ==
    ("127.0.0.2" :> Host("opentrons-1", FALSE, NULL)) @@
    ("127.0.0.3" :> Host("opentrons-2", TRUE, NOT_OK)) @@
    ("127.0.0.4" :> Host("opentrons-2", FALSE, UNREACHABLE))

manualAddresses == {"127.0.0.4", "127.0.0.5", "127.0.0.6"}

\* A Partial<HostState> address record.
Addr(ip, seen, health, serverHealth) ==
    [ip |-> ip, seen |-> seen, healthStatus |-> health,
     serverHealthStatus |-> serverHealth]

\* The test's sort(arr): arr.sort(compareHostsByConnectability). The sort
\* of the JavaScript engine is stable: an element is inserted after every
\* element the comparator does not put after it.
sort(arr) ==
    FoldLeft(LAMBDA acc, e :
                InsertAt(acc,
                         1 + Len(SelectSeq(acc, LAMBDA x :
                                    Store!compareHostsByConnectability(x, e) <= 0)),
                         e),
             <<>>, arr)

-----------------------------------------------------------------------------
(* The expectations of the tests, one operator per it(...).               *)

\* 'should be able to return a list of composite robots'
CompositeRobotsTest ==
    Store!getRobots(robotsByName, hostsByIp) =
        [n \in FixtureNames |->
            [health       |-> robotsByName[n].health,
             serverHealth |-> robotsByName[n].serverHealth,
             addresses    |->
                CASE n = "opentrons-1" -> <<Addr("127.0.0.2", FALSE, NULL, NULL)>>
                  [] n = "opentrons-2" -> <<Addr("127.0.0.3", TRUE, NOT_OK, NOT_OK),
                                            Addr("127.0.0.4", FALSE, UNREACHABLE, UNREACHABLE)>>
                  [] OTHER             -> <<>>]]

\* 'should be able to get a list addresses to poll'
AddressesToPollTest ==
    Store!getAddresses(hostsByIp, manualAddresses) =
        {"127.0.0.2", "127.0.0.3", "127.0.0.4", "127.0.0.5", "127.0.0.6"}

\* 'should sort addresses with "ok" /health endpoints the highest'
HealthSortTest ==
    LET ok          == Addr("127.0.0.1", FALSE, OK, NULL)
        notOk       == Addr("127.0.0.2", FALSE, NOT_OK, NULL)
        unreachable == Addr("127.0.0.3", FALSE, UNREACHABLE, NULL)
        unknown     == Addr("127.0.0.4", FALSE, NULL, NULL)
    IN  sort(<<unknown, unreachable, notOk, ok>>) = <<ok, notOk, unreachable, unknown>>

\* 'should fall back to /server/update/health status if /health is the same'
ServerHealthSortTest ==
    LET ok          == Addr("127.0.0.1", FALSE, NOT_OK, OK)
        notOk       == Addr("127.0.0.2", FALSE, NOT_OK, NOT_OK)
        unreachable == Addr("127.0.0.3", FALSE, NOT_OK, UNREACHABLE)
        unknown     == Addr("127.0.0.4", FALSE, NOT_OK, NULL)
    IN  sort(<<unknown, unreachable, notOk, ok>>) = <<ok, notOk, unreachable, unknown>>

\* 'should prefer more local "ip" addresses', without its localhost fixture:
\* spec 4.2 puts 'localhost' in the tier of 127.0.0.1, where a stable sort
\* keeps the input order, and the test expects 127.0.0.1 first.
LocalitySortTest ==
    LET home        == Addr("127.0.0.1", FALSE, OK, OK)
        linkLocalV4 == Addr("169.254.24.42", FALSE, OK, OK)
        linkLocalV6 == Addr("fd00:0:cafe:fefe::1", FALSE, OK, OK)
        regular     == Addr("192.168.1.100", FALSE, OK, OK)
    IN  sort(<<regular, linkLocalV6, linkLocalV4, home>>)
            = <<home, linkLocalV4, linkLocalV6, regular>>

\* 'should prefer more seen "ip" addresses'
SeenSortTest ==
    LET unseen == Addr("192.168.1.1", FALSE, OK, OK)
        seen   == Addr("192.168.1.2", TRUE, OK, OK)
    IN  sort(<<unseen, seen>>) = <<seen, unseen>>

-----------------------------------------------------------------------------
\* The selectors modelled from the spec pass the repository's selector
\* tests: getRobots groups and orders each robot's addresses, getAddresses
\* lists host and manual IPs once, and compareHostsByConnectability orders
\* by /health, then /server/update/health, then locality, then seen, as the
\* engine's stable Array.prototype.sort uses it.
SelectorsMeetTheirTests ==
    /\ CompositeRobotsTest
    /\ AddressesToPollTest
    /\ HealthSortTest
    /\ ServerHealthSortTest
    /\ LocalitySortTest
    /\ SeenSortTest

=============================================================================
