--------------------------- MODULE DiscoveryStore ---------------------------
(***************************************************************************)
(* The discovery client's address store: the three reducers of            *)
(* src/discovery-client/src/store/reducer.ts as pure operators over the    *)
(* three state slices (robotsByName, hostsByIp, manualAddresses), and the  *)
(* read-side selectors (getAddresses, getRobots and the connectability     *)
(* comparator), whose source is not in the repository and which are        *)
(* modelled from the spec and the selector tests.                          *)
(*                                                                         *)
(* Data abstraction.  An IP is a model value of Ips; the port is fixed     *)
(* (DEFAULT_PORT) and left out.  A parsed /health or /server/update/health *)
(* payload is represented by the robot name it carries; an error response  *)
(* by its class: HttpError (status >= 400) or FetchError (any other error, *)
(* the transport failures).  The healthError / serverHealthError fields of *)
(* a host are determined by its status in this abstraction and are left    *)
(* out.                                                                    *)
(***************************************************************************)
EXTENDS Integers, FiniteSets, Sequences, SequencesExt, TLC

CONSTANTS
    Ips,         \* addresses a robot may be reached at
    Names,       \* robot names
    NULL,        \* JavaScript null / undefined
    IpLocality   \* [Ips -> 0..3]: loopback, link-local v4, link-local v6, other

ASSUME IpLocality \in [Ips -> 0..3]
ASSUME NULL \notin Ips \cup Names

HEALTH_STATUS_OK          == "ok"
HEALTH_STATUS_NOT_OK      == "notOk"
HEALTH_STATUS_UNREACHABLE == "unreachable"
HealthStatus == {HEALTH_STATUS_OK, HEALTH_STATUS_NOT_OK, HEALTH_STATUS_UNREACHABLE}

HttpError  == "httpError"
FetchError == "fetchError"

\* What one endpoint of a health poll returns: a payload naming a robot, or an error.
EndpointResponse == Names \cup {HttpError, FetchError}

\* The payload delivered by onPollResult for one address.
PollResults == [ip: Ips, health: EndpointResponse, serverHealth: EndpointResponse]

HostState == [robotName: Names \cup {NULL}, seen: BOOLEAN,
              healthStatus: HealthStatus \cup {NULL},
              serverHealthStatus: HealthStatus \cup {NULL}]

RobotState == [health: Names \cup {NULL}, serverHealth: Names \cup {NULL}]

\* A robot as supplied in config.initialRobots: its identity and its addresses.
RobotSeed == [health: Names \cup {NULL}, serverHealth: Names \cup {NULL},
              addresses: SUBSET Ips]

\* a ?? b
Coalesce(a, b) == IF a # NULL THEN a ELSE b

\* The parsed payload of a response, null when the endpoint answered with an error.
Payload(resp) == IF resp \in Names THEN resp ELSE NULL

\* The map with key k set to v (object spread { ...m, [k]: v }).
Put(m, k, v) == (k :> v) @@ m

\* lodash omit(m, keys)
Omit(m, keys) == Restrict(m, DOMAIN m \ keys)

\* The store's initial state: no robots, no hosts, no manual addresses.
INITIAL_STATE == [robotsByName |-> <<>>, hostsByIp |-> <<>>, manualAddresses |-> {}]

\* Mutant: the seed record leaves seen undefined.
makeHostState_seenUnset(robotName) ==
    [robotName |-> robotName, seen |-> NULL,
     healthStatus |-> NULL, serverHealthStatus |-> NULL]

makeHostState(robotName) ==
    [robotName |-> robotName, seen |-> FALSE,
     healthStatus |-> NULL, serverHealthStatus |-> NULL]

getHealthStatus(resp) ==
    IF Payload(resp) # NULL THEN HEALTH_STATUS_OK
    ELSE IF resp = HttpError THEN HEALTH_STATUS_NOT_OK
    ELSE HEALTH_STATUS_UNREACHABLE

(***************************************************************************)
(* robotsByNameReducer                                                     *)
(***************************************************************************)
RobotsOnInitializeState(robots, initialRobots) ==
    IF initialRobots = NULL THEN robots
    ELSE [n \in DOMAIN initialRobots |->
            [health |-> initialRobots[n].health,
             serverHealth |-> initialRobots[n].serverHealth]]

RobotsOnRemoveRobot(robots, name) ==
    IF name \in DOMAIN robots THEN Omit(robots, {name}) ELSE robots

RobotsOnServiceFound(robots, name) ==
    IF name \in DOMAIN robots THEN robots
    ELSE Put(robots, name, [health |-> NULL, serverHealth |-> NULL])

\* Mutant: the robot is keyed by the /health name first, unlike the hosts reducer.
RobotsOnHealthPolled_healthNameFirst(robots, r) ==
    LET name  == Coalesce(Payload(r.health), Payload(r.serverHealth))
        prior(f) == IF name \in DOMAIN robots THEN robots[name][f] ELSE NULL
        next  == [health |-> Coalesce(Payload(r.health), prior("health")),
                  serverHealth |-> Coalesce(Payload(r.serverHealth), prior("serverHealth"))]
    IN  IF name = NULL THEN robots
        ELSE IF name \in DOMAIN robots /\ robots[name] = next THEN robots
        ELSE Put(robots, name, next)

RobotsOnHealthPolled(robots, r) ==
    LET name  == Coalesce(Payload(r.serverHealth), Payload(r.health))
        prior(f) == IF name \in DOMAIN robots THEN robots[name][f] ELSE NULL
        next  == [health |-> Coalesce(Payload(r.health), prior("health")),
                  serverHealth |-> Coalesce(Payload(r.serverHealth), prior("serverHealth"))]
    IN  IF name = NULL THEN robots
        ELSE IF name \in DOMAIN robots /\ robots[name] = next THEN robots
        ELSE Put(robots, name, next)

(***************************************************************************)
(* hostsByIpReducer                                                        *)
(***************************************************************************)
HostsOnInitializeState(hosts, initialRobots) ==
    IF initialRobots = NULL THEN hosts
    ELSE [ip \in UNION {initialRobots[n].addresses : n \in DOMAIN initialRobots} |->
            makeHostState(CHOOSE n \in DOMAIN initialRobots :
                              ip \in initialRobots[n].addresses)]

HostsOnRemoveRobot(hosts, robotName) ==
    LET removals == {ip \in DOMAIN hosts : hosts[ip].robotName = robotName}
    IN  IF Cardinality(removals) > 1 THEN Omit(hosts, removals) ELSE hosts

HostsOnServiceFound(hosts, ip, robotName) ==
    LET newHost == ip \notin DOMAIN hosts \/ hosts[ip].robotName # robotName
        kept(f) == IF newHost THEN NULL ELSE hosts[ip][f]
        next    == [robotName |-> robotName, seen |-> TRUE,
                    healthStatus |-> kept("healthStatus"),
                    serverHealthStatus |-> kept("serverHealthStatus")]
    IN  IF ip \in DOMAIN hosts /\ hosts[ip] = next THEN hosts
        ELSE Put(hosts, ip, next)

\* The addresses a poll of ip, resolved to robotName, evicts: the other
\* addresses of the same robot that never answered and are unreachable.
StaleSiblings(hosts, ip, robotName) ==
    {t \in DOMAIN hosts :
        /\ t # ip
        /\ hosts[t].robotName = robotName
        /\ ~hosts[t].seen
        /\ hosts[t].healthStatus = HEALTH_STATUS_UNREACHABLE
        /\ hosts[t].serverHealthStatus = HEALTH_STATUS_UNREACHABLE}

\* Mutant: seen is recomputed from this poll alone (host?.seen dropped).
HostsOnHealthPolled_seenNotLatched(hosts, r) ==
    LET ip    == r.ip
        known == ip \in DOMAIN hosts
        robotName == Coalesce(Payload(r.serverHealth),
                       Coalesce(Payload(r.health),
                                IF known THEN hosts[ip].robotName ELSE NULL))
        healthStatus       == getHealthStatus(r.health)
        serverHealthStatus == getHealthStatus(r.serverHealth)
        seen == \/ healthStatus # HEALTH_STATUS_UNREACHABLE
                \/ serverHealthStatus # HEALTH_STATUS_UNREACHABLE
        next == [robotName |-> robotName, seen |-> seen,
                 healthStatus |-> healthStatus,
                 serverHealthStatus |-> serverHealthStatus]
        removals == IF healthStatus = HEALTH_STATUS_OK /\ serverHealthStatus = HEALTH_STATUS_OK
                    THEN StaleSiblings(hosts, ip, robotName) ELSE {}
    IN  IF known /\ hosts[ip] = next /\ removals = {} THEN hosts
        ELSE Put(Omit(hosts, removals), ip, next)

\* Mutant: the no-op short-circuit ignores the removals.
HostsOnHealthPolled_shortCircuitIgnoresRemovals(hosts, r) ==
    LET ip    == r.ip
        known == ip \in DOMAIN hosts
        robotName == Coalesce(Payload(r.serverHealth),
                       Coalesce(Payload(r.health),
                                IF known THEN hosts[ip].robotName ELSE NULL))
        healthStatus       == getHealthStatus(r.health)
        serverHealthStatus == getHealthStatus(r.serverHealth)
        seen == \/ known /\ hosts[ip].seen
                \/ healthStatus # HEALTH_STATUS_UNREACHABLE
                \/ serverHealthStatus # HEALTH_STATUS_UNREACHABLE
        next == [robotName |-> robotName, seen |-> seen,
                 healthStatus |-> healthStatus,
                 serverHealthStatus |-> serverHealthStatus]
        removals == IF healthStatus = HEALTH_STATUS_OK /\ serverHealthStatus = HEALTH_STATUS_OK
                    THEN StaleSiblings(hosts, ip, robotName) ELSE {}
    IN  IF known /\ hosts[ip] = next THEN hosts
        ELSE Put(Omit(hosts, removals), ip, next)

\* Mutant: the name the host already has wins over the polled one.
HostsOnHealthPolled_hostNameFirst(hosts, r) ==
    LET ip    == r.ip
        known == ip \in DOMAIN hosts
        robotName == Coalesce(IF known THEN hosts[ip].robotName ELSE NULL,
                       Coalesce(Payload(r.serverHealth), Payload(r.health)))
        healthStatus       == getHealthStatus(r.health)
        serverHealthStatus == getHealthStatus(r.serverHealth)
        seen == \/ known /\ hosts[ip].seen
                \/ healthStatus # HEALTH_STATUS_UNREACHABLE
                \/ serverHealthStatus # HEALTH_STATUS_UNREACHABLE
        next == [robotName |-> robotName, seen |-> seen,
                 healthStatus |-> healthStatus,
                 serverHealthStatus |-> serverHealthStatus]
        removals == IF healthStatus = HEALTH_STATUS_OK /\ serverHealthStatus = HEALTH_STATUS_OK
                    THEN StaleSiblings(hosts, ip, robotName) ELSE {}
    IN  IF known /\ hosts[ip] = next /\ removals = {} THEN hosts
        ELSE Put(Omit(hosts, removals), ip, next)

HostsOnHealthPolled(hosts, r) ==
    LET ip    == r.ip
        known == ip \in DOMAIN hosts
        robotName == Coalesce(Payload(r.serverHealth),
                       Coalesce(Payload(r.health),
                                IF known THEN hosts[ip].robotName ELSE NULL))
        healthStatus       == getHealthStatus(r.health)
        serverHealthStatus == getHealthStatus(r.serverHealth)
        seen == \/ known /\ hosts[ip].seen
                \/ healthStatus # HEALTH_STATUS_UNREACHABLE
                \/ serverHealthStatus # HEALTH_STATUS_UNREACHABLE
        next == [robotName |-> robotName, seen |-> seen,
                 healthStatus |-> healthStatus,
                 serverHealthStatus |-> serverHealthStatus]
        ipIsGood == /\ healthStatus = HEALTH_STATUS_OK
                    /\ serverHealthStatus = HEALTH_STATUS_OK
        removals == IF ipIsGood THEN StaleSiblings(hosts, ip, robotName) ELSE {}
    IN  IF known /\ hosts[ip] = next /\ removals = {} THEN hosts
        ELSE Put(Omit(hosts, removals), ip, next)

(***************************************************************************)
(* manualAddressesReducer: the list is kept as the set of its IPs.         *)
(***************************************************************************)
ManualOnInitializeState(manual, manualAddresses) ==
    Coalesce(manualAddresses, manual)

(***************************************************************************)
(* Selectors (spec 4.2; the source is not in the repository).             *)
(***************************************************************************)

\* getAddresses: every host address, then every manual address, with an IP
\* listed once (selectors.test.ts expects 127.0.0.4, a host and a manual
\* address, once).
getAddresses(hosts, manual) == DOMAIN hosts \cup manual

StatusRank(s) ==
    CASE s = HEALTH_STATUS_OK          -> 0
      [] s = HEALTH_STATUS_NOT_OK      -> 1
      [] s = HEALTH_STATUS_UNREACHABLE -> 2
      [] OTHER                         -> 3

\* Mutant: seen compared as Number(a.seen) - Number(b.seen), unseen first.
compareHostsByConnectability_seenAsNumber(a, b) ==
    LET byHealth == StatusRank(a.healthStatus) - StatusRank(b.healthStatus)
        byServer == StatusRank(a.serverHealthStatus) - StatusRank(b.serverHealthStatus)
        byIp     == IpLocality[a.ip] - IpLocality[b.ip]
        bySeen   == (IF a.seen THEN 1 ELSE 0) - (IF b.seen THEN 1 ELSE 0)
    IN  IF byHealth # 0 THEN byHealth
        ELSE IF byServer # 0 THEN byServer
        ELSE IF byIp # 0 THEN byIp
        ELSE bySeen

\* compareHostsByConnectability over address records [ip, seen, healthStatus,
\* serverHealthStatus]: negative when a is the more desirable address.
compareHostsByConnectability(a, b) ==
    LET byHealth == StatusRank(a.healthStatus) - StatusRank(b.healthStatus)
        byServer == StatusRank(a.serverHealthStatus) - StatusRank(b.serverHealthStatus)
        byIp     == IpLocality[a.ip] - IpLocality[b.ip]
        bySeen   == (IF a.seen THEN 0 ELSE 1) - (IF b.seen THEN 0 ELSE 1)
    IN  IF byHealth # 0 THEN byHealth
        ELSE IF byServer # 0 THEN byServer
        ELSE IF byIp # 0 THEN byIp
        ELSE bySeen

HostAddress(hosts, ip) ==
    [ip |-> ip, seen |-> hosts[ip].seen, healthStatus |-> hosts[ip].healthStatus,
     serverHealthStatus |-> hosts[ip].serverHealthStatus]

\* getRobots: each robot with the addresses claiming its name, best first.
getRobots(robots, hosts) ==
    [n \in DOMAIN robots |->
        [health |-> robots[n].health, serverHealth |-> robots[n].serverHealth,
         addresses |-> SortSeq(SetToSeq({HostAddress(hosts, ip) :
                                  ip \in {i \in DOMAIN hosts : hosts[i].robotName = n}}),
                               LAMBDA a, b : compareHostsByConnectability(a, b) < 0)]]

=============================================================================
