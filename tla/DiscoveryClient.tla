--------------------------- MODULE DiscoveryClient ---------------------------
(***************************************************************************)
(* createDiscoveryClient (src/discovery-client/src/discovery-client.ts)   *)
(* composed with its store (DiscoveryStore), its health poller and its     *)
(* mDNS browser.  Every dispatch runs the reducers and then, in the same   *)
(* step, the store listener the client subscribed, as Redux calls the      *)
(* listeners synchronously at the end of dispatch.                        *)
(*                                                                         *)
(* The health poller and the mDNS browser are collaborators whose source   *)
(* is not in the repository; they are modelled from the spec: the poller  *)
(* keeps a target list and, on each tick, puts one check per target in    *)
(* flight; a check answers later, in any order, with any response, also   *)
(* after the poller was restarted or stopped (spec 5).  The browser        *)
(* reports any service (IP, name) while it runs.                           *)
(***************************************************************************)
EXTENDS DiscoveryStore

CONSTANTS
    InitialRobotsChoices,  \* values config.initialRobots may take (NULL: absent)
    ManualChoices,         \* values config.manualAddresses may take (NULL: absent)
    Responses,             \* ip -> the [health, serverHealth] answers a check of ip may give
    Services               \* the <<ip, name>> services mDNS may report

VARIABLES
    robotsByName,     \* store: name -> RobotState
    hostsByIp,        \* store: ip -> HostState
    manualAddresses,  \* store: set of manually configured IPs
    subscribed,       \* unsubscribe !== null
    pollerRunning,    \* health poller started and not stopped
    pollerList,       \* the health poller's target list
    inFlight,         \* IPs with a health check issued and not yet answered
    mdnsRunning,      \* mDNS browser started and not stopped
    notified          \* the last step called onListChange

store  == <<robotsByName, hostsByIp, manualAddresses>>
vars   == <<robotsByName, hostsByIp, manualAddresses, subscribed, pollerRunning,
            pollerList, inFlight, mdnsRunning, notified>>

Addresses == getAddresses(hostsByIp, manualAddresses)
Robots    == getRobots(robotsByName, hostsByIp)

TypeOK ==
    /\ \E D \in SUBSET Names : robotsByName \in [D -> RobotState]
    /\ \E D \in SUBSET Ips : hostsByIp \in [D -> HostState]
    /\ manualAddresses \subseteq Ips
    /\ subscribed \in BOOLEAN
    /\ pollerRunning \in BOOLEAN
    /\ pollerList \subseteq Ips
    /\ inFlight \subseteq Ips
    /\ mdnsRunning \in BOOLEAN
    /\ notified \in BOOLEAN

Init ==
    /\ robotsByName = INITIAL_STATE.robotsByName
    /\ hostsByIp = INITIAL_STATE.hostsByIp
    /\ manualAddresses = INITIAL_STATE.manualAddresses
    /\ subscribed = FALSE
    /\ pollerRunning = FALSE
    /\ pollerList = {}
    /\ inFlight = {}
    /\ mdnsRunning = FALSE
    /\ notified = FALSE

(***************************************************************************)
(* dispatch(action) for an action that leaves manualAddresses alone: the   *)
(* reducers' results, then the subscribed listener.  getAddresses and      *)
(* getRobots are memoised on the slices they read and every reducer        *)
(* returns the previous slice when nothing changed, so a selector returns  *)
(* a new reference exactly when a slice it reads changed.                  *)
(***************************************************************************)
\* Mutant: the listener restarts the poller on a change of the robot slice.
Dispatch_restartOnRobots(robots2, hosts2) ==
    LET restart == subscribed /\ robots2 # robotsByName
    IN  /\ robotsByName' = robots2
        /\ hostsByIp' = hosts2
        /\ UNCHANGED manualAddresses
        /\ pollerList' = IF restart THEN getAddresses(hosts2, manualAddresses)
                                    ELSE pollerList
        /\ pollerRunning' = (pollerRunning \/ restart)
        /\ notified' = (subscribed /\ (robots2 # robotsByName \/ hosts2 # hostsByIp))

Dispatch(robots2, hosts2) ==
    LET addrsChanged  == hosts2 # hostsByIp
        robotsChanged == robots2 # robotsByName \/ hosts2 # hostsByIp
        restart       == subscribed /\ addrsChanged
    IN  /\ robotsByName' = robots2
        /\ hostsByIp' = hosts2
        /\ UNCHANGED manualAddresses
        /\ pollerList' = IF restart THEN getAddresses(hosts2, manualAddresses)
                                    ELSE pollerList
        /\ pollerRunning' = (pollerRunning \/ restart)
        /\ notified' = (subscribed /\ robotsChanged)

(***************************************************************************)
(* start(config): dispatch(initializeState(config)), with the listener of  *)
(* an earlier start still subscribed when the client was not stopped;     *)
(* then healthPoller.start with the current addresses, mdnsBrowser.start,  *)
(* and the subscription when there is none.  initializeState returns new   *)
(* slices for every field the config supplies.                             *)
(***************************************************************************)
\* Mutant: the poller's first list is read before initializeState is dispatched.
Start_listBeforeInitialize(initialRobots, manual) ==
    LET robots2 == RobotsOnInitializeState(robotsByName, initialRobots)
        hosts2  == HostsOnInitializeState(hostsByIp, initialRobots)
        manual2 == ManualOnInitializeState(manualAddresses, manual)
    IN  /\ robotsByName' = robots2
        /\ hostsByIp' = hosts2
        /\ manualAddresses' = manual2
        /\ notified' = (subscribed /\ initialRobots # NULL)
        /\ pollerRunning' = TRUE
        /\ pollerList' = getAddresses(hostsByIp, manualAddresses)
        /\ mdnsRunning' = TRUE
        /\ subscribed' = TRUE
        /\ UNCHANGED inFlight

Start(initialRobots, manual) ==
    LET robots2 == RobotsOnInitializeState(robotsByName, initialRobots)
        hosts2  == HostsOnInitializeState(hostsByIp, initialRobots)
        manual2 == ManualOnInitializeState(manualAddresses, manual)
    IN  /\ robotsByName' = robots2
        /\ hostsByIp' = hosts2
        /\ manualAddresses' = manual2
        /\ notified' = (subscribed /\ initialRobots # NULL)
        /\ pollerRunning' = TRUE
        /\ pollerList' = getAddresses(hosts2, manual2)
        /\ mdnsRunning' = TRUE
        /\ subscribed' = TRUE
        /\ UNCHANGED inFlight

\* Mutant: stop() without healthPoller.stop().
Stop_keepsPoller ==
    /\ mdnsRunning' = FALSE
    /\ subscribed' = FALSE
    /\ notified' = FALSE
    /\ UNCHANGED <<robotsByName, hostsByIp, manualAddresses, pollerRunning,
                   pollerList, inFlight>>

\* stop(): mdnsBrowser.stop, healthPoller.stop, unsubscribe.
Stop ==
    /\ mdnsRunning' = FALSE
    /\ pollerRunning' = FALSE
    /\ subscribed' = FALSE
    /\ notified' = FALSE
    /\ UNCHANGED <<robotsByName, hostsByIp, manualAddresses, pollerList, inFlight>>

\* removeRobot(name): dispatch(removeRobot(name)), running or stopped.
RemoveRobot(name) ==
    /\ Dispatch(RobotsOnRemoveRobot(robotsByName, name),
                HostsOnRemoveRobot(hostsByIp, name))
    /\ UNCHANGED <<subscribed, mdnsRunning, inFlight>>

\* mdnsBrowser onService: dispatch(serviceFound(service)).
ServiceFound(ip, name) ==
    /\ mdnsRunning
    /\ Dispatch(RobotsOnServiceFound(robotsByName, name),
                HostsOnServiceFound(hostsByIp, ip, name))
    /\ UNCHANGED <<subscribed, mdnsRunning, inFlight>>

\* A poller tick: one health check per target, concurrently.
PollTick ==
    /\ pollerRunning
    /\ inFlight' = inFlight \cup pollerList
    /\ notified' = FALSE
    /\ UNCHANGED <<robotsByName, hostsByIp, manualAddresses, subscribed,
                   pollerRunning, pollerList, mdnsRunning>>

\* A health check of ip answers: onPollResult dispatches healthPolled.
HealthPolled(r) ==
    /\ r.ip \in inFlight
    /\ inFlight' = inFlight \ {r.ip}
    /\ Dispatch(RobotsOnHealthPolled(robotsByName, r), HostsOnHealthPolled(hostsByIp, r))
        /\ UNCHANGED <<subscribed, mdnsRunning>>

PollAnswer(ip) ==
    \E resp \in Responses[ip] : HealthPolled([ip |-> ip, health |-> resp.health,
                                          serverHealth |-> resp.serverHealth])

Next ==
    \/ \E i \in InitialRobotsChoices \cup {NULL}, m \in ManualChoices \cup {NULL} :
          Start(i, m)
    \/ Stop
    \/ \E n \in Names : RemoveRobot(n)
    \/ \E <<ip, n>> \in Services : ServiceFound(ip, n)
    \/ PollTick
    \/ \E ip \in Ips : PollAnswer(ip)

(***************************************************************************)
(* The poller's timer fires while it runs and every issued check answers   *)
(* (a timeout is an answer: FetchError).  Start, stop, removeRobot and     *)
(* mDNS announcements are the environment's and are not assumed.           *)
(***************************************************************************)
Fairness ==
    /\ WF_vars(PollTick)
    /\ \A ip \in Ips : WF_vars(PollAnswer(ip))

Spec == Init /\ [][Next]_vars /\ Fairness

(***************************************************************************)
(* Properties                                                              *)
(***************************************************************************)

\* An address names a robot the store does not know only when removeRobot
\* kept it as that robot's single address (reducer.ts REMOVE_ROBOT): such a
\* name has exactly one address.  The robots and hosts reducers resolve a
\* health poll's name separately and must agree on it.
HostsReferToKnownRobots ==
    \A n \in Names \ DOMAIN robotsByName :
        Cardinality({ip \in DOMAIN hostsByIp : hostsByIp[ip].robotName = n}) <= 1

\* While the client is started, the health poller runs and polls exactly the
\* store's addresses: the listener restarts it on every change of
\* getAddresses, and start/stop keep the subscription and the poller together.
PollerTracksAddresses ==
    subscribed => /\ pollerRunning
                  /\ pollerList = Addresses

\* Stale-address eviction (spec 8): once a check of an address answers ok on
\* both endpoints, no other address of the same robot is left unseen and
\* unreachable on both endpoints.
StaleSiblingsEvicted ==
    [][ \A ip \in inFlight \ inFlight' :
          LET h == hostsByIp'[ip] IN
          h.healthStatus = HEALTH_STATUS_OK /\ h.serverHealthStatus = HEALTH_STATUS_OK
            => \A t \in DOMAIN hostsByIp' \ {ip} :
                 hostsByIp'[t].robotName = h.robotName
                   => \/ hostsByIp'[t].seen
                      \/ hostsByIp'[t].healthStatus # HEALTH_STATUS_UNREACHABLE
                      \/ hostsByIp'[t].serverHealthStatus # HEALTH_STATUS_UNREACHABLE ]_vars

\* The seen latch: an address that has answered stays seen; only a re-seeded
\* record (start with initialRobots: no status, never polled) starts unseen.
SeenLatch ==
    [][ \A ip \in DOMAIN hostsByIp \cap DOMAIN hostsByIp' :
          hostsByIp[ip].seen /\ ~hostsByIp'[ip].seen
            => /\ hostsByIp'[ip].healthStatus = NULL
               /\ hostsByIp'[ip].serverHealthStatus = NULL ]_vars

\* The spec's stronger statement (spec 8): seen never goes from true to
\* false for any address under any event sequence.
SeenNeverReverts ==
    [][ \A ip \in DOMAIN hostsByIp \cap DOMAIN hostsByIp' :
          hostsByIp[ip].seen => hostsByIp'[ip].seen ]_vars

\* Every address the store holds names a robot or is a manual address: an
\* address the store dropped (evicted as a stale sibling, removed with its
\* robot, or replaced by a re-seed) is not re-created without a robot, which
\* would keep it in getAddresses, polled forever ("remove any unhealthy,
\* unseen ips ... to avoid polling them forever", reducer.ts).
NoOrphanAddress ==
    \A ip \in DOMAIN hostsByIp :
        hostsByIp[ip].robotName = NULL => ip \in manualAddresses

\* While the client runs, an address in the poll list gets a health status:
\* it is polled, or it leaves the list, or the client is stopped.
AddressesEventuallyPolled ==
    \A ip \in Ips :
        (subscribed /\ ip \in Addresses)
            ~> \/ ~subscribed
               \/ ip \notin Addresses
               \/ ip \in DOMAIN hostsByIp /\ hostsByIp[ip].healthStatus # NULL

\* An address that always answers ok on both endpoints as robot n.
AnswersOkAs(ip, n) == Responses[ip] = {[health |-> n, serverHealth |-> n]}

\* The client is started with a seed only finitely often.
StartsStop ==
    <>[][\A i \in InitialRobotsChoices \cup {NULL}, m \in ManualChoices \cup {NULL} :
            ~Start(i, m)]_vars

\* Eviction converges whatever order the answers of a tick land in (spec
\* 5, "any interleaving yields the same eventual state"; reducer.ts
\* HEALTH_POLLED removals): once restarts stop, an unseen address of a
\* robot whose other address always answers ok is eventually seen,
\* dropped, or the client stopped. An ok answer applied before the
\* sibling's first answer evicts nothing (the sibling has no status yet);
\* the next ok answer must, even though it leaves the good host unchanged.
UnseenSiblingsEventuallyEvicted ==
    StartsStop =>
      \A ip, j \in Ips :
        (/\ subscribed
         /\ ip # j
         /\ {ip, j} \subseteq DOMAIN hostsByIp
         /\ ~hostsByIp[ip].seen
         /\ hostsByIp[ip].robotName # NULL
         /\ hostsByIp[j].robotName = hostsByIp[ip].robotName
         /\ AnswersOkAs(j, hostsByIp[ip].robotName))
          ~> \/ ~subscribed
             \/ ip \notin DOMAIN hostsByIp
             \/ hostsByIp[ip].seen

\* The environment eventually stops re-seeding the client, removing robots
\* and announcing services: mDNS answers and user actions come to rest.
EnvironmentSettles ==
    <>[][/\ \A i \in InitialRobotsChoices \cup {NULL}, m \in ManualChoices \cup {NULL} :
               ~Start(i, m)
         /\ \A r \in Names : ~RemoveRobot(r)
         /\ \A <<a, r>> \in Services : ~ServiceFound(a, r)]_vars

\* getRobots lists ip among the addresses of robot n.
ListedUnder(ip, n) ==
    /\ n \in DOMAIN Robots
    /\ \E k \in DOMAIN Robots[n].addresses : Robots[n].addresses[k].ip = ip

\* A robot's identity follows its answers (reducer.ts HEALTH_POLLED: the
\* name is serverHealth?.name ?? health?.name ?? host?.robotName, in both
\* reducers): once the environment settles, an address at which robot n
\* answers ok on both endpoints is eventually listed under n by getRobots,
\* whatever name a seed or an announcement gave it, unless it leaves the
\* poll list or the client stops.
RobotsFollowAnswers ==
    EnvironmentSettles =>
      \A ip \in Ips, n \in Names :
        AnswersOkAs(ip, n) =>
          ((subscribed /\ ip \in Addresses)
             ~> (~subscribed \/ ip \notin Addresses \/ ListedUnder(ip, n)))

(***************************************************************************)
(* Refinement: the client implements the two-state machine of spec 4.4.   *)
(* The client is RUNNING while its store listener is subscribed; the      *)
(* poller polls its list while it runs and nothing once stopped.          *)
(***************************************************************************)
Lifecycle == INSTANCE DiscoveryLifecycle WITH
    Addrs         <- Ips,
    state         <- IF subscribed THEN "RUNNING" ELSE "STOPPED",
    addresses     <- Addresses,
    pollTargets   <- IF pollerRunning THEN pollerList ELSE {},
    sourceRunning <- mdnsRunning

\* Every behaviour of the client, with its late poll answers, repeated
\* starts and removals while stopped, is a behaviour of the lifecycle:
\* start runs the source and polls the seeded list, every store change
\* while running restarts the poller on the new list in the same step,
\* and stop halts both.
ImplementsLifecycle == Lifecycle!Spec

=============================================================================
