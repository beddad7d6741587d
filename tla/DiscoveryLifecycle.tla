-------------------------- MODULE DiscoveryLifecycle --------------------------
(***************************************************************************)
(* What the discovery client promises about its collaborators (spec 4.3,  *)
(* 4.4): a two-state machine, STOPPED and RUNNING. start moves to RUNNING  *)
(* and runs the discovery source and the health poller on the store's      *)
(* current poll list; stop moves to STOPPED and halts both. Any event the  *)
(* store applies, in either state, may change the poll list; while        *)
(* RUNNING the poller is restarted on the new list at once. The store is  *)
(* seen only through its poll list.                                        *)
(***************************************************************************)
CONSTANTS Addrs   \* the addresses a poll list can hold

VARIABLES
    state,          \* "STOPPED" or "RUNNING"
    addresses,      \* getAddresses of the store
    pollTargets,    \* what the health poller polls ({} when halted)
    sourceRunning   \* the discovery source is started

avars == <<state, addresses, pollTargets, sourceRunning>>

Init ==
    /\ state = "STOPPED"
    /\ addresses \in SUBSET Addrs
    /\ pollTargets = {}
    /\ sourceRunning = FALSE

\* start(config): seed the store, then poll its addresses and discover.
Start ==
    /\ state' = "RUNNING"
    /\ addresses' \in SUBSET Addrs
    /\ pollTargets' = addresses'
    /\ sourceRunning' = TRUE

\* stop(): halt the source and the poller.
Stop ==
    /\ state' = "STOPPED"
    /\ pollTargets' = {}
    /\ sourceRunning' = FALSE
    /\ UNCHANGED addresses

\* An event applied to the store (removeRobot, a service found, a poll
\* result); while RUNNING the poller follows the new list.
ApplyEvent ==
    /\ addresses' \in SUBSET Addrs
    /\ pollTargets' = IF state = "RUNNING" THEN addresses' ELSE {}
    /\ UNCHANGED <<state, sourceRunning>>

Next == Start \/ Stop \/ ApplyEvent

Spec == Init /\ [][Next]_avars

=============================================================================
