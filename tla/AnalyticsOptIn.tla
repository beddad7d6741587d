---------------------------- MODULE AnalyticsOptIn ----------------------------
(***************************************************************************)
(* The labware library's analytics opt-in hook                            *)
(* (labware-library/src/analytics/useAnalyticsOptInOrOut.js). Every       *)
(* component that calls the hook (the opt-in modal, the settings toggle)  *)
(* holds its own useState copy of the analytics state; the cookie is the  *)
(* one persisted copy they share and the only one a page reload keeps.    *)
(* The hook's state starts as the default, its mount effect reads the     *)
(* cookie (initializeAnalytics writes one if there is none) and           *)
(* setAnalyticsOptIn persists the answer and then sets the hook's state.  *)
(* The cookie helpers of analytics/utils are not in the repository and    *)
(* are modelled from the hook's own comments.                             *)
(***************************************************************************)
CONSTANTS
    Instances,  \* the mounted components that call the hook
    NULL        \* no cookie

AnalyticsStates == [seenOptIn : BOOLEAN, optedIn : BOOLEAN]

VARIABLES
    cookie,          \* the persisted analytics state, or NULL
    mounted,         \* instance -> the component is mounted
    effectRan,       \* instance -> its mount effect has run
    analyticsState,  \* instance -> useState
    otherAnswered    \* instance -> another instance answered since it read the cookie

vars == <<cookie, mounted, effectRan, analyticsState, otherAnswered>>

-----------------------------------------------------------------------------
\* getDefaultAnalyticsState: nothing seen, not opted in.
getDefaultAnalyticsState == [seenOptIn |-> FALSE, optedIn |-> FALSE]

\* getAnalyticsState: the cookie's values, or the defaults without one.
getAnalyticsState == IF cookie # NULL THEN cookie ELSE getDefaultAnalyticsState

\* initializeAnalytics writes a cookie if none exists.
initializeAnalytics(initialState) ==
    cookie' = IF cookie = NULL THEN initialState ELSE cookie

-----------------------------------------------------------------------------
\* The page loads with the cookie an earlier visit left, or none.
Init ==
    /\ cookie \in {NULL} \cup AnalyticsStates
    /\ mounted = [i \in Instances |-> FALSE]
    /\ effectRan = [i \in Instances |-> FALSE]
    /\ analyticsState = [i \in Instances |-> getDefaultAnalyticsState]
    /\ otherAnswered = [i \in Instances |-> FALSE]

\* A component calling the hook mounts: useState(getDefaultAnalyticsState).
Mount(i) ==
    /\ ~mounted[i]
    /\ mounted' = [mounted EXCEPT ![i] = TRUE]
    /\ effectRan' = [effectRan EXCEPT ![i] = FALSE]
    /\ analyticsState' = [analyticsState EXCEPT ![i] = getDefaultAnalyticsState]
    /\ otherAnswered' = [otherAnswered EXCEPT ![i] = FALSE]
    /\ UNCHANGED cookie

\* Mutant: the effect initializes analytics without setting the hook's state.
MountEffect_noSetState(i) ==
    /\ mounted[i] /\ ~effectRan[i]
    /\ initializeAnalytics(getAnalyticsState)
    /\ effectRan' = [effectRan EXCEPT ![i] = TRUE]
    /\ otherAnswered' = [otherAnswered EXCEPT ![i] = FALSE]
    /\ UNCHANGED <<mounted, analyticsState>>

\* The mount effect (deps []): read the cookie, initialize, set the state.
MountEffect(i) ==
    /\ mounted[i] /\ ~effectRan[i]
    /\ initializeAnalytics(getAnalyticsState)
    /\ analyticsState' = [analyticsState EXCEPT ![i] = getAnalyticsState]
    /\ effectRan' = [effectRan EXCEPT ![i] = TRUE]
    /\ otherAnswered' = [otherAnswered EXCEPT ![i] = FALSE]
    /\ UNCHANGED mounted

\* Mutant: the answer set in the hook's state but never persisted.
setAnalyticsOptIn_noPersist(i, optedIn) ==
    /\ mounted[i]
    /\ analyticsState' = [analyticsState EXCEPT ![i] =
                              [seenOptIn |-> TRUE, optedIn |-> optedIn]]
    /\ otherAnswered' = [j \in Instances |->
                            IF j # i /\ mounted[j] THEN TRUE
                            ELSE IF j = i THEN FALSE ELSE otherAnswered[j]]
    /\ UNCHANGED <<cookie, mounted, effectRan>>

\* setAnalyticsOptIn: persistAnalyticsState(nextState), then set the state
\* of this instance only; the other mounted instances keep theirs.
setAnalyticsOptIn(i, optedIn) ==
    LET nextState == [seenOptIn |-> TRUE, optedIn |-> optedIn]
    IN  /\ mounted[i]
        /\ cookie' = nextState
        /\ analyticsState' = [analyticsState EXCEPT ![i] = nextState]
        /\ otherAnswered' = [j \in Instances |->
                                IF j # i /\ mounted[j] THEN TRUE
                                ELSE IF j = i THEN FALSE ELSE otherAnswered[j]]
        /\ UNCHANGED <<mounted, effectRan>>

\* The component unmounts; its hook state is dropped.
Unmount(i) ==
    /\ mounted[i]
    /\ mounted' = [mounted EXCEPT ![i] = FALSE]
    /\ UNCHANGED <<cookie, effectRan, analyticsState, otherAnswered>>

\* The page is reloaded: every component is gone, the cookie stays.
Reload ==
    /\ \E i \in Instances : mounted[i]
    /\ mounted' = [i \in Instances |-> FALSE]
    /\ UNCHANGED <<cookie, effectRan, analyticsState, otherAnswered>>

Next ==
    \/ Reload
    \/ \E i \in Instances :
          \/ Mount(i) \/ MountEffect(i) \/ Unmount(i)
          \/ \E b \in BOOLEAN : setAnalyticsOptIn(i, b)

Spec == Init /\ [][Next]_vars

-----------------------------------------------------------------------------
\* What a mounted component shows, once its mount effect has run, is what
\* the cookie holds, across any number of answers and page reloads, unless
\* another component answered since this one read the cookie (each hook
\* instance keeps its own copy). This needs setAnalyticsOptIn to persist
\* before it sets the state, the effect to set the state it read, and
\* initializeAnalytics to write the defaults it returns when there is no
\* cookie.
ShownStateIsPersisted ==
    \A i \in Instances :
        mounted[i] /\ effectRan[i] /\ ~otherAnswered[i] =>
            analyticsState[i] = cookie

=============================================================================
