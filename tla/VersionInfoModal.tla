--------------------------- MODULE VersionInfoModal ---------------------------
(***************************************************************************)
(* The robot update modal of the app's robot settings                     *)
(* (RobotSettings/UpdateBuildroot/VersionInfoModal.js). Each render picks *)
(* one of four views from the robot's update type (a prop), the available *)
(* app update (the shell selector) and the showUpdateAppModal hook; each  *)
(* button either sets the hook or hands the decision back to the parent   *)
(* through close or proceed, after which the parent stops rendering the  *)
(* modal. The update type and the app update can change while the modal  *)
(* is open: the robot is re-discovered, the shell's update check answers. *)
(***************************************************************************)
EXTENDS TLC

CONSTANTS
    AppVersions,      \* versions the shell can offer as an app update
    RobotVersions,    \* API versions a discovered robot can report
    CURRENT_VERSION,  \* the running app's version
    NULL

UpdateTypes == {"upgrade", "downgrade", "reinstall"}

VARIABLES
    robotUpdateType,             \* prop: BuildrootUpdateType | null
    robotVersion,                \* getRobotApiVersion(robot), or null
    availableAppUpdateVersion,   \* useSelector(getAvailableShellUpdate)
    rendered,                    \* the parent renders the modal
    showUpdateAppModal,          \* useState(false)
    decision                     \* the last callback the modal called

vars == <<robotUpdateType, robotVersion, availableAppUpdateVersion, rendered,
          showUpdateAppModal, decision>>

-----------------------------------------------------------------------------
REINSTALL_HEADING == "Robot is up to date"

\* versionProps: the robot's API version, the app's, and the app update or,
\* without one, the running version.
versionProps ==
    [robotVersion   |-> robotVersion,
     appVersion     |-> CURRENT_VERSION,
     availableUpdate |-> IF availableAppUpdateVersion # NULL
                         THEN availableAppUpdateVersion ELSE CURRENT_VERSION]

\* What a render shows: the UpdateAppModal portal, or the AlertModal with
\* its version list, heading, the primary button's label and action, and
\* whether the SkipAppUpdateMessage (which calls proceed) is there.
\* Headings and labels are kept as the values they are built from.
View ==
    IF showUpdateAppModal
    THEN [modal |-> "UpdateAppModal"]
    ELSE IF availableAppUpdateVersion # NULL
    THEN [modal |-> "AlertModal", versions |-> versionProps,
          heading |-> <<"App Version", availableAppUpdateVersion, "Available">>,
          primaryLabel |-> "View App Update", primaryAction |-> "showUpdateApp",
          skipLink |-> TRUE]
    ELSE IF robotUpdateType \in {"upgrade", "downgrade"}
    THEN [modal |-> "AlertModal", versions |-> versionProps,
          heading |-> "Robot Update Available",
          syncVersion |-> versionProps.availableUpdate,
          primaryLabel |-> IF robotUpdateType = "upgrade"
                           THEN "View Robot Update" ELSE "Downgrade Robot",
          primaryAction |-> "proceed", skipLink |-> FALSE]
    ELSE [modal |-> "AlertModal", versions |-> versionProps,
          heading |-> REINSTALL_HEADING,
          primaryLabel |-> "Reinstall", primaryAction |-> "proceed",
          skipLink |-> FALSE]

ShowsAlert == rendered /\ View.modal = "AlertModal"

\* The parent handles close and proceed by no longer rendering the modal.
Decide(d) ==
    /\ decision' = d
    /\ rendered' = FALSE
    /\ UNCHANGED <<robotUpdateType, robotVersion, availableAppUpdateVersion,
                   showUpdateAppModal>>

-----------------------------------------------------------------------------
Init ==
    /\ robotUpdateType \in UpdateTypes \cup {NULL}
    /\ robotVersion \in RobotVersions \cup {NULL}
    /\ availableAppUpdateVersion \in AppVersions \cup {NULL}
    /\ rendered = FALSE
    /\ showUpdateAppModal = FALSE
    /\ decision = NULL

\* The parent renders the modal: a fresh instance, so the hook is false.
Mount ==
    /\ ~rendered
    /\ rendered' = TRUE
    /\ showUpdateAppModal' = FALSE
    /\ decision' = NULL
    /\ UNCHANGED <<robotUpdateType, robotVersion, availableAppUpdateVersion>>

\* The robot is re-discovered with another version and update type, or the
\* shell's available update changes.
Environment ==
    /\ \/ /\ robotVersion' \in RobotVersions \cup {NULL}
          /\ robotUpdateType' \in UpdateTypes \cup {NULL}
          /\ <<robotVersion', robotUpdateType'>> # <<robotVersion, robotUpdateType>>
          /\ UNCHANGED availableAppUpdateVersion
       \/ /\ availableAppUpdateVersion' \in (AppVersions \cup {NULL}) \ {availableAppUpdateVersion}
          /\ UNCHANGED <<robotVersion, robotUpdateType>>
    /\ UNCHANGED <<rendered, showUpdateAppModal, decision>>

\* The primary button: View App Update sets the hook; the others proceed.
ClickPrimary ==
    /\ ShowsAlert
    /\ IF View.primaryAction = "showUpdateApp"
       THEN /\ showUpdateAppModal' = TRUE
            /\ UNCHANGED <<robotUpdateType, robotVersion,
                           availableAppUpdateVersion, rendered, decision>>
       ELSE Decide("proceed")

\* SkipAppUpdateMessage's link.
ClickSkipAppUpdate ==
    /\ ShowsAlert /\ View.skipLink
    /\ Decide("proceed")

\* "not now".
ClickNotNow ==
    /\ ShowsAlert
    /\ Decide("close")

\* UpdateAppModal's closeModal is close.
CloseUpdateAppModal ==
    /\ rendered /\ View.modal = "UpdateAppModal"
    /\ Decide("close")

Next ==
    \/ Mount \/ Environment \/ ClickPrimary \/ ClickSkipAppUpdate
    \/ ClickNotNow \/ CloseUpdateAppModal

Spec == Init /\ [][Next]_vars

-----------------------------------------------------------------------------
\* The modal says the robot is up to date only when the robot's update
\* type says so: REINSTALL_HEADING and its message ("It looks like your
\* robot is already up to date") are shown for update type reinstall.
UpToDateOnlyWhenReinstall ==
    ShowsAlert /\ View.heading = REINSTALL_HEADING => robotUpdateType = "reinstall"

=============================================================================
