# TLA+ models of the Opentrons discovery client and its UI state machines

This directory holds TLA+ models of the repository's systems core: the
**discovery client** (`src/discovery-client/src`). The client finds robots on
the local network, health-checks every address it knows, reconciles what the
two sources say, and hands a ranked robot list to a consumer. An abstract
lifecycle specification states what the client promises, and the client is
shown to implement it.

The rest of the repository is browser UI (protocol designer, labware library,
robot app). The spec puts that UI out of scope. Where a UI file holds a real
state machine or a pure algorithm, this project models it from the code:

- the step list helpers and the step selection banner;
- the form-level validation table;
- the well selection modal;
- the flow rate field's remount key and its pipette dropdown;
- the robot update modal;
- the analytics opt-in hook.

The inventory below lists the rest too.

## 1. Inventory

### Components

| Component | Source | State it keeps | Operations |
|---|---|---|---|
| Address store (reducers) | `store/reducer.ts` | `robotsByName` (name → health, serverHealth), `hostsByIp` (ip → robotName, seen, healthStatus, serverHealthStatus, errors), `manualAddresses` | `initializeState`, `serviceFound`, `healthPolled`, `removeRobot`, each applied by three slice reducers |
| Selectors | `store/selectors` (not in the repository; tests in `store/__tests__/selectors.test.ts`) | none (memoised derivations) | `getAddresses`, `getRobots`, `compareHostsByConnectability` |
| Discovery client (orchestrator) | `discovery-client.ts` | the store, `unsubscribe`, the listener's `prevAddrs`/`prevRobots` | `start(config)`, `stop()`, `removeRobot(name)`, `getRobots()`, and the store listener |
| Health poller | `health-poller` (not in the repository) | target list, interval, timer | `start({list, interval})`, `stop()`; calls `onPollResult` once per check |
| mDNS browser | `mdns-browser` (not in the repository) | running flag | `start()`, `stop()`; calls `onService` |
| App Redux bootstrap | `app/src/redux/store.js` | the app store | subscribes a one-shot devtools listener |
| App module hook | `app/src/modules/hooks.js` | none | `useSendModuleCommand` |
| Step list helpers | `protocol-designer/src/steplist/utils/index.js` | none (pure) | `getWellRatio`, `getNextNonTerminalItemId` |
| Step selection banner | `protocol-designer/.../StepSelectionBanner/StepSelectionBannerComponent.js` | none (props) | count the selected steps per type, render one pill per type in a fixed order |
| Form-level validation | `protocol-designer/src/steplist/formLevel/index.js` | a static table | `getFormErrors`, `getFormWarnings` |
| Well selection modal | `protocol-designer/.../WellSelectionField/WellSelectionModal.js` | the form's well field; props `isOpen`, labware definition; hooks `selectedPrimaryWells`, `highlightedWells` | mount, open, close, `selectWells`, `deselectWells`, `updateHighlightedWells`, `handleSave` |
| Flow rate field | `protocol-designer/.../FlowRateField/index.js`, `StepFormDropdownField.js` | the form's pipette and flow rates; the pipettes the protocol has; the props each mounted input was built with | `updateValue`; a form change re-renders; the `key` decides a remount; selecting and deleting a pipette |
| Robot update modal | `app/.../UpdateBuildroot/VersionInfoModal.js` | props (robot update type and version), the shell's app update, hook `showUpdateAppModal` | the four views, the primary button, skip, not now, closing the app update modal |
| Analytics opt-in hook | `labware-library/src/analytics/useAnalyticsOptInOrOut.js` | the cookie; per calling component its `useState` copy | mount, mount effect, `setAnalyticsOptIn`, unmount, page reload |
| Other UI components | `*/components/**` | React component state | rendering |

### How the parts interact

- The mDNS browser calls `onService`. The client dispatches
  `serviceFound(ip, name)` in response.
- The health poller calls `onPollResult` once per check. The client
  dispatches `healthPolled(result)` in response.
- Redux runs the three reducers. It then calls the client's one store
  listener synchronously, inside the same `dispatch`.
- The listener compares the selector results with the previous ones by
  reference:
  - a new `getAddresses` result restarts the poller with the new list;
  - a new `getRobots` result calls `onListChange`.
- The selectors are memoised on the slices they read, and every reducer
  returns the same slice when nothing changed. So "new reference" means
  "a slice the selector reads changed". The one exception is
  `initializeState`, which builds fresh slices for every field the config
  supplies.
- `start` dispatches `initializeState` first. It then starts the poller on
  the current addresses and starts the browser. It subscribes only when no
  listener is attached. `stop` stops both collaborators and unsubscribes.
  `removeRobot` dispatches whether or not the client runs.

### What is hard

- **Messages that arrive late or out of order.** A tick sends all checks
  concurrently. They can answer in any order, after the poller was restarted
  or stopped, and after the store has changed (spec §5). A timeout answers
  last, as an "unreachable" result.
- **Two sources of identity.** mDNS and health polls both set an address's
  robot name. The `robotsByName` and `hostsByIp` reducers each resolve the
  name on their own. One check is two HTTP requests, and the two can be
  answered by different robots.
- **Eviction.** A good poll removes the robot's stale sibling addresses.
  A stale address is one that is unseen and unreachable on both endpoints.
- **Change detection by reference.** This drives the poller restarts and the
  consumer notifications. A listener can also stay subscribed across a
  second `start`.
- **Lifecycle.** Repeated `start` and `stop` calls must keep the listener,
  the poller and the browser in step.

### Properties that make each part correct

- **Store:**
  - an address names a robot the store does not know only when
    `removeRobot` kept it as that robot's single address;
  - `seen` is a latch;
  - an ok/ok answer evicts the robot's stale siblings;
  - every address the store holds names a robot or is a manual address.
    Otherwise nothing ever removes it.
- **Client:**
  - while started, the poller polls exactly the store's addresses;
  - every address in the list is eventually polled.
- **Selectors:**
  - they give what `selectors.test.ts` expects of them;
  - each robot's addresses are exactly its hosts, best first.
- **Protocol designer:** the banner counts each selected step once, under
  its type; each mounted flow-rate input was built from the form's current
  value, up to the null/0 pair.

## 2. Modules

| Module | Models | Notes |
|---|---|---|
| `DiscoveryStore.tla` | the three reducers of `reducer.ts` as pure operators, one per (slice, action) case; the selectors and comparator (spec-modelled) | Constant module, no variables |
| `DiscoveryClient.tla` | `createDiscoveryClient`: store slices, subscription, poller, in-flight checks, browser; one action per entry point and callback | EXTENDS `DiscoveryStore` |
| `MCDiscoveryClient.tla` | model values: 2 IPs (link-local v4, routable), 2 robot names, the seed robot `r1` at both IPs, manual list `{i2}`, 6 response kinds | the safety runs and the two violation runs |
| `MCDiscoveryClientLive.tla` | a fixed world of three IPs and two robots: the seed puts `r1` at all three; `i1` answers ok/ok as `r1`, `i2` always times out, `i3` answers ok/ok as `r2`; mDNS announces `r1` at `i1` and `i3` (the latter stale) and `r2` at `i3` | the liveness run |
| `SelectorFixtures.tla` | the fixtures and the expectations of `selectors.test.ts`, over `DiscoveryStore`'s selectors; `sort` is the engine's stable `Array.prototype.sort` | instantiated by `MCDiscoveryClient` |
| `DiscoveryLifecycle.tla` | the abstract client of spec §4.3-4.4: STOPPED/RUNNING, the store's poll list, what the poller polls, whether the source runs | instantiated by `DiscoveryClient` as `Lifecycle` |
| `StepListUtils.tla` | `getWellRatio` and `getNextNonTerminalItemId` as operators (the loop is RECURSIVE), with JavaScript's 0-based `indexOf`/-1 and undefined reads; the banner's `countPerType` reduce and its sorted pills; the next form validated after a deletion (`ValidateNextForm`) | `MCStepListUtils` enumerates all step lists of ≤ 4 distinct ids of three step types and all non-empty deletions |
| `FormLevel.tla` | `stepFormHelperMap`, `getFormErrors`, `getFormWarnings`; a form is the set of checks it fails, and `composeErrors`/`composeWarnings` keep the failing ones in order | EXTENDed by `StepListUtils` |
| `WellSelectionModal.tla` | the modal's mount, open, close and handlers; a WellGroup is a sequence of distinct wells, since object keys keep insertion order | `MCWellSelectionModal`: wells A1, B1, A2 in plate order A1, B1, A2 |
| `FlowRateField.tla` | `mapStateToProps` and React's keep-or-rebuild by `key` for the aspirate and dispense fields of one form; the pipette dropdown (`StepFormDropdown`, which shows a value missing from its options as blank), selecting a pipette and deleting one from the protocol | `MCFlowRateField`: 2 pipettes, flow rates {0, 1, 2} and null |
| `VersionInfoModal.tla` | the modal's render as a `View` record, and each button and each change of its inputs as an action | `MCVersionInfoModal`: 2 app updates, 2 robot versions, every update type and null |
| `AnalyticsOptIn.tla` | the hook in two components (modal and toggle) that share the cookie | `MCAnalyticsOptIn`; the cookie helpers of `analytics/utils` are not in the repository and are modelled from the hook's comments |

### The lifecycle refinement

`DiscoveryClient` instantiates `DiscoveryLifecycle` with this refinement
mapping:

- `state` is RUNNING exactly when the store listener is subscribed;
- `addresses` is `getAddresses` of the store;
- `pollTargets` is the poller's list while it runs, and empty otherwise;
- `sourceRunning` is `mdnsRunning`.

`ImplementsLifecycle == Lifecycle!Spec` is checked as a PROPERTY. Here is how
the client's steps map onto the abstract ones:

- `start` maps to `Start`.
- `stop` maps to `Stop`.
- A dispatch that changes the addresses maps to `ApplyEvent`. This holds
  because, while running, the listener restarts the poller in the same step.
- Ticks, and answers that change nothing the mapping sees, are stuttering
  steps.

### The UI models

- **Well selection modal.**
  - The component stays mounted while closed, so `Open` keeps the hooks.
  - `Mount` is the only step that reads the form field into the hooks.
  - `FormFieldChanged` is another field (the labware) clearing the wells.
    This is `handleFormChange`'s dependent-field update, taken as an input.
- **Flow rate field.**
  - Each step calls `mapStateToProps` for both fields.
  - It keeps a field's mounted input when the key `${name}:${formFlowRate || 0}`
    is unchanged, and builds a new one otherwise.
  - `KeyValue` models the `|| 0` default. Null and 0 print the same key.
- **Robot update modal.**
  - `View` is the whole render. It returns early on `showUpdateAppModal`,
    then picks the app-update alert, the robot-update alert, or the
    reinstall alert.
  - `Decide` is the parent's handling of `close`/`proceed`: it stops
    rendering the modal.
- **Analytics opt-in hook.**
  - `otherAnswered[i]` records that another component answered since
    component `i` read the cookie.
  - `Reload` drops every component and keeps the cookie.
- **Step list helpers.**
  - The deletion list is kept as a set, since both of its uses ignore order
    and repetition.
  - A well list is kept as its length, or `NotArray`.
  - `RenderBanner` renders the banner for the selection; the pill order is
    the component's fixed order of step types (`StepTypeRank`).
  - `ValidateNextForm` opens the step `getNextNonTerminalItemId` chose and
    runs the form-level checks on it; which checks the form fails is an
    input (`\E failing \in SUBSET FormChecks`), since the check functions
    are not in the repository.
- **Pipette dropdown.** `SelectPipette` sets the form's pipette and its
  flow-rate defaults; `DeletePipette` removes a pipette from the protocol
  and leaves the forms that name it alone, as the deletion of a pipette
  entity does.

### How the discovery client's state and actions map to the code

State:

- `robotsByName`, `hostsByIp` and `manualAddresses` are the store slices. A
  map is a TLA+ function whose domain is the set of its keys.
- `subscribed` is `unsubscribe !== null`.
- `pollerRunning`, `pollerList` and `inFlight` are the health poller.
  `inFlight` holds the IPs that have a check outstanding.
- `mdnsRunning` is the browser.
- `notified` is TRUE when the last step called `onListChange`.

Actions:

- `Start(initialRobots, manual)` is `start(config)`. It takes the reducers'
  initializeState cases and the listener when already subscribed. It then
  sets the poller list, starts the browser and subscribes.
- `Stop` is `stop()`.
- `RemoveRobot(n)` is `removeRobot(n)`.
- `ServiceFound(ip, n)` is the browser's `onService`.
- `PollTick` is a poller tick.
- `HealthPolled(r)` and `PollAnswer(ip)` are the poller's `onPollResult`.
- `Dispatch` is the Redux dispatch followed by the client's listener.

Data abstraction:

- An IP is a model value. Its locality class is the constant `IpLocality`.
- The constant `Services` lists the (IP, name) pairs mDNS may announce:
  every pair in the safety runs, the world's in the liveness run.
- The constant `Responses` gives, per IP, the answers a check may get.
- The port is fixed and left out.
- A health payload is represented by the robot name it carries.
- An error is represented by its class: `HttpError` (status ≥ 400) or
  `FetchError` (anything else, timeouts included).
- The `healthError` fields are determined by the status in this
  abstraction, so they are left out.
- `manualAddresses` is kept as a set of IPs.
- The order of robots in the list and the order of equally ranked addresses
  (insertion order in the code) are not modelled.

## 3. Runs

| Run | Config | Result | What it shows |
|---|---|---|---|
| `client_safety` | `MCDiscoveryClient.cfg` | pass, 67k states, ~30 s | `TypeOK`, `HostsReferToKnownRobots`, `PollerTracksAddresses`, `SeenLatch` and `StaleSiblingsEvicted` hold under every interleaving of start/stop/removeRobot, announcements, ticks and late answers. So does `ImplementsLifecycle`: the client refines `DiscoveryLifecycle`. `SelectorsMeetTheirTests`: the spec-modelled selectors give what `selectors.test.ts` expects (one test fixture left out, finding 6) |
| `client_liveness` | `MCDiscoveryClientLive.cfg` | pass, 10.8k states, ~75 s | `AddressesEventuallyPolled`: under a fair poller, every address in the poll list gets a status, leaves the list, or the client stops. `UnseenSiblingsEventuallyEvicted`: once restarts stop, an unseen address of a robot whose other address keeps answering ok is eventually seen or dropped, whatever order a tick's answers land in. `RobotsFollowAnswers`: once restarts, removals and announcements stop, an address is eventually listed by `getRobots` under the robot that answers there, although the seed and a stale announcement name another |
| `orphan_address_polled_forever` | `MCDiscoveryClient_NoOrphanAddress.cfg` | violation | a check of an address the store has just dropped answers late and re-creates the address with no robot name; nothing removes it again |
| `seen_reset_by_restart` | `MCDiscoveryClient_SeenNeverReverts.cfg` | violation | the spec's "seen never goes true → false under any event sequence" fails: a second `start` with `initialRobots` re-seeds every address unseen |
| `steplist_helpers` | `MCStepListUtils.cfg` | pass, 920k states, ~20 s | `NextItemIsNearestSurvivor`: `getNextNonTerminalItemId` picks the nearest surviving step after the last deleted one, else before it, else null. `WellRatioIsSymmetric`: swapping source and destination mirrors the ratio. `BannerSummarisesSelection`: the banner's count is the number of selected steps, each selected type has one pill whose count is its number of steps, in the fixed type order. The form-level table is exercised (the form of the step selected next is validated) but no property is spent on it: which module a getter reads is fixed by the static table |
| `well_selection` | `MCWellSelectionModal.cfg` | pass, 5.6k states | `TypeOK`: the selection, the highlight and the form's field stay duplicate-free lists of wells, as object keys are, whatever order wells are clicked, dragged and deselected in. The saved field is sorted by `handleSave` itself, so its order is not a property |
| `well_selection_reopens_stale` | `MCWellSelectionModal_Reopen.cfg` | violation | `ReopenShowsFormWells`: after the labware changes and clears the field, opening the modal still shows the old selection (the trace shows the first open after the change) |
| `flow_rate_key` | `MCFlowRateField.cfg` | pass, 4k states | `InstanceMatchesFormUpToFalsy`: each mounted input was built from the form's current value, or both values are falsy. The pipette dropdown and pipette deletion are modelled and exercised; whether the dropdown and the fields can disagree depends on the options prop, computed outside the repository |
| `flow_rate_key_null_zero` | `MCFlowRateField_NewInstance.cfg` | violation | `NewInstanceOnValueChange`: a change from null to 0 keeps the old input, against the comment at the key |
| `version_modal_unknown_type` | `MCVersionInfoModal_UpToDate.cfg` | violation | `UpToDateOnlyWhenReinstall`: with no robot update type (null), the modal says "Robot is up to date" |
| `analytics_opt_in` | `MCAnalyticsOptIn.cfg` | pass | `ShownStateIsPersisted`: across answers and page reloads, a component shows what the cookie holds once its mount effect ran, unless the other component answered since |

### Bounds

- **Two IPs** are enough for everything the code does with more than one
  address: eviction of a sibling, `removeRobot`'s more-than-one guard, and a
  manual address that is also a host.
- **Two names** allow an IP to change robots, and allow the two endpoints of
  one check to name different robots.
- **The response kinds** cover every branch of `getHealthStatus`, with
  health only, both endpoints, and neither.
- **The seed and the manual list** are the ones the app passes:
  - one robot with both addresses;
  - a pinned address;
  - or absent.
- **The liveness world** has one good address and one that never answers
  in time: the least that has an unseen sibling to evict, and answers of one
  tick that can land in either order. A third address has changed robots
  since the seed was saved, and mDNS may still announce its old robot: the
  least that makes the reducers rename an address and move it from one
  robot to another, back and forth while announcements go on. mDNS never
  announces `r2` at `i1`: a removal of `r2` could then take `i1` away with
  `i3`, leaving `r1`'s unseen sibling with nobody to evict it.
- **Step lists of up to 4 distinct ids** with every non-empty deletion set
  cover a deleted first step, a deleted last step, deleting everything, and
  gaps on both sides. They exercise the reduce seeded with 0 and the walk
  back past index 0. Well lists up to 3 cover 1:1, 1:n, n:1 and n:m. The
  ids have three step types (two steps share `moveLiquid`, so a pill counts
  more than one step): one with error and warning getters, one with no
  entry in `stepFormHelperMap` (`manualIntervention`), and one with errors
  only (`pause`). The form checks are one error and two warnings of
  `moveLiquid` and pause's error, so a form can fail checks of another
  type.
- **Three wells**, with every non-empty gesture group, so a group can
  overlap the selection and a deselection can leave a gap.
- **Two flow-rate fields, two pipettes and the values {null, 0, 1, 2}.**
  These include the falsy pair and a change of pipette under a kept key.
- **Two hook instances** are the least that shows one answering while the
  other is mounted.
- **No counter needs a bound.** `inFlight` is a set, so two outstanding
  checks of one IP collapse into one. Nothing here depends on a second one.

### Fairness

- The poller's timer fires while the poller runs (`WF_vars(PollTick)`).
- Every issued check is answered, a timeout counting as a `FetchError`
  answer (`WF_vars(PollAnswer(ip))`). The spec's bounded per-request timeout
  justifies this.
- Start, stop, removeRobot and announcements are the environment's. They get
  no fairness.
- `UnseenSiblingsEventuallyEvicted` is stated under `StartsStop`: the client
  is started with a seed only finitely often. A seed re-creates every seeded
  address unseen (finding 2), so a client restarted forever can keep one
  unseen. The property says what happens after the consumer stops
  restarting the client.
- `RobotsFollowAnswers` is stated under `EnvironmentSettles`: eventually no
  start, no removeRobot and no announcement. While announcements of the old
  robot go on, each one renames the address back (`reducer.ts:145-155`)
  and the next answer renames it again; only the answers are fair.
- The UI models check only safety and action properties. User clicks and
  React renders are the environment's.

## 4. Findings

1. **A dropped address comes back without a robot, and is polled forever.**
   - `healthPolled` for an IP absent from `hostsByIp` creates a host
     (`reducer.ts:171-173`, `:222`). When the check failed, the host has
     `robotName: null`.
   - A tick sends every check at once, and the answers come later. An
     unreachable check answers last, at its timeout. So a check is often
     still in flight when the store drops its address. Three steps drop one:
     `removeRobot` of a robot with two addresses, eviction as a stale
     sibling, and a re-seed by `start`.
   - The late answer re-creates the address with no robot. Eviction and
     `removeRobot` both match hosts by robot name, so nothing removes this
     host. It stays in `getAddresses` and is polled on every tick. This is
     what the comment at `reducer.ts:195-196` says eviction is there to
     prevent.
2. **The seen latch is not a latch across restarts.**
   - A second `start` with `initialRobots` replaces `hostsByIp` with fresh
     unseen records (`reducer.ts:121-129`). Every learned address and every
     `seen` flag is dropped.
   - The spec states both this seeding and a "never true → false" property.
     The passing run checks the property the code keeps (`SeenLatch`: only a
     re-seeded record starts unseen).

3. **A cleared well field is not shown on reopen**
   (`WellSelectionModal.js:137`). The hooks read the form field only at
   mount. The parent keeps the component mounted while the modal is closed.
   So after the labware changes and clears the wells, opening the modal
   again (TLC's trace: the first open after the change) shows the
   previous selection. Saving it writes wells of the old labware.
4. **Null and 0 share a flow-rate key** (`FlowRateField/index.js:63`).
   `${formFlowRate || 0}` prints both as 0. A change between them keeps the
   input instance, against the comment "force each field to have a new
   instance created when value is changed".
5. **An unknown update type reads as up to date**
   (`VersionInfoModal.js:78`). The last branch is taken for any type other
   than upgrade or downgrade, null included. It says the robot "is already
   up to date".
6. **The spec's locality tiers fail a selector test**
   (`selectors.test.ts:256-295`). Spec 4.2 ranks `localhost` with loopback,
   tier 0, like `127.0.0.1`. Two ok/ok records at those IPs then compare
   equal, and the engine's stable sort keeps their input order, which puts
   `localhost` first; the test expects `127.0.0.1` first. The comparator's
   source is not in the repository, so the ranking that passes the test
   cannot be read off. `SelectorsMeetTheirTests` checks the test without the
   `localhost` fixture; with it, TLC reports the expectation violated in the
   initial state. This is a disagreement between the spec and a test, not a
   run of its own.

## 5. Plan

Done so far:

- `DiscoveryStore`, `DiscoveryClient` and the lifecycle refinement.
- Eviction converges: `UnseenSiblingsEventuallyEvicted` in a fixed world.
  The answers of one tick do not commute on the spot, but the next ok
  answer evicts.
- Identity converges: `RobotsFollowAnswers`, in the same world with an
  address that changed robots.
- The selectors checked against their tests (`SelectorFixtures`).
- `StepListUtils` with the selection banner and the form-level table
  (`FormLevel`), `WellSelectionModal`, `FlowRateField` with the pipette
  dropdown, `VersionInfoModal` and `AnalyticsOptIn`.

Next, in order:

1. **An abstract robot directory.** Its state is the set of (name, ip)
   pairs the client believes. Show that `hostsByIp` refines it. Every
   transition the reducers make is one a directory fed by answers and
   announcements may make, so the refinement would restate the reducers;
   it is left until the spec says more about which changes it allows.
2. **Larger safety instance.** Three IPs in `MCDiscoveryClient` do not
   finish within the run's time budget; the liveness run has three.

Not modelled, and why:

- **The check functions of the form-level table** (`./errors`,
  `./warnings`). They are not in the repository; a form is kept as the set
  of checks it fails.
- **The other UI components, the app hooks and the Redux bootstrap.** They
  are rendering and framework glue, with no state machine of their own
  beyond React's: `WellSpacing` and `SourceDestHeaders` format numbers and
  labels, `ConnectionCard` only renders a status polled by `useInterval`,
  the icons, menus and list items only render props. `store.js` attaches
  the store to `window` from a listener that unsubscribes itself when the
  config first loads. `hooks.js` returns a callback that dispatches a
  module command for the connected robot, or logs a warning.
- **`WellSpacing`'s rounding.** `round(n, 2).toFixed(2)` guards against
  binary floating point; over decimal values the model would be the
  identity, and the floats themselves are out of TLC's reach.
- **The poll interval.** The listener restarts the poller without an
  interval. Whether the poller keeps the configured one is up to the
  poller, which is not in the repository (a hazard in `PROJECT.json`).
- **`getRobotStates` and `getHostStates`.** They list a slice's values.
- **The mDNS and HTTP transports.** They are external collaborators. The
  model includes them only as the environment's events.
- **Build and test tooling** (`jest.config.js`, accessor tests): no
  behaviour to check.
