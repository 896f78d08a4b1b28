---------------------------- MODULE WatchRefresh ----------------------------
(***************************************************************************)
(* Refreshes driven by an inventory watcher (runtime/watch.rs): the events  *)
(* that the watcher reports narrow the probes and interfaces of the refresh *)
(* according to RuntimeConfig.watch_refresh_mode.                           *)
(*                                                                         *)
(* Of a watch event the model keeps the interfaces it names: paths and the  *)
(* watcher's name are only logged and reported.                             *)
(***************************************************************************)
EXTENDS ProbeInventory

CONSTANTS
    WatchEvents,    \* the interface hints of the events a watcher may report
    NoScope         \* watch_refresh_scope returned None

ASSUME WatchAssumption == WatchEvents \subseteq SUBSET Interfaces

VARIABLES
    watch_mode,     \* RuntimeConfig.watch_refresh_mode
    pending,        \* events that the watcher has and poll will return
    strayed         \* history: modes in which a strict refresh left its scope

watchVars == <<watch_mode, pending, strayed>>

WatchModes == {"StrictScoped", "FallbackToFull", "Full"}

-----------------------------------------------------------------------------

\* Faulty variant: the whole request is refreshed, whatever was touched.
WholeScope(requested, called, touched) ==
    IF watch_mode = "StrictScoped" /\ touched = {} THEN NoScope
    ELSE [requested |-> requested, called |-> called]

\* watch_refresh_scope: the interfaces and probes of the refresh.  Without
\* interface hints, without an overlap with the request or without a probe for
\* it, a strict refresh is skipped and the other modes use the whole call.
WatchRefreshScope(requested, called, touched) ==
    LET whole == [requested |-> requested, called |-> called]
        wanted == IF requested = {} THEN touched ELSE requested \cap touched
        probes == {p \in called : InterfacesOf[p] \cap wanted # {}}
    IN  IF watch_mode = "Full" THEN whole
        ELSE IF touched # {} /\ wanted # {} /\ probes # {}
             THEN [requested |-> wanted, called |-> probes]
        ELSE IF watch_mode = "StrictScoped" THEN NoScope ELSE whole

\* The devices that differ after a refresh.
Disturbed(old, new) == Added(old, new) \cup Changed(old, new) \cup Removed(old, new)

\* A device on an interface that no event touched was added, changed or removed.
LeavesScope(new, touched) ==
    \E d \in Disturbed(inventory, new) :
        {inventory[d], new[d]} \cap {c \in Descriptors : c.interface \in touched} = {}

\* Faulty variant: a stopped runtime commits the run.
PollAndRefreshUnchecked(mode, requested, called) ==
    LET scope == WatchRefreshScope(requested, called, UNION pending)
    IN  /\ pending # {}
        /\ pending' = {}
        /\ scope # NoScope
        /\ UNCHANGED <<watch_mode, running, strayed>>
        /\ \E run \in Runs(scope.requested, scope.called) :
              Accepted(mode, run) /\ CommitRun(mode, run)

\* poll_watcher_and_refresh and its incremental form.  The watcher's events are
\* taken first, whatever becomes of the refresh; the probes run before the
\* runtime is asked whether it is running.
PollWatcherAndRefresh(mode, requested, called) ==
    LET touched == UNION pending
        scope == WatchRefreshScope(requested, called, touched)
    IN  /\ pending # {}
        /\ pending' = {}
        /\ UNCHANGED <<watch_mode, running>>
        /\ IF scope = NoScope
           THEN UNCHANGED <<vars, strayed>>
           ELSE \E run \in Runs(scope.requested, scope.called) :
                   IF running /\ Accepted(mode, run)
                   THEN /\ CommitRun(mode, run)
                        /\ strayed' = strayed \cup
                              (IF watch_mode = "StrictScoped"
                                  /\ LeavesScope(NextInventory(mode, run), touched)
                               THEN {mode} ELSE {})
                   ELSE UNCHANGED <<vars, strayed>>

\* The watcher sees something happen.
WatchEvent(e) ==
    /\ e \notin pending
    /\ pending' = pending \cup {e}
    /\ UNCHANGED <<vars, watch_mode, strayed>>

\* set_config
SetWatchMode(mode) ==
    /\ watch_mode' = mode
    /\ UNCHANGED <<vars, pending, strayed>>

\* with_config may install any watch_refresh_mode; the default is StrictScoped.
WatchInit ==
    /\ Init
    /\ watch_mode \in WatchModes
    /\ pending = {}
    /\ strayed = {}

WatchNext ==
    \/ Next /\ UNCHANGED watchVars
    \/ \E mode \in RefreshModes, requested \in SUBSET Interfaces, called \in SUBSET Probes :
          PollWatcherAndRefresh(mode, requested, called)
    \/ \E e \in WatchEvents : WatchEvent(e)
    \/ \E mode \in WatchModes : SetWatchMode(mode)

WatchSpec == WatchInit /\ [][WatchNext]_<<vars, watchVars>>

-----------------------------------------------------------------------------
(* Properties                                                               *)

\* The watch state has its type.
WatchTypeOK ==
    /\ TypeOK
    /\ watch_mode \in WatchModes
    /\ pending \subseteq WatchEvents
    /\ strayed \subseteq RefreshModes

\* An incremental watch refresh in StrictScoped mode leaves the devices of
\* every interface that no watch event touched as they were.
IncrementalStaysInScope == "Incremental" \notin strayed

\* So does a full watch refresh in StrictScoped mode: "Refresh only the
\* interfaces explicitly touched by watch events" (RuntimeWatchRefreshMode).
FullStaysInScope == "Full" \notin strayed

\* Watch-driven refreshes are refreshes: every step, seen without the watcher,
\* is a step of ProbeInventory or changes nothing.
ImplementsProbeInventory == Spec
=============================================================================
