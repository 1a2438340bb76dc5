----------------------------- MODULE Lifecycle -----------------------------
(***************************************************************************)
(* The process of cmd/bpf-dns-gateway/main.go: startup, the goroutines of  *)
(* the health checker and the controller, the ordered shutdown with its    *)
(* bounded waits, crashes, and restarts that find pinned maps.             *)
(*                                                                         *)
(* The pods' queries are followed only as far as the life cycle matters:   *)
(* whether one that the ingress program redirected meets the egress        *)
(* program, and its conntrack entry, when the answer comes.                *)
(***************************************************************************)
EXTENDS Integers, Sequences

CONSTANTS
    Threshold, MaxSetFails,
    Veths, NoVeth, MayFailAttach, EventsCap,
    MayTimeout,   \* whether the waits of the shutdown may expire
    MaxRestarts   \* bound of the number of restarts

ASSUME LifecycleAssumption ==
    /\ Threshold \in Nat \ {0} /\ MaxSetFails \in Nat
    /\ NoVeth \notin Veths /\ MayFailAttach \subseteq Veths
    /\ EventsCap \in Nat \ {0}

VARIABLES
    resolver, ctxDone, bypass, configMu, setFails,
    chk, err, consecutiveFailures, bypassActive, setErr,
    link, ingress, egress, events, closed, ctrl, veth, attachments, closing,
    main,       \* where the main goroutine is
    pinned,     \* the maps that are pinned, of Maps
    restarts,
    query,      \* per veth, a query of its pod: see QueryStages
    edge,       \* history: what may cost the query its answer, or "none"
    teardown,   \* history: the shutdown has set bypass
    gaveUp,     \* history: the wait for the checker expired
    passed      \* history: ctx was alive when the checker last chose to act

HC == INSTANCE HealthChecker
CT == INSTANCE Controller

checkerVars == <<chk, err, consecutiveFailures, bypassActive, setErr>>
kernelVars  == <<link, ingress, egress>>
ctrlVars    == <<ctrl, veth, attachments, closing>>
monVars     == <<events, closed>>
mapVars     == <<bypass, configMu, setFails>>
podVars     == <<query, edge>>
procVars    == <<main, pinned, restarts, teardown, gaveUp, passed>>
vars == <<resolver, ctxDone, mapVars, checkerVars, kernelVars, monVars, ctrlVars,
          podVars, procVars>>

(* The pinned maps that outlive the process and matter here. *)
Maps == {"config_map", "conntrack_map"}

MainStages == {"load", "populate", "running", "waitChecker", "lookup", "update", "waitCtrl",
               "close", "down"}

(* redirected: on its way to the host resolver; orphaned: so, and its      *)
(* conntrack entry is gone; leaked: answered from the resolver's address.  *)
QueryStages == {"none", "redirected", "orphaned", "leaked"}

(* The process ends: its goroutines are gone and the kernel closes its     *)
(* links, which detaches the programs.                                     *)
Dead ==
    /\ chk' = "off"
    /\ ctrl' = "off"
    /\ ingress' = {}
    /\ egress' = {}
    /\ veth' = NoVeth
    /\ attachments' = {}
    /\ closing' = {}
    /\ events' = <<>>
    /\ closed' = TRUE
    /\ configMu' = "free"
    /\ err' = FALSE
    /\ consecutiveFailures' = 0
    /\ bypassActive' = FALSE
    /\ setErr' = FALSE
    /\ passed' = FALSE
    /\ gaveUp' = FALSE
    /\ teardown' = FALSE

(* A resolver that is up still leaves each probe open, so it need not      *)
(* change here.                                                            *)
Init ==
    /\ resolver = "up" /\ ctxDone = FALSE
    /\ bypass = FALSE /\ configMu = "free" /\ setFails = 0
    /\ chk = "off" /\ err = FALSE /\ consecutiveFailures = 0
    /\ bypassActive = FALSE /\ setErr = FALSE
    /\ link = [v \in Veths |-> "new"] /\ ingress = {} /\ egress = {}
    /\ events = <<>> /\ closed = TRUE
    /\ ctrl = "off" /\ veth = NoVeth /\ attachments = {} /\ closing = {}
    /\ main = "load" /\ pinned = {} /\ restarts = 0
    /\ query = [v \in Veths |-> "none"] /\ edge = [v \in Veths |-> "none"]
    /\ teardown = FALSE /\ gaveUp = FALSE /\ passed = FALSE

-----------------------------------------------------------------------------
(* Startup. *)

(* Loader.New takes a pinned map over as it is, and creates the others.    *)
(* When it fails the maps created so far stay pinned.                      *)
LoadMaps ==
    /\ main = "load"
    /\ \/ pinned' = Maps /\ main' = "populate"
       \/ pinned' \in {S \in SUBSET Maps : pinned \subseteq S} /\ main' = "down"
    /\ bypass' = ("config_map" \in pinned /\ bypass)
    /\ UNCHANGED <<resolver, ctxDone, configMu, setFails, checkerVars, kernelVars, monVars,
                   ctrlVars, podVars, restarts, teardown, gaveUp, passed>>

(* Loader.Unpin stops at the first map it cannot remove.  Without its      *)
(* conntrack entry a query is not restored any more.                       *)
Unpin ==
    /\ pinned' \in SUBSET pinned
    /\ query' = [v \in Veths |-> IF query[v] = "redirected" /\ "conntrack_map" \notin pinned'
                                 THEN "orphaned" ELSE query[v]]
    /\ edge' = [v \in Veths |-> IF query[v] = "redirected" THEN "stop" ELSE edge[v]]

(* PopulateConfig writes the whole entry, bypass included. *)
BugPopulatedBypass == bypass

PopulatedBypass == FALSE

(* The maps are populated and the goroutines started. *)
StartGoroutines ==
    /\ main = "populate"
    /\ bypass' = PopulatedBypass
    /\ chk' = "probe"
    /\ ctrl' = "loop"
    /\ closed' = FALSE
    /\ main' = "running"
    /\ UNCHANGED <<resolver, ctxDone, configMu, setFails, err, consecutiveFailures, bypassActive,
                   setErr, kernelVars, events, veth, attachments, closing, podVars,
                   pinned, restarts, teardown, gaveUp, passed>>

(* A step of the startup fails: cleanupLoader, and the process ends. *)
StartupFails ==
    /\ main = "populate"
    /\ bypass' \in {bypass, PopulatedBypass}
    /\ Unpin
    /\ main' = "down"
    /\ UNCHANGED <<resolver, ctxDone, configMu, setFails, checkerVars, kernelVars, monVars,
                   ctrlVars, restarts, teardown, gaveUp, passed>>

-----------------------------------------------------------------------------
(* The goroutines. *)

CheckerRuns(step) ==
    /\ main \in MainStages \ {"load", "populate", "down"}
    /\ step
    /\ passed' = IF chk' \in {"enable", "clear"} THEN ~ctxDone ELSE passed
    /\ UNCHANGED <<resolver, ctxDone, kernelVars, monVars, ctrlVars, podVars,
                   main, pinned, restarts, teardown, gaveUp>>

(* Detaching the egress program under a redirected query. *)
CtrlRuns(step) ==
    /\ step
    /\ edge' = [v \in Veths |-> IF query[v] = "redirected" /\ v \in egress \ egress'
                                THEN (IF ctxDone THEN "stop" ELSE "monitor") ELSE edge[v]]
    /\ UNCHANGED <<resolver, mapVars, checkerVars, query, procVars>>

MonitorTells ==
    /\ CT!MonitorTells
    /\ UNCHANGED <<resolver, mapVars, checkerVars, podVars, procVars>>

MonitorStops ==
    /\ CT!MonitorStops
    /\ UNCHANGED <<resolver, mapVars, checkerVars, podVars, procVars>>

(* monitor.Start returned an error: stop(). *)
MonitorCancels ==
    /\ main = "running"
    /\ closed
    /\ ~ctxDone
    /\ ctxDone' = TRUE
    /\ UNCHANGED <<resolver, mapVars, checkerVars, kernelVars, monVars, ctrlVars, podVars,
                   procVars>>

-----------------------------------------------------------------------------
(* The ordered shutdown. *)

ShutdownBegins ==
    /\ main = "running"
    /\ ctxDone
    /\ main' = "waitChecker"
    /\ UNCHANGED <<resolver, ctxDone, mapVars, checkerVars, kernelVars, monVars, ctrlVars,
                   podVars, pinned, restarts, teardown, gaveUp, passed>>

(* 9a: wait for the checker, for at most 5 seconds. *)
BugCheckerAwaited == TRUE

CheckerAwaited == chk = "done"

WaitChecker ==
    /\ main = "waitChecker"
    /\ CheckerAwaited
    /\ main' = "lookup"
    /\ UNCHANGED <<resolver, ctxDone, mapVars, checkerVars, kernelVars, monVars, ctrlVars,
                   podVars, pinned, restarts, teardown, gaveUp, passed>>

WaitCheckerExpires ==
    /\ main = "waitChecker"
    /\ MayTimeout
    /\ gaveUp' = TRUE
    /\ main' = "lookup"
    /\ UNCHANGED <<resolver, ctxDone, mapVars, checkerVars, kernelVars, monVars, ctrlVars,
                   podVars, pinned, restarts, teardown, passed>>

(* 9b: SetBypass(true); an error is only logged. *)
TeardownLookup ==
    /\ main = "lookup"
    /\ \/ HC!SetBypassLookup("main") /\ main' = "update"
       \/ HC!SetBypassLookupFails /\ main' = "waitCtrl"
    /\ UNCHANGED <<resolver, ctxDone, checkerVars, kernelVars, monVars, ctrlVars,
                   podVars, pinned, restarts, teardown, gaveUp, passed>>

TeardownUpdate ==
    /\ main = "update"
    /\ \/ HC!SetBypassUpdate("main", TRUE) /\ teardown' = TRUE
       \/ HC!SetBypassUpdateFails("main") /\ UNCHANGED teardown
    /\ main' = "waitCtrl"
    /\ UNCHANGED <<resolver, ctxDone, checkerVars, kernelVars, monVars, ctrlVars,
                   podVars, pinned, restarts, gaveUp, passed>>

(* 9c: wait for the controller, for at most 10 seconds. *)
WaitCtrl ==
    /\ main = "waitCtrl"
    /\ ctrl = "done"
    /\ main' = "close"
    /\ UNCHANGED <<resolver, ctxDone, mapVars, checkerVars, kernelVars, monVars, ctrlVars,
                   podVars, pinned, restarts, teardown, gaveUp, passed>>

WaitCtrlExpires ==
    /\ main = "waitCtrl"
    /\ ctrl # "done"
    /\ MayTimeout
    /\ main' = "close"
    /\ UNCHANGED <<resolver, ctxDone, mapVars, checkerVars, kernelVars, monVars, ctrlVars,
                   podVars, pinned, restarts, teardown, gaveUp, passed>>

(* 9e: close and unpin the maps, conntrack_map included, and return. *)
Exit ==
    /\ main = "close"
    /\ main' = "down"
    /\ Unpin
    /\ Dead
    /\ UNCHANGED <<resolver, ctxDone, bypass, setFails, link, restarts>>

-----------------------------------------------------------------------------
(* The environment. *)

(* The process is killed, in any state; the maps stay pinned. *)
Crash ==
    /\ main # "down"
    /\ main' = "down"
    /\ Dead
    /\ edge' = [v \in Veths |-> IF query[v] = "redirected" THEN "crash" ELSE edge[v]]
    /\ UNCHANGED <<resolver, ctxDone, bypass, setFails, link, query, pinned, restarts>>

Restart ==
    /\ main = "down"
    /\ restarts < MaxRestarts
    /\ restarts' = restarts + 1
    /\ main' = "load"
    /\ ctxDone' = FALSE
    /\ UNCHANGED <<resolver, mapVars, checkerVars, kernelVars, monVars, ctrlVars, podVars,
                   pinned, teardown, gaveUp, passed>>

(* SIGTERM or SIGINT. *)
Signal ==
    /\ main = "running"
    /\ ~ctxDone
    /\ ctxDone' = TRUE
    /\ UNCHANGED <<resolver, mapVars, checkerVars, kernelVars, monVars, ctrlVars, podVars,
                   procVars>>

(* A pod goes away with its veth. *)
KernelStep ==
    /\ CT!KernelStep
    /\ query' = [v \in Veths |-> IF link'[v] = "gone" THEN "none" ELSE query[v]]
    /\ edge' = [v \in Veths |-> IF link'[v] = "gone" THEN "none" ELSE edge[v]]
    /\ UNCHANGED <<resolver, mapVars, checkerVars, procVars>>

(* A query that the ingress program redirects. *)
PodQuery(v) ==
    /\ query[v] = "none"
    /\ v \in ingress
    /\ ~bypass
    /\ query' = [query EXCEPT ![v] = "redirected"]
    /\ edge' = [edge EXCEPT ![v] = IF ctrl = "attachEgress" /\ veth = v THEN "attach"
                                                                          ELSE "none"]
    /\ UNCHANGED <<resolver, ctxDone, mapVars, checkerVars, kernelVars, monVars, ctrlVars,
                   procVars>>

(* The egress program restores the answer, whatever bypass is by now. *)
BugRestored(v) == v \in egress /\ query[v] = "redirected" /\ ~bypass

Restored(v) == v \in egress /\ query[v] = "redirected"

Answer(v) ==
    /\ query[v] \in {"redirected", "orphaned"}
    /\ query' = [query EXCEPT ![v] = IF Restored(v) THEN "none" ELSE "leaked"]
    /\ edge' = [edge EXCEPT ![v] = IF Restored(v) THEN "none" ELSE edge[v]]
    /\ UNCHANGED <<resolver, ctxDone, mapVars, checkerVars, kernelVars, monVars, ctrlVars,
                   procVars>>

-----------------------------------------------------------------------------
MainStep ==
    \/ LoadMaps
    \/ StartGoroutines
    \/ StartupFails
    \/ ShutdownBegins
    \/ WaitChecker
    \/ TeardownLookup
    \/ TeardownUpdate
    \/ WaitCtrl
    \/ Exit

Next ==
    \/ MainStep
    \/ WaitCheckerExpires
    \/ WaitCtrlExpires
    \/ CheckerRuns(HC!Probing)
    \/ CheckerRuns(HC!CheckerStops)
    \/ CtrlRuns(CT!CtrlStep)
    \/ MonitorTells
    \/ MonitorStops
    \/ MonitorCancels
    \/ Crash
    \/ Restart
    \/ Signal
    \/ KernelStep
    \/ \E v \in Veths : PodQuery(v) \/ Answer(v)

Spec == Init /\ [][Next]_vars

(* Every goroutine is scheduled; a select takes a ready case in the end.   *)
(* The time limits are not relied on.                                      *)
FairSpec ==
    /\ Spec
    /\ WF_vars(MainStep)
    /\ WF_vars(MonitorCancels)
    /\ WF_vars(CheckerRuns(HC!Probing))
    /\ SF_vars(CheckerRuns(HC!CheckerStops))
    /\ WF_vars(CtrlRuns(CT!Handle \/ CT!Work))
    /\ SF_vars(CtrlRuns(CT!StartDetachAll))

-----------------------------------------------------------------------------
(***************************************************************************)
(* Once the shutdown has set bypass it stays set: a late recovery of the   *)
(* checker cannot switch redirection on again.  The one exception needs    *)
(* the wait for the checker to expire while a probe that saw ctx alive is  *)
(* still on its way to SetBypass.                                          *)
(***************************************************************************)
TeardownBypassSticks == teardown /\ ~bypass => gaveUp /\ passed

(***************************************************************************)
(* The checker's bypassActive agrees with config_map between two probes,   *)
(* also after a crash under bypass and a restart that takes over the       *)
(* pinned map.                                                             *)
(***************************************************************************)
BeliefSurvivesRestart == HC!Settled /\ ~teardown => bypassActive = bypass

(***************************************************************************)
(* An answer reaches its pod from the host resolver's address only if the  *)
(* query was redirected between the two steps of Attach, or the programs   *)
(* or the conntrack map went away in a shutdown, at the end of the monitor *)
(* or in a crash: setting and clearing bypass, failed attachments and      *)
(* other veths do no harm.                                                 *)
(***************************************************************************)
LeaksOnlyAtEdges == \A v \in Veths : query[v] = "leaked" => edge[v] # "none"

(***************************************************************************)
(* A signal, or the failure of the monitor, ends the process, without the  *)
(* help of the time limits on the waits.                                   *)
(***************************************************************************)
ShutdownCompletes == (main = "running" /\ (ctxDone \/ closed)) ~> main = "down"

(* docs/design.md on graceful shutdown: "setting bypass before detach lets *)
(* in-flight queries complete cleanly".                                    *)
InFlightCompletes == \A v \in Veths : query[v] = "leaked" => edge[v] # "stop"
=============================================================================
