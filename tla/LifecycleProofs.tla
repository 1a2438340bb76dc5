-------------------------- MODULE LifecycleProofs --------------------------
(***************************************************************************)
(* Proofs about Lifecycle, for any set of veths, any threshold and any     *)
(* number of failures and restarts, whether or not the waits expire.       *)
(* Three invariants: the controller's own (Attached of ControllerProofs,   *)
(* Lifecycle satisfies the assumptions of Controller), what the stages of  *)
(* the shutdown say about the checker, and what is known of a query that   *)
(* has lost the egress program.                                            *)
(***************************************************************************)
EXTENDS Lifecycle, TLAPS

CP == INSTANCE ControllerProofs

(* The stages in which the goroutines exist. *)
Alive == {"running", "waitChecker", "lookup", "update", "waitCtrl", "close"}

-----------------------------------------------------------------------------
(* The controller and the programs it attaches. *)

Programs == CP!Attached /\ (main \notin Alive => ctrl = "off")

(* The definitions of Controller mean the same in both instances. *)
LEMMA SameSteps ==
    /\ CT!CtrlStep => CP!Handle \/ CP!Work \/ CP!StartDetachAll
    /\ CT!KernelStep => CP!KernelStep
    /\ CT!MonitorTells => CP!MonitorTells
    /\ CT!MonitorStops => CP!MonitorStops
  <1> USE DEF CT!kernelVars, CT!ctrlVars, CP!kernelVars, CP!ctrlVars
  <1>1. CT!Handle => CP!Handle
    BY Zenon DEF CT!Handle, CP!Handle, CT!HandleAdd, CP!HandleAdd, CT!HandleRemove,
                 CP!HandleRemove
  <1>2. CT!Work => CP!Work
    BY Zenon DEF CT!Work, CP!Work, CT!AttachIngress, CP!AttachIngress, CT!AttachIngressFails,
       CP!AttachIngressFails, CT!AttachEgress, CP!AttachEgress, CT!AttachEgressFails,
       CP!AttachEgressFails, CT!CloseIngress, CP!CloseIngress, CT!CloseEgress, CP!CloseEgress,
       CT!RunReturns, CP!RunReturns
  <1>3. CT!StartDetachAll => CP!StartDetachAll
    BY Zenon DEF CT!StartDetachAll, CP!StartDetachAll, CT!Stopping, CP!Stopping
  <1>4. CT!CtrlStep => CP!Handle \/ CP!Work \/ CP!StartDetachAll
    BY Zenon, <1>1, <1>2, <1>3 DEF CT!CtrlStep
  <1>5. CT!KernelStep => CP!KernelStep
    BY Zenon DEF CT!KernelStep, CP!KernelStep, CT!LinkAdded, CP!LinkAdded, CT!LinkDeleted,
                 CP!LinkDeleted
  <1>6. CT!MonitorTells => CP!MonitorTells
    BY Zenon DEF CT!MonitorTells, CP!MonitorTells, CT!Announce, CP!Announce, CT!Retract,
                 CP!Retract, CT!Emit, CP!Emit
  <1>7. CT!MonitorStops => CP!MonitorStops
    BY Zenon DEF CT!MonitorStops, CP!MonitorStops
  <1> QED
    BY Zenon, <1>4, <1>5, <1>6, <1>7

(* Steps that leave the programs and the controller alone. *)
LEMMA ProgramsStay ==
    ASSUME CP!Attached, UNCHANGED <<kernelVars, monVars, ctrlVars>>,
           UNCHANGED ctxDone \/ ctxDone' \in BOOLEAN
    PROVE  CP!Attached'
  <1>1. ctxDone' \in BOOLEAN
    BY Zenon DEF CP!Attached, CP!TypeOK
  <1> QED
    BY Zenon, <1>1 DEF CP!Attached, CP!TypeOK, CP!StageLocal, CP!Recorded, CP!EgressCovers,
                       kernelVars, monVars, ctrlVars

(* The end of the process takes all programs off. *)
LEMMA DeadPrograms ==
    ASSUME CP!Attached, Dead, UNCHANGED <<ctxDone, link>>
    PROVE  CP!Attached'
  <1>1. <<>> \in Seq({"add", "remove"} \X Veths)
    OBVIOUS
  <1>2. CP!TypeOK'
    BY Zenon, <1>1 DEF CP!Attached, CP!TypeOK, CP!CtrlStages, Dead
  <1>3. CP!StageLocal' /\ CP!Recorded' /\ CP!EgressCovers'
    BY DEF Dead, CP!StageLocal, CP!Recorded, CP!EgressCovers
  <1> QED
    BY <1>2, <1>3 DEF CP!Attached

(* The controller starts with nothing attached. *)
LEMMA StartPrograms == Programs /\ StartGoroutines => Programs'
  <1> SUFFICES ASSUME Programs, StartGoroutines PROVE Programs'
    OBVIOUS
  <1>1. /\ ctrl = "off" /\ ctrl' = "loop" /\ closed' = FALSE /\ main' = "running"
        /\ UNCHANGED <<ctxDone, link, ingress, egress, events, veth, attachments, closing>>
    BY Zenon DEF StartGoroutines, Programs, Alive, kernelVars
  <1>2. CP!TypeOK'
    BY Zenon, <1>1 DEF Programs, CP!Attached, CP!TypeOK, CP!CtrlStages
  <1>3. closing = {} /\ attachments = {} /\ egress = {} /\ ingress = {}
    BY <1>1 DEF Programs, CP!Attached, CP!StageLocal, CP!Recorded, CP!EgressCovers
  <1>4. CP!StageLocal' /\ CP!Recorded' /\ CP!EgressCovers'
    BY <1>1, <1>3 DEF CP!StageLocal, CP!Recorded, CP!EgressCovers
  <1> QED
    BY Zenon, <1>1, <1>2, <1>4 DEF Programs, CP!Attached, Alive

(* The controller, links and the monitor, in a process or without one. *)
LEMMA CtrlPrograms ==
    Programs /\ (CtrlRuns(CT!CtrlStep) \/ MonitorTells \/ MonitorStops \/ KernelStep) => Programs'
  <1> SUFFICES ASSUME Programs,
                      CtrlRuns(CT!CtrlStep) \/ MonitorTells \/ MonitorStops \/ KernelStep
               PROVE  Programs'
    OBVIOUS
  <1>1. UNCHANGED main
    BY Zenon DEF CtrlRuns, MonitorTells, MonitorStops, KernelStep, procVars
  <1>2. \/ CP!Handle \/ CP!Work \/ CP!StartDetachAll
        \/ (CP!KernelStep \/ CP!MonitorTells \/ CP!MonitorStops) /\ UNCHANGED ctrl
    BY Zenon, SameSteps DEF CtrlRuns, MonitorTells, MonitorStops, KernelStep, CT!KernelStep,
       CT!LinkAdded, CT!LinkDeleted, CT!MonitorTells, CT!Announce, CT!Retract, CT!Emit,
       CT!MonitorStops, CT!ctrlVars
  <1>3. CP!Attached'
    BY Zenon, <1>2, LifecycleAssumption, CP!KernelPreserves, CP!MonitorPreserves,
       CP!AttachPreserves, CP!DetachPreserves DEF Programs, CP!Work
  <1>4. CP!Handle \/ CP!Work \/ CP!StartDetachAll => ctrl # "off"
    BY DEF CP!Handle, CP!HandleAdd, CP!HandleRemove, CP!Work, CP!StartDetachAll,
       CP!AttachIngress, CP!AttachIngressFails, CP!AttachEgress, CP!AttachEgressFails,
       CP!CloseIngress, CP!CloseEgress, CP!RunReturns
  <1> QED
    BY Zenon, <1>1, <1>2, <1>3, <1>4 DEF Programs

(* Programs holds throughout. *)
LEMMA ProgramsStep == Programs /\ [Next]_vars => Programs'
  <1> SUFFICES ASSUME Programs, [Next]_vars PROVE Programs'
    OBVIOUS
  <1>1. CASE Exit \/ Crash
    <2>1. Dead /\ main' = "down" /\ UNCHANGED <<ctxDone, link>>
      BY Zenon, <1>1 DEF Exit, Crash
    <2> QED
      BY Zenon, <2>1, DeadPrograms DEF Programs, Dead
  <1>2. CASE LoadMaps \/ StartupFails \/ Restart
    <2>1. /\ main \notin Alive /\ UNCHANGED <<kernelVars, monVars, ctrlVars>>
          /\ UNCHANGED ctxDone \/ ctxDone' \in BOOLEAN
      BY Zenon, <1>2 DEF LoadMaps, StartupFails, Restart, Alive
    <2> QED
      BY Zenon, <2>1, ProgramsStay DEF Programs, ctrlVars
  <1>3. CASE MonitorCancels \/ Signal
    <2>1. /\ main \in Alive /\ UNCHANGED <<main, kernelVars, monVars, ctrlVars>>
          /\ ctxDone' \in BOOLEAN
      BY Zenon, <1>3 DEF MonitorCancels, Signal, procVars, Alive
    <2> QED
      BY Zenon, <2>1, ProgramsStay DEF Programs
  <1>4. CASE \/ ShutdownBegins \/ WaitChecker \/ WaitCheckerExpires \/ TeardownLookup
             \/ TeardownUpdate \/ WaitCtrl \/ WaitCtrlExpires
    <2>1. main' \in Alive /\ UNCHANGED <<ctxDone, kernelVars, monVars, ctrlVars>>
      BY <1>4 DEF ShutdownBegins, WaitChecker, WaitCheckerExpires, TeardownLookup,
         TeardownUpdate, WaitCtrl, WaitCtrlExpires, Alive
    <2> QED
      BY Zenon, <2>1, ProgramsStay DEF Programs
  <1>5. CASE \/ CheckerRuns(HC!Probing) \/ CheckerRuns(HC!CheckerStops) \/ UNCHANGED vars
             \/ \E v \in Veths : PodQuery(v) \/ Answer(v)
    <2>1. UNCHANGED <<main, ctxDone, kernelVars, monVars, ctrlVars>>
      BY Zenon, <1>5 DEF CheckerRuns, PodQuery, Answer, vars, procVars
    <2> QED
      BY Zenon, <2>1, ProgramsStay DEF Programs, ctrlVars
  <1> QED
    BY Zenon, <1>1, <1>2, <1>3, <1>4, <1>5, StartPrograms, CtrlPrograms DEF Next, MainStep

(* At the start there is no process and no program. *)
LEMMA ProgramsInit == Init => Programs
  <1> SUFFICES ASSUME Init PROVE Programs
    OBVIOUS
  <1>1. <<>> \in Seq({"add", "remove"} \X Veths)
    OBVIOUS
  <1>2. CP!TypeOK
    BY Zenon, <1>1 DEF Init, CP!TypeOK, CP!CtrlStages
  <1>3. CP!StageLocal /\ CP!Recorded /\ CP!EgressCovers /\ ctrl = "off"
    BY DEF Init, CP!StageLocal, CP!Recorded, CP!EgressCovers
  <1> QED
    BY <1>2, <1>3 DEF Programs, CP!Attached

-----------------------------------------------------------------------------
(* The checker and the stages of the shutdown. *)

(* Without a process the checker is off and believes in no bypass.  After  *)
(* the wait it is done, or it was given up.                                *)
Ordered ==
    /\ IF main \in Alive THEN chk # "off"
       ELSE chk = "off" /\ bypassActive = FALSE /\ teardown = FALSE
    /\ main \in {"lookup", "update", "waitCtrl", "close"} => chk = "done" \/ gaveUp
    /\ teardown => main \in {"waitCtrl", "close"}

(* bypassActive lags behind the map only between SetBypass and the store,  *)
(* until the shutdown sets bypass.                                         *)
Believed ==
    main \in Alive /\ ~teardown =>
        IF chk = "set" THEN bypass = err ELSE bypassActive = bypass

(* A probe on its way to SetBypass saw ctx alive. *)
Committed == chk \in {"enable", "clear", "setting"} => passed

Sticking == Ordered /\ Believed /\ Committed /\ TeardownBypassSticks

stickVars == <<main, bypass, chk, err, bypassActive, teardown, gaveUp, passed>>

(* Steps of others leave all this alone. *)
LEMMA StickingStays == Sticking /\ UNCHANGED stickVars => Sticking'
  BY DEF Sticking, Ordered, Believed, Committed, TeardownBypassSticks, stickVars

(* The end of the process, and a process that has not started. *)
LEMMA DownSticks ==
    ASSUME main' \notin Alive, chk' = "off", bypassActive' = FALSE, teardown' = FALSE
    PROVE  Sticking'
  <1>1. main' \notin {"lookup", "update", "waitCtrl", "close"}
    BY DEF Alive
  <1>2. Committed'
    BY DEF Committed
  <1> QED
    BY Zenon, <1>1, <1>2 DEF Sticking, Ordered, Believed, TeardownBypassSticks

(* PopulateConfig resets the flag before the checker starts. *)
LEMMA StartSticks == Sticking /\ StartGoroutines => Sticking'
  <1> SUFFICES ASSUME Sticking, StartGoroutines PROVE Sticking'
    OBVIOUS
  <1>1. main = "populate" /\ main' = "running" /\ chk' = "probe" /\ bypass' = FALSE
    BY DEF StartGoroutines, PopulatedBypass
  <1>2. bypassActive = FALSE /\ teardown = FALSE
    BY <1>1 DEF Sticking, Ordered, Alive
  <1>3. bypassActive' = FALSE /\ teardown' = FALSE
    BY <1>2 DEF StartGoroutines
  <1> QED
    BY <1>1, <1>3 DEF Sticking, Ordered, Believed, Committed, TeardownBypassSticks, Alive

(* The shutdown goes past the wait when the checker is done or given up,   *)
(* and sets bypass.                                                        *)
LEMMA ShutdownSticks ==
    Sticking /\ (ShutdownBegins \/ WaitChecker \/ WaitCheckerExpires \/ TeardownLookup
                 \/ TeardownUpdate \/ WaitCtrl \/ WaitCtrlExpires) => Sticking'
  <1> SUFFICES ASSUME Sticking,
                      \/ ShutdownBegins \/ WaitChecker \/ WaitCheckerExpires \/ TeardownLookup
                      \/ TeardownUpdate \/ WaitCtrl \/ WaitCtrlExpires
               PROVE  Sticking'
    OBVIOUS
  <1>1. main \in Alive /\ main' \in Alive /\ UNCHANGED <<chk, err, bypassActive, passed>>
    BY DEF ShutdownBegins, WaitChecker, WaitCheckerExpires, TeardownLookup, TeardownUpdate,
           WaitCtrl, WaitCtrlExpires, Alive, checkerVars
  <1>2. CASE /\ UNCHANGED <<bypass, teardown>>
             /\ UNCHANGED gaveUp \/ gaveUp' = TRUE
             /\ main' \in {"lookup", "update", "waitCtrl", "close"} => chk = "done" \/ gaveUp'
             /\ main \in {"waitCtrl", "close"} => main' \in {"waitCtrl", "close"}
    BY <1>1, <1>2 DEF Sticking, Ordered, Believed, Committed, TeardownBypassSticks
  <1>3. CASE TeardownUpdate /\ teardown' = TRUE
    <2>1. bypass' = TRUE /\ main = "update" /\ main' = "waitCtrl" /\ UNCHANGED gaveUp
      BY Zenon, <1>3 DEF TeardownUpdate, HC!SetBypassUpdate, HC!SetBypassUpdateFails, Sticking, Ordered
    <2> QED
      BY <1>1, <1>3, <2>1 DEF Sticking, Ordered, Believed, Committed, TeardownBypassSticks, Alive
  <1>4. CASE TeardownUpdate /\ teardown' # TRUE
    <2>1. /\ UNCHANGED <<bypass, teardown, gaveUp>> /\ main = "update" /\ main' = "waitCtrl"
      BY <1>4 DEF TeardownUpdate, HC!SetBypassUpdateFails
    <2> QED
      BY Zenon, <1>2, <2>1 DEF Sticking, Ordered
  <1>5. CASE TeardownLookup
    <2>1. /\ UNCHANGED <<bypass, teardown, gaveUp>> /\ main = "lookup"
          /\ main' \in {"update", "waitCtrl"}
      BY <1>5 DEF TeardownLookup, HC!SetBypassLookup, HC!SetBypassLookupFails
    <2> QED
      BY Zenon, <1>2, <2>1 DEF Sticking, Ordered
  <1>6. CASE ShutdownBegins \/ WaitChecker \/ WaitCheckerExpires \/ WaitCtrl \/ WaitCtrlExpires
    <2>1. UNCHANGED <<bypass, teardown>> /\ (UNCHANGED gaveUp \/ gaveUp' = TRUE)
      BY Zenon, <1>6 DEF ShutdownBegins, WaitChecker, WaitCheckerExpires, WaitCtrl,
                         WaitCtrlExpires, mapVars
    <2>2. /\ main' \in {"lookup", "update", "waitCtrl", "close"} => chk = "done" \/ gaveUp'
          /\ main \in {"waitCtrl", "close"} => main' \in {"waitCtrl", "close"}
      BY <1>6, <2>1 DEF ShutdownBegins, WaitChecker, WaitCheckerExpires, WaitCtrl,
                        WaitCtrlExpires, CheckerAwaited, Sticking, Ordered
    <2> QED
      BY <1>2, <2>1, <2>2
  <1> QED
    BY <1>3, <1>4, <1>5, <1>6

(* A write of the checker after the teardown comes from a probe that saw   *)
(* ctx alive, and only when the wait for the checker expired.              *)
LEMMA CheckerSticks ==
    Sticking /\ (CheckerRuns(HC!Probing) \/ CheckerRuns(HC!CheckerStops)) => Sticking'
  <1> SUFFICES ASSUME Sticking, CheckerRuns(HC!Probing) \/ CheckerRuns(HC!CheckerStops)
               PROVE  Sticking'
    OBVIOUS
  <1>1. /\ main \in Alive /\ UNCHANGED <<main, teardown, gaveUp>>
        /\ passed' = IF chk' \in {"enable", "clear"} THEN ~ctxDone ELSE passed
    BY DEF CheckerRuns, MainStages, Alive
  <1> USE DEF Sticking, Ordered, Believed, Committed, TeardownBypassSticks, HC!mapVars
  <1>2. CASE HC!ProbeReturns
    BY <1>1, <1>2 DEF HC!ProbeReturns
  <1>3. CASE HC!ProbeDiscarded \/ HC!CheckerTick \/ HC!CheckerStops
    BY <1>1, <1>3 DEF HC!ProbeDiscarded, HC!CheckerTick, HC!CheckerStops
  <1>4. CASE HC!ProbeFailed \/ HC!ProbeSucceeded
    <2>1. /\ chk = "returned" /\ chk' \in {"enable", "clear", "wait"} /\ ~ctxDone
          /\ UNCHANGED <<bypass, bypassActive>>
      BY <1>4 DEF HC!ProbeFailed, HC!ProbeSucceeded, HC!ProbeIgnored
    <2> QED
      BY Zenon, <1>1, <2>1
  <1>5. CASE HC!CheckerLookup
    <2>1. /\ chk \in {"enable", "clear"} /\ chk' \in {"setting", "wait"}
          /\ UNCHANGED <<bypass, bypassActive, err>>
      BY <1>5 DEF HC!CheckerLookup, HC!SetBypassLookup, HC!SetBypassLookupFails
    <2> QED
      BY <1>1, <2>1
  <1>6. CASE HC!CheckerUpdate
    <2>1. /\ chk = "setting" /\ UNCHANGED <<bypassActive, err>>
          /\ \/ chk' = "set" /\ bypass' = err
             \/ chk' = "wait" /\ UNCHANGED bypass
      BY <1>6 DEF HC!CheckerUpdate, HC!SetBypassUpdate, HC!SetBypassUpdateFails
    <2> QED
      BY <1>1, <2>1
  <1>7. CASE HC!CheckerStore
    BY <1>1, <1>7 DEF HC!CheckerStore
  <1> QED
    BY Zenon, <1>2, <1>3, <1>4, <1>5, <1>6, <1>7 DEF CheckerRuns, HC!Probing

(* Sticking holds throughout. *)
LEMMA StickingStep == Sticking /\ [Next]_vars => Sticking'
  <1> SUFFICES ASSUME Sticking, [Next]_vars PROVE Sticking'
    OBVIOUS
  <1>1. CASE Exit \/ Crash
    <2>1. Dead /\ main' = "down"
      BY Zenon, <1>1 DEF Exit, Crash
    <2> QED
      BY Zenon, <2>1, DownSticks DEF Dead, Alive
  <1>2. CASE LoadMaps \/ StartupFails \/ Restart
    <2>1. main \notin Alive /\ main' \notin Alive /\ UNCHANGED <<chk, bypassActive, teardown>>
      BY Zenon, <1>2 DEF LoadMaps, StartupFails, Restart, Alive, checkerVars
    <2>2. chk = "off" /\ bypassActive = FALSE /\ teardown = FALSE
      BY <2>1 DEF Sticking, Ordered
    <2> QED
      BY Zenon, <2>1, <2>2, DownSticks
  <1>3. CASE \/ CtrlRuns(CT!CtrlStep) \/ MonitorTells \/ MonitorStops \/ MonitorCancels
             \/ Signal \/ KernelStep \/ UNCHANGED vars
             \/ \E v \in Veths : PodQuery(v) \/ Answer(v)
    <2>1. UNCHANGED stickVars
      BY Zenon, <1>3 DEF CtrlRuns, MonitorTells, MonitorStops, MonitorCancels, Signal,
         KernelStep, PodQuery, Answer, vars, stickVars, mapVars, checkerVars, procVars
    <2> QED
      BY Zenon, <2>1, StickingStays
  <1> QED
    BY Zenon, <1>1, <1>2, <1>3, StartSticks, ShutdownSticks, CheckerSticks DEF Next, MainStep

LEMMA StickingInit == Init => Sticking
  BY DownSticks DEF Init, Sticking, Ordered, Believed, Committed, TeardownBypassSticks, Alive

(***************************************************************************)
(* Once the shutdown has set bypass, no late recovery of the checker       *)
(* clears it, except a probe that saw ctx alive and outlasted the wait for *)
(* the checker in step 9a of main.                                         *)
(***************************************************************************)
THEOREM TeardownSticks == Spec => []TeardownBypassSticks
  <1>1. Sticking => TeardownBypassSticks
    BY DEF Sticking
  <1> QED
    BY <1>1, StickingInit, StickingStep, PTL DEF Spec

(***************************************************************************)
(* Between two probes the checker's bypassActive is the bypass flag of     *)
(* config_map, after any number of crashes under bypass: PopulateConfig    *)
(* resets the flag of a map it takes over before the checker starts.       *)
(***************************************************************************)
THEOREM BeliefSurvives == Spec => []BeliefSurvivesRestart
  <1>1. Sticking => BeliefSurvivesRestart
    BY DEF Sticking, Ordered, Believed, BeliefSurvivesRestart, HC!Settled
  <1> QED
    BY <1>1, StickingInit, StickingStep, PTL DEF Spec

-----------------------------------------------------------------------------
(* The queries of the pods. *)

Edges == {"none", "attach", "stop", "monitor", "crash"}

PodTypes == query \in [Veths -> QueryStages] /\ edge \in [Veths -> Edges]

(* A query that its egress program will not restore has a reason. *)
Explained(v) ==
    /\ query[v] \in {"orphaned", "leaked"} => edge[v] # "none"
    /\ query[v] = "redirected" /\ v \notin egress => edge[v] # "none"

Guarded == PodTypes /\ \A v \in Veths : Explained(v)

(* What happens to a redirected query is a reason once it is recorded. *)
LEMMA MarksGuard ==
    ASSUME Guarded, PodTypes',
           \A v \in Veths :
               /\ \/ query'[v] = query[v]
                  \/ query[v] = "redirected" /\ query'[v] = "orphaned" /\ edge'[v] # "none"
               /\ edge'[v] = edge[v] \/ edge'[v] # "none"
               /\ query[v] = "redirected" /\ v \in egress \ egress' => edge'[v] # "none"
    PROVE  Guarded'
  <1>1. ASSUME NEW v \in Veths PROVE Explained(v)'
    BY <1>1 DEF Guarded, Explained
  <1> QED
    BY <1>1 DEF Guarded

(* The end of the process, or of its startup, and of its maps. *)
LEMMA StopGuards ==
    Guarded /\ ((Unpin /\ (UNCHANGED egress \/ egress' = {})) \/ Crash) => Guarded'
  <1> SUFFICES ASSUME Guarded, (Unpin /\ (UNCHANGED egress \/ egress' = {})) \/ Crash
               PROVE  Guarded'
    OBVIOUS
  <1>1. CASE Unpin
    <2>1. PodTypes'
      BY <1>1 DEF Guarded, PodTypes, Unpin, QueryStages, Edges
    <2>2. \A v \in Veths :
              /\ \/ query'[v] = query[v]
                 \/ query[v] = "redirected" /\ query'[v] = "orphaned" /\ edge'[v] # "none"
              /\ edge'[v] = edge[v] \/ edge'[v] # "none"
              /\ query[v] = "redirected" /\ v \in egress \ egress' => edge'[v] # "none"
      BY <1>1 DEF Unpin
    <2> QED
      BY Zenon, <2>1, <2>2, MarksGuard
  <1>2. CASE Crash
    <2>1. PodTypes' /\ UNCHANGED query
      BY <1>2 DEF Guarded, PodTypes, Crash, Edges
    <2>2. \A v \in Veths :
              /\ edge'[v] = edge[v] \/ edge'[v] # "none"
              /\ query[v] = "redirected" => edge'[v] # "none"
      BY <1>2 DEF Crash
    <2> QED
      BY Zenon, <2>1, <2>2, MarksGuard
  <1> QED
    BY <1>1, <1>2

(* The controller takes programs off, in DetachAll. *)
LEMMA CtrlGuards == Guarded /\ CtrlRuns(CT!CtrlStep) => Guarded'
  <1> SUFFICES ASSUME Guarded, CtrlRuns(CT!CtrlStep) PROVE Guarded'
    OBVIOUS
  <1>1. PodTypes' /\ UNCHANGED query
    BY DEF Guarded, PodTypes, CtrlRuns, Edges
  <1>2. \A v \in Veths :
            /\ edge'[v] = edge[v] \/ edge'[v] # "none"
            /\ query[v] = "redirected" /\ v \in egress \ egress' => edge'[v] # "none"
    BY DEF CtrlRuns
  <1> QED
    BY Zenon, <1>1, <1>2, MarksGuard

(* A deleted veth takes its pod and its programs with it. *)
LEMMA KernelGuards == Programs /\ Guarded /\ KernelStep => Guarded'
  <1> SUFFICES ASSUME Programs, Guarded, KernelStep PROVE Guarded'
    OBVIOUS
  <1>1. link \in [Veths -> {"new", "up", "gone"}]
    BY Zenon DEF Programs, CP!Attached, CP!TypeOK
  <1>2. PICK u \in Veths : CT!LinkAdded(u) \/ CT!LinkDeleted(u)
    BY Zenon DEF KernelStep, CT!KernelStep
  <1>3. PodTypes'
    BY DEF Guarded, PodTypes, KernelStep, QueryStages, Edges
  <1>4. \A v \in egress \ egress' : v = u /\ link'[v] = "gone"
    BY <1>1, <1>2 DEF CT!LinkAdded, CT!LinkDeleted
  <1>5. \A v \in Veths : IF link'[v] = "gone" THEN query'[v] = "none"
                         ELSE query'[v] = query[v] /\ edge'[v] = edge[v]
    BY DEF KernelStep
  <1>6. ASSUME NEW v \in Veths PROVE Explained(v)'
    BY <1>4, <1>5 DEF Guarded, Explained
  <1> QED
    BY <1>3, <1>6 DEF Guarded

(* A query is redirected where the egress program is, or in Attach. *)
LEMMA PodGuards ==
    Programs /\ Guarded /\ (\E v \in Veths : PodQuery(v) \/ Answer(v)) => Guarded'
  <1> SUFFICES ASSUME Programs, Guarded, NEW u \in Veths, PodQuery(u) \/ Answer(u)
               PROVE  Guarded'
    OBVIOUS
  <1>1. UNCHANGED egress
    BY Zenon DEF PodQuery, Answer, kernelVars
  <1>2. PodTypes'
    BY DEF Guarded, PodTypes, PodQuery, Answer, QueryStages, Edges
  <1>3. \A v \in Veths \ {u} : query'[v] = query[v] /\ edge'[v] = edge[v]
    BY DEF Guarded, PodTypes, PodQuery, Answer
  <1>4. \A v \in Veths \ {u} : Explained(v)'
    BY <1>1, <1>3 DEF Guarded, Explained
  <1>5. CASE PodQuery(u)
    <2>1. query'[u] = "redirected"
      BY <1>5 DEF PodQuery, Guarded, PodTypes
    <2>2. u \notin egress => edge'[u] = "attach"
      BY <1>5 DEF PodQuery, Guarded, PodTypes, Programs, CP!Attached, CP!EgressCovers
    <2> QED
      BY <1>1, <1>2, <1>4, <2>1, <2>2 DEF Guarded, Explained
  <1>6. CASE Answer(u)
    <2>1. \/ query'[u] = "none"
          \/ query'[u] = "leaked" /\ edge'[u] = edge[u] /\ ~Restored(u)
      BY <1>6 DEF Answer, Guarded, PodTypes
    <2>2. query[u] \in {"redirected", "orphaned"} /\ (~Restored(u) => edge[u] # "none")
      BY <1>6 DEF Answer, Restored, Guarded, Explained
    <2> QED
      BY <1>1, <1>2, <1>4, <2>1, <2>2 DEF Guarded, Explained
  <1> QED
    BY <1>5, <1>6

(* Guarded holds throughout. *)
LEMMA GuardedStep == Programs /\ Guarded /\ [Next]_vars => Guarded'
  <1> SUFFICES ASSUME Programs, Guarded, [Next]_vars PROVE Guarded'
    OBVIOUS
  <1>1. CASE StartupFails \/ Exit \/ Crash
    <2>1. (Unpin /\ (UNCHANGED egress \/ egress' = {})) \/ Crash
      BY Zenon, <1>1 DEF StartupFails, Exit, Dead, kernelVars
    <2> QED
      BY Zenon, <2>1, StopGuards
  <1>2. CASE \/ LoadMaps \/ StartGoroutines \/ ShutdownBegins \/ WaitChecker \/ TeardownLookup
             \/ TeardownUpdate \/ WaitCtrl \/ WaitCheckerExpires \/ WaitCtrlExpires
             \/ CheckerRuns(HC!Probing) \/ CheckerRuns(HC!CheckerStops)
             \/ MonitorTells \/ MonitorStops \/ MonitorCancels \/ Restart \/ Signal
             \/ UNCHANGED vars
    <2>1. UNCHANGED <<egress, query, edge>>
      BY Zenon, <1>2 DEF LoadMaps, StartGoroutines, ShutdownBegins, WaitChecker, TeardownLookup,
         TeardownUpdate, WaitCtrl, WaitCheckerExpires, WaitCtrlExpires, CheckerRuns,
         MonitorTells, MonitorStops, MonitorCancels, Restart, Signal, vars, kernelVars, podVars,
         CT!MonitorTells, CT!Announce, CT!Retract, CT!Emit, CT!MonitorStops, CT!kernelVars
    <2> QED
      BY Zenon, <2>1 DEF Guarded, PodTypes, Explained
  <1> QED
    BY Zenon, <1>1, <1>2, CtrlGuards, KernelGuards, PodGuards DEF Next, MainStep

LEMMA GuardedInit == Init => Guarded
  BY DEF Init, Guarded, PodTypes, Explained, QueryStages, Edges

(***************************************************************************)
(* An answer reaches its pod from the host resolver's address only if the  *)
(* query was redirected inside Attach, before the egress program was on,   *)
(* or the programs or the conntrack map went away under it: bypass, failed *)
(* attachments, other veths and restarts do no harm.                       *)
(***************************************************************************)
THEOREM LeaksOnlyAtTheEdges == Spec => []LeaksOnlyAtEdges
  <1>1. Guarded => LeaksOnlyAtEdges
    BY DEF Guarded, Explained, LeaksOnlyAtEdges
  <1> QED
    BY <1>1, ProgramsInit, ProgramsStep, GuardedInit, GuardedStep, PTL DEF Spec
=============================================================================
