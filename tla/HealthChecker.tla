---------------------------- MODULE HealthChecker ----------------------------
(***************************************************************************)
(* The health checker (internal/health/checker.go) and the bypass flag of  *)
(* config_map that it sets through Loader.SetBypass                        *)
(* (internal/ebpf/maps.go).                                                *)
(*                                                                         *)
(* SetBypass reads and writes config_map[0] under configMu.  Its two map   *)
(* operations are separate steps, each of which can fail, and the checker  *)
(* records the state it believes in (bypassActive) in a step of its own.   *)
(***************************************************************************)
EXTENDS Integers

CONSTANTS
    Threshold,    \* FailureThreshold
    MaxSetFails   \* bound of the number of map operations that fail

ASSUME ThresholdAssumption == Threshold \in Nat \ {0} /\ MaxSetFails \in Nat

VARIABLES
    resolver,             \* whether the VPC resolver answers: "up" or "down"
    ctxDone,              \* ctx is canceled
    bypass,               \* config_map[0].bypass
    configMu,             \* the holder of Loader.configMu
    setFails,             \* map operations that have failed
    chk,                  \* where the goroutine of Checker.Run is
    err,                  \* the outcome of the last probe
    consecutiveFailures,  \* counted up to Threshold + 1
    bypassActive,         \* the state the checker last applied
    setErr                \* history: the checker's last SetBypass failed

mapVars     == <<bypass, configMu, setFails>>
checkerVars == <<chk, err, consecutiveFailures, bypassActive, setErr>>
vars == <<resolver, ctxDone, mapVars, checkerVars>>

Callers == {"checker", "main"}

(* probe: the query is in flight; returned: it has returned; enable,       *)
(* clear: about to call SetBypass; setting: inside it; set: back from it;  *)
(* wait: at the select of Run; done: Run has returned; off: not started.   *)
CheckerStages ==
    {"off", "probe", "returned", "enable", "clear", "setting", "set", "wait", "done"}

Init ==
    /\ resolver \in {"up", "down"}
    /\ ctxDone = FALSE
    /\ bypass = FALSE
    /\ configMu = "free"
    /\ setFails = 0
    /\ chk = "probe"
    /\ err = FALSE
    /\ consecutiveFailures = 0
    /\ bypassActive = FALSE
    /\ setErr = FALSE

-----------------------------------------------------------------------------
(* Loader.SetBypass, in two steps. *)

Fails == setFails < MaxSetFails /\ setFails' = setFails + 1

(* Lock and look up config_map[0]. *)
SetBypassLookup(caller) ==
    /\ configMu = "free"
    /\ configMu' = caller
    /\ UNCHANGED <<bypass, setFails>>

SetBypassLookupFails ==
    /\ configMu = "free"
    /\ Fails
    /\ UNCHANGED <<bypass, configMu>>

(* Update config_map[0] and unlock. *)
SetBypassUpdate(caller, on) ==
    /\ configMu = caller
    /\ configMu' = "free"
    /\ bypass' = on
    /\ UNCHANGED setFails

BugSetBypassUpdateFails(caller) ==
    /\ configMu = caller
    /\ Fails
    /\ UNCHANGED <<bypass, configMu>>

SetBypassUpdateFails(caller) ==
    /\ configMu = caller
    /\ configMu' = "free"
    /\ Fails
    /\ UNCHANGED bypass

-----------------------------------------------------------------------------
(* Checker.probeOnce and Checker.Run. *)

(* A query can also be lost while the resolver is up, or be cut off by     *)
(* the cancellation of ctx.                                                *)
ProbeReturns ==
    /\ chk = "probe"
    /\ err' \in {TRUE} \cup {e \in {FALSE} : resolver = "up"}
    /\ chk' = "returned"
    /\ UNCHANGED <<mapVars, consecutiveFailures, bypassActive, setErr>>

(* After shutdown has begun a probe changes nothing. *)
BugProbeIgnored == FALSE

ProbeIgnored == ctxDone

ProbeDiscarded ==
    /\ chk = "returned"
    /\ ProbeIgnored
    /\ chk' = "wait"
    /\ UNCHANGED <<mapVars, err, consecutiveFailures, bypassActive, setErr>>

BugTooManyFailures(n) == n = Threshold

TooManyFailures(n) == n >= Threshold

ProbeFailed ==
    /\ chk = "returned"
    /\ ~ProbeIgnored
    /\ err
    /\ consecutiveFailures' = IF consecutiveFailures > Threshold
                              THEN consecutiveFailures ELSE consecutiveFailures + 1
    /\ chk' = IF TooManyFailures(consecutiveFailures') /\ ~bypassActive THEN "enable" ELSE "wait"
    /\ UNCHANGED <<mapVars, err, bypassActive, setErr>>

BugProbeSucceeded ==
    /\ chk = "returned"
    /\ ~ProbeIgnored
    /\ ~err
    /\ chk' = IF bypassActive THEN "clear" ELSE "wait"
    /\ UNCHANGED <<mapVars, err, consecutiveFailures, bypassActive, setErr>>

ProbeSucceeded ==
    /\ chk = "returned"
    /\ ~ProbeIgnored
    /\ ~err
    /\ consecutiveFailures' = 0
    /\ chk' = IF bypassActive THEN "clear" ELSE "wait"
    /\ UNCHANGED <<mapVars, err, bypassActive, setErr>>

CheckerLookup ==
    /\ chk \in {"enable", "clear"}
    /\ \/ SetBypassLookup("checker") /\ chk' = "setting" /\ setErr' = FALSE
       \/ SetBypassLookupFails /\ chk' = "wait" /\ setErr' = TRUE
    /\ UNCHANGED <<err, consecutiveFailures, bypassActive>>

(* The flag is set after a failure and cleared after a success. *)
CheckerUpdate ==
    /\ chk = "setting"
    /\ \/ SetBypassUpdate("checker", err) /\ chk' = "set" /\ UNCHANGED setErr
       \/ SetBypassUpdateFails("checker") /\ chk' = "wait" /\ setErr' = TRUE
    /\ UNCHANGED <<err, consecutiveFailures, bypassActive>>

BugCheckerStore ==
    /\ chk = "set"
    /\ chk' = "wait"
    /\ UNCHANGED <<mapVars, err, consecutiveFailures, bypassActive, setErr>>

CheckerStore ==
    /\ chk = "set"
    /\ bypassActive' = err
    /\ chk' = "wait"
    /\ UNCHANGED <<mapVars, err, consecutiveFailures, setErr>>

CheckerTick ==
    /\ chk = "wait"
    /\ chk' = "probe"
    /\ UNCHANGED <<mapVars, err, consecutiveFailures, bypassActive, setErr>>

CheckerStops ==
    /\ chk = "wait"
    /\ ctxDone
    /\ chk' = "done"
    /\ UNCHANGED <<mapVars, err, consecutiveFailures, bypassActive, setErr>>

Probing ==
    \/ ProbeReturns
    \/ ProbeDiscarded
    \/ ProbeFailed
    \/ ProbeSucceeded
    \/ CheckerLookup
    \/ CheckerUpdate
    \/ CheckerStore
    \/ CheckerTick

(* Steps of the checker, which leave resolver and ctxDone alone. *)
CheckerStep == (Probing \/ CheckerStops) /\ UNCHANGED <<resolver, ctxDone>>

-----------------------------------------------------------------------------
(* The environment of the checker on its own. *)
ResolverChanges ==
    /\ resolver' \in {"up", "down"} \ {resolver}
    /\ UNCHANGED <<ctxDone, mapVars, checkerVars>>

Cancel ==
    /\ ~ctxDone
    /\ ctxDone' = TRUE
    /\ UNCHANGED <<resolver, mapVars, checkerVars>>

Next == CheckerStep \/ ResolverChanges \/ Cancel

Spec == Init /\ [][Next]_vars

(* The goroutine is scheduled, probes time out and the ticker ticks; when  *)
(* both cases of the select are ready, each is chosen again and again.     *)
FairSpec ==
    /\ Spec
    /\ WF_vars(Probing /\ UNCHANGED <<resolver, ctxDone>>)
    /\ SF_vars(CheckerStops /\ UNCHANGED <<resolver, ctxDone>>)

-----------------------------------------------------------------------------
(* Every variable stays in its domain. *)
TypeOK ==
    /\ resolver \in {"up", "down"}
    /\ ctxDone \in BOOLEAN
    /\ bypass \in BOOLEAN
    /\ configMu \in Callers \cup {"free"}
    /\ setFails \in 0 .. MaxSetFails
    /\ chk \in CheckerStages
    /\ err \in BOOLEAN
    /\ consecutiveFailures \in 0 .. Threshold + 1
    /\ bypassActive \in BOOLEAN
    /\ setErr \in BOOLEAN

(* Between two probes: nothing the checker decided is still to be done. *)
Settled == chk \in {"probe", "returned", "wait", "done"}

(***************************************************************************)
(* Between two probes config_map's bypass flag is set exactly when the     *)
(* last FailureThreshold probes or more all failed, unless the last write  *)
(* of the flag failed.  A failed write does not let the flag and the       *)
(* checker's idea of it drift apart for good: the next write that          *)
(* succeeds restores the equivalence.                                      *)
(***************************************************************************)
ThresholdRespected ==
    Settled /\ ~setErr => (bypass <=> consecutiveFailures >= Threshold)

(***************************************************************************)
(* bypassActive, which the checker decides by and the bypass_active gauge  *)
(* reports, agrees with config_map between two probes, failed writes       *)
(* included.                                                               *)
(***************************************************************************)
BeliefMatches == Settled => bypassActive = bypass

(***************************************************************************)
(* When the resolver stays down bypass is set and stays set, also if some  *)
(* writes of the flag fail, unless the process is shut down before.        *)
(***************************************************************************)
BypassOnOutage == <>[](resolver = "down") => <>ctxDone \/ <>[]bypass

(***************************************************************************)
(* While probes keep succeeding now and then, bypass is cleared again and  *)
(* again: it is never stuck on a resolver that answers.                    *)
(***************************************************************************)
ClearOnRecovery == []<>(chk = "returned" /\ ~err) => <>ctxDone \/ []<>~bypass
=============================================================================
