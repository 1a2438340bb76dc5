------------------------ MODULE HealthCheckerProofs ------------------------
(***************************************************************************)
(* Proofs about HealthChecker, for every threshold and any number of       *)
(* failing map operations.  Decided is the inductive invariant: what the   *)
(* checker is about to write, or has just written, follows from the        *)
(* outcome of the last probe.                                              *)
(***************************************************************************)
EXTENDS HealthChecker, TLAPS

(* While the checker is on its own, it alone takes the lock. *)
LockHeld == configMu = IF chk = "setting" THEN "checker" ELSE "free"

(* bypassActive lags behind the map only between SetBypass and the store. *)
Believed == IF chk = "set" THEN bypass = err ELSE bypassActive = bypass

(* The outcome of the last probe and the failures counted. *)
Counted ==
    chk \in {"enable", "clear", "setting", "set"} => (err <=> consecutiveFailures >= Threshold)

Acting == /\ chk = "enable" => err
          /\ chk = "clear" => ~err

Decided ==
    TypeOK /\ LockHeld /\ Believed /\ Counted /\ Acting /\ ThresholdRespected /\ chk # "off"

USE ThresholdAssumption

(* The checker starts with bypass off and no failure counted. *)
LEMMA DecidedInit == Init => Decided
  <1> SUFFICES ASSUME Init PROVE Decided
    OBVIOUS
  <1>0. 0 \in 0 .. Threshold + 1 /\ 0 \in 0 .. MaxSetFails
    OBVIOUS
  <1>1. TypeOK
    BY <1>0, Zenon DEF Init, TypeOK, Callers, CheckerStages
  <1>2. LockHeld /\ Counted /\ Acting /\ chk # "off"
    BY DEF Init, LockHeld, Counted, Acting
  <1>4. Believed
    BY Zenon DEF Init, Believed
  <1>3. ThresholdRespected
    BY DEF Init, ThresholdRespected
  <1> QED
    BY <1>1, <1>2, <1>3, <1>4 DEF Decided

(* One step per action of the checker. *)
LEMMA CheckerPreserves == Decided /\ CheckerStep => Decided'
  <1> SUFFICES ASSUME Decided, CheckerStep PROVE Decided'
    OBVIOUS
  <1> USE DEF Decided, TypeOK, Callers, CheckerStages, LockHeld, Believed, Counted, Acting,
              ThresholdRespected, Settled, mapVars
  <1>0. UNCHANGED <<resolver, ctxDone>>
    BY DEF CheckerStep
  <1>1. CASE ProbeReturns
    BY Zenon, <1>0, <1>1 DEF ProbeReturns
  <1>2. CASE ProbeDiscarded
    BY <1>0, <1>2 DEF ProbeDiscarded
  <1>3. CASE ProbeFailed
    <2>1. err /\ chk = "returned" /\ UNCHANGED <<mapVars, err, bypassActive, setErr>>
      BY <1>3 DEF ProbeFailed
    <2>2. /\ consecutiveFailures' \in 0 .. Threshold + 1
          /\ consecutiveFailures >= Threshold => consecutiveFailures' >= Threshold
      BY <1>3 DEF ProbeFailed
    <2>3. /\ chk' \in {"enable", "wait"}
          /\ chk' = "enable" <=> consecutiveFailures' >= Threshold /\ ~bypassActive
      BY <1>3 DEF ProbeFailed, TooManyFailures
    <2>4. TypeOK' /\ LockHeld' /\ Believed' /\ Acting'
      BY Zenon, <1>0, <2>1, <2>2, <2>3
    <2>5. Counted'
      BY <2>1, <2>3
    <2>6. ThresholdRespected'
      BY <2>1, <2>2, <2>3
    <2> QED
      BY <2>3, <2>4, <2>5, <2>6
  <1>4. CASE ProbeSucceeded
    <2>1. /\ ~err /\ chk = "returned" /\ consecutiveFailures' = 0
          /\ chk' = IF bypassActive THEN "clear" ELSE "wait"
          /\ UNCHANGED <<mapVars, err, bypassActive, setErr>>
      BY <1>4 DEF ProbeSucceeded
    <2>2. TypeOK' /\ LockHeld' /\ Believed' /\ Acting'
      BY <1>0, <2>1
    <2>3. Counted'
      BY <2>1
    <2>4. ThresholdRespected'
      BY <2>1
    <2> QED
      BY <2>1, <2>2, <2>3, <2>4
  <1>5. CASE CheckerLookup
    <2>1. /\ chk \in {"enable", "clear"}
          /\ UNCHANGED <<bypass, err, consecutiveFailures, bypassActive>>
          /\ setFails' \in 0 .. MaxSetFails
      BY <1>5 DEF CheckerLookup, SetBypassLookup, SetBypassLookupFails, Fails
    <2>2. CASE chk' = "setting" /\ setErr' = FALSE /\ configMu' = "checker"
      BY Zenon, <1>0, <2>1, <2>2
    <2>3. CASE chk' = "wait" /\ setErr' = TRUE /\ configMu' = "free"
      BY <1>0, <2>1, <2>3
    <2> QED
      BY Zenon, <1>5, <2>2, <2>3 DEF CheckerLookup, SetBypassLookup, SetBypassLookupFails
  <1>6. CASE CheckerUpdate
    <2>1. /\ chk = "setting"
          /\ configMu' = "free"
          /\ UNCHANGED <<err, consecutiveFailures, bypassActive>>
          /\ setFails' \in 0 .. MaxSetFails
      BY <1>6 DEF CheckerUpdate, SetBypassUpdate, SetBypassUpdateFails, Fails
    <2>2. CASE chk' = "set" /\ setErr' = setErr /\ bypass' = err
      BY <1>0, <2>1, <2>2
    <2>3. CASE chk' = "wait" /\ setErr' = TRUE /\ bypass' = bypass
      BY <1>0, <2>1, <2>3
    <2> QED
      BY Zenon, <1>6, <2>2, <2>3 DEF CheckerUpdate, SetBypassUpdate, SetBypassUpdateFails
  <1>7. CASE CheckerStore
    BY <1>0, <1>7 DEF CheckerStore
  <1>8. CASE CheckerTick
    BY <1>0, <1>8 DEF CheckerTick
  <1>9. CASE CheckerStops
    BY <1>0, <1>9 DEF CheckerStops
  <1> QED
    BY <1>1, <1>2, <1>3, <1>4, <1>5, <1>6, <1>7, <1>8, <1>9 DEF CheckerStep, Probing

(* Decided holds throughout. *)
LEMMA DecidedInvariant == Spec => []Decided
  <1>1. Decided /\ [Next]_vars => Decided'
    <2> SUFFICES ASSUME Decided, [Next]_vars PROVE Decided'
      OBVIOUS
    <2>1. CASE CheckerStep
      BY <2>1, CheckerPreserves
    <2>2. CASE ResolverChanges \/ Cancel \/ UNCHANGED vars
      <3>1. UNCHANGED <<mapVars, checkerVars>>
        BY <2>2 DEF ResolverChanges, Cancel, vars
      <3>2. resolver' \in {"up", "down"} /\ ctxDone' \in BOOLEAN
        BY Zenon, <2>2 DEF ResolverChanges, Cancel, vars, Decided, TypeOK
      <3> QED
        BY <3>1, <3>2 DEF Decided, TypeOK, LockHeld, Believed, Counted, Acting,
                          ThresholdRespected, Settled, mapVars, checkerVars
    <2> QED
      BY <2>1, <2>2 DEF Next
  <1> QED
    BY DecidedInit, <1>1, PTL DEF Spec

-----------------------------------------------------------------------------
(***************************************************************************)
(* For every FailureThreshold: between two probes bypass is set exactly    *)
(* when that many probes or more have failed in a row, unless the last     *)
(* write of config_map failed.                                             *)
(***************************************************************************)
THEOREM BypassFollowsThreshold == Spec => []ThresholdRespected
  BY DecidedInvariant, PTL DEF Decided

(***************************************************************************)
(* bypassActive and config_map agree between two probes, however many      *)
(* writes fail.                                                            *)
(***************************************************************************)
THEOREM BeliefIsRight == Spec => []BeliefMatches
  <1>1. Decided => BeliefMatches
    BY DEF Decided, Believed, BeliefMatches, Settled
  <1> QED
    BY DecidedInvariant, <1>1, PTL
=============================================================================
