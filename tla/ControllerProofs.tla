-------------------------- MODULE ControllerProofs --------------------------
(***************************************************************************)
(* Proofs about Controller, for any set of veths, whichever attachments    *)
(* fail.  Attached is the inductive invariant: the egress program is only  *)
(* on veths the manager has a record of, and the records are where the     *)
(* stage of Run says.                                                      *)
(***************************************************************************)
EXTENDS Controller, TLAPS

(* What each stage of Run says about its local state. *)
StageLocal ==
    /\ ctrl \in {"attach", "attachEgress", "detachEgress"} => veth \in Veths
    /\ ctrl \in {"loop", "attach", "attachEgress"} => closing = {}
    /\ ctrl \in {"detach", "detachEgress", "done", "off"} => attachments = {}
    /\ ctrl = "detachEgress" => veth \in closing /\ veth \notin ingress
    /\ ctrl \in {"done", "off"} => closing = {}

Recorded == egress \subseteq attachments \cup closing

Attached == TypeOK /\ StageLocal /\ Recorded /\ EgressCovers

USE VethAssumption

(* Run starts with nothing attached. *)
LEMMA AttachedInit == Init => Attached
  <1> SUFFICES ASSUME Init PROVE Attached
    OBVIOUS
  <1>0. <<>> \in Seq({"add", "remove"} \X Veths)
    OBVIOUS
  <1>1. TypeOK
    BY Zenon, <1>0 DEF Init, TypeOK, CtrlStages
  <1>2. StageLocal /\ Recorded /\ EgressCovers
    BY DEF Init, StageLocal, Recorded, EgressCovers
  <1> QED
    BY <1>1, <1>2 DEF Attached

(* The channel keeps its type when it is read and written. *)
LEMMA EventsType ==
    ASSUME TypeOK, NEW v \in Veths
    PROVE  /\ Append(events, <<"add", v>>) \in Seq({"add", "remove"} \X Veths)
           /\ Append(events, <<"remove", v>>) \in Seq({"add", "remove"} \X Veths)
           /\ events # <<>> => Tail(events) \in Seq({"add", "remove"} \X Veths)
  <1> DEFINE E == {"add", "remove"} \X Veths
  <1>1. events \in Seq(E)
    BY DEF TypeOK
  <1>2. <<"add", v>> \in E /\ <<"remove", v>> \in E
    OBVIOUS
  <1> HIDE DEF E
  <1>3. /\ Append(events, <<"add", v>>) \in Seq(E)
        /\ Append(events, <<"remove", v>>) \in Seq(E)
        /\ events # <<>> => Tail(events) \in Seq(E)
    BY <1>1, <1>2
  <1> QED
    BY <1>3 DEF E

(* Links that come and go keep it. *)
LEMMA KernelPreserves == Attached /\ KernelStep => Attached'
  <1> SUFFICES ASSUME Attached, NEW v \in Veths, LinkAdded(v) \/ LinkDeleted(v) PROVE Attached'
    BY DEF KernelStep
  <1> USE DEF Attached, TypeOK, StageLocal, Recorded, EgressCovers, ctrlVars
  <1>1. CASE LinkAdded(v)
    BY <1>1 DEF LinkAdded
  <1>2. CASE LinkDeleted(v)
    BY <1>2 DEF LinkDeleted
  <1> QED
    BY <1>1, <1>2

(* Whatever the monitor sends, its end and a cancellation keep it. *)
LEMMA MonitorPreserves == Attached /\ (MonitorTells \/ MonitorStops \/ Cancel) => Attached'
  <1> SUFFICES ASSUME Attached, MonitorTells \/ MonitorStops \/ Cancel PROVE Attached'
    OBVIOUS
  <1> USE DEF Attached
  <1>1. ASSUME NEW v \in Veths, Emit("add", v) \/ Emit("remove", v) PROVE Attached'
    <2>1. TypeOK'
      BY Zenon, <1>1, EventsType DEF Emit, TypeOK, kernelVars, ctrlVars
    <2>2. StageLocal' /\ Recorded' /\ EgressCovers'
      BY <1>1 DEF Emit, StageLocal, Recorded, EgressCovers, kernelVars, ctrlVars
    <2> QED
      BY <2>1, <2>2
  <1>2. CASE MonitorStops \/ Cancel
    BY Zenon, <1>2 DEF MonitorStops, Cancel, TypeOK, StageLocal, Recorded, EgressCovers,
                kernelVars, ctrlVars
  <1> QED
    BY <1>1, <1>2 DEF MonitorTells, Announce, Retract

(* The two steps of Attach and their failures keep it. *)
LEMMA AttachPreserves ==
    Attached /\ (Handle \/ AttachIngress \/ AttachIngressFails \/ AttachEgress
                 \/ AttachEgressFails) => Attached'
  <1> SUFFICES ASSUME Attached,
                      Handle \/ AttachIngress \/ AttachIngressFails \/ AttachEgress
                      \/ AttachEgressFails
               PROVE  Attached'
    OBVIOUS
  <1> USE DEF Attached
  <1>1. ASSUME NEW v \in Veths, HandleAdd(v) PROVE Attached'
    <2>1. TypeOK'
      BY <1>1, EventsType DEF HandleAdd, TypeOK, CtrlStages, kernelVars
    <2>2. StageLocal' /\ Recorded' /\ EgressCovers'
      BY <1>1 DEF HandleAdd, StageLocal, Recorded, EgressCovers, kernelVars
    <2> QED
      BY <2>1, <2>2
  <1>2. ASSUME NEW v \in Veths, HandleRemove(v) PROVE Attached'
    <2>1. TypeOK'
      BY <1>2, EventsType DEF HandleRemove, TypeOK
    <2>2. StageLocal' /\ Recorded' /\ EgressCovers'
      BY <1>2 DEF HandleRemove, StageLocal, Recorded, EgressCovers
    <2> QED
      BY <2>1, <2>2
  <1>3. CASE AttachIngress
    BY <1>3 DEF AttachIngress, TypeOK, CtrlStages, StageLocal, Recorded, EgressCovers
  <1>4. CASE AttachIngressFails
    BY <1>4 DEF AttachIngressFails, TypeOK, CtrlStages, StageLocal, Recorded, EgressCovers,
                kernelVars
  <1>5. CASE AttachEgress
    BY <1>5 DEF AttachEgress, TypeOK, CtrlStages, StageLocal, Recorded, EgressCovers
  <1>6. CASE AttachEgressFails
    BY <1>6 DEF AttachEgressFails, TypeOK, CtrlStages, StageLocal, Recorded, EgressCovers
  <1> QED
    BY <1>1, <1>2, <1>3, <1>4, <1>5, <1>6 DEF Handle

(* DetachAll, which closes ingress first, keeps it. *)
LEMMA DetachPreserves ==
    Attached /\ (StartDetachAll \/ (\E v \in Veths : CloseIngress(v)) \/ CloseEgress
                 \/ RunReturns) => Attached'
  <1> SUFFICES ASSUME Attached,
                      StartDetachAll \/ (\E v \in Veths : CloseIngress(v)) \/ CloseEgress
                      \/ RunReturns
               PROVE  Attached'
    OBVIOUS
  <1> USE DEF Attached, TypeOK, CtrlStages, StageLocal, Recorded, EgressCovers
  <1>1. CASE StartDetachAll
    BY <1>1 DEF StartDetachAll, kernelVars
  <1>2. ASSUME NEW v \in Veths, CloseIngress(v) PROVE Attached'
    BY <1>2 DEF CloseIngress
  <1>3. CASE CloseEgress
    BY <1>3 DEF CloseEgress
  <1>4. CASE RunReturns
    BY <1>4 DEF RunReturns, kernelVars
  <1> QED
    BY <1>1, <1>2, <1>3, <1>4

(* Attached holds throughout. *)
LEMMA AttachedInvariant == Spec => []Attached
  <1>1. Attached /\ [Next]_vars => Attached'
    <2> SUFFICES ASSUME Attached, [Next]_vars PROVE Attached'
      OBVIOUS
    <2>1. CASE UNCHANGED vars
      BY <2>1 DEF Attached, TypeOK, StageLocal, Recorded, EgressCovers, vars, kernelVars, ctrlVars
    <2>2. CASE Next
      BY <2>2, KernelPreserves, MonitorPreserves, AttachPreserves, DetachPreserves DEF Next, CtrlStep, Work
    <2> QED
      BY <2>1, <2>2
  <1> QED
    BY AttachedInit, <1>1, PTL DEF Spec

-----------------------------------------------------------------------------
(***************************************************************************)
(* Wherever the controller leaves the ingress program, on any number of    *)
(* veths and whatever fails, the egress program is there too, except       *)
(* between the two steps of Attach.                                        *)
(***************************************************************************)
THEOREM EgressAlwaysCovers == Spec => []EgressCovers
  BY AttachedInvariant, PTL DEF Attached

(***************************************************************************)
(* Controller.Run never returns with a program attached: rolled back       *)
(* attachments, deleted veths and DetachAll account for every program.     *)
(***************************************************************************)
THEOREM NothingLeftAttached == Spec => []DoneMeansDetached
  <1>1. Attached => DoneMeansDetached
    BY DEF Attached, StageLocal, Recorded, EgressCovers, DoneMeansDetached
  <1> QED
    BY AttachedInvariant, <1>1, PTL
=============================================================================
