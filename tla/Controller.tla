----------------------------- MODULE Controller -----------------------------
(***************************************************************************)
(* The controller (internal/controller/controller.go) and its attach       *)
(* manager (internal/ebpf/attach.go): the goroutine that attaches the      *)
(* ingress and the egress program to every veth the monitor reports, and   *)
(* detaches from all of them at shutdown.                                  *)
(*                                                                         *)
(* The kernel takes both programs off a veth that is deleted.  The monitor *)
(* is represented by the little it promises on its bounded channel: it     *)
(* adds only veths that have appeared, removes only veths that are gone,   *)
(* in any order and with any delay, and closes the channel when it stops.  *)
(* VethMonitor models the monitor itself and implements this.              *)
(***************************************************************************)
EXTENDS Integers, Sequences

CONSTANTS
    Veths,          \* ifindexes of veths; an ifindex is not used twice
    NoVeth,
    MayFailAttach,  \* the veths on which AttachTCX may fail while they exist
    EventsCap       \* capacity of the monitor's channel, 32 in the code

ASSUME VethAssumption == NoVeth \notin Veths /\ MayFailAttach \subseteq Veths
ASSUME CapAssumption == EventsCap \in Nat \ {0}

VARIABLES
    ctxDone,      \* ctx is canceled
    link,         \* the life of each veth: "new", "up" or "gone"
    ingress,      \* veths with the ingress program attached
    egress,       \* veths with the egress program attached
    events,       \* the monitor's channel
    closed,       \* the channel is closed
    ctrl,         \* where the goroutine of Controller.Run is
    veth,         \* the veth it is working on
    attachments,  \* AttachManager.attachments
    closing       \* the attachments DetachAll has yet to close

kernelVars == <<link, ingress, egress>>
ctrlVars   == <<ctrl, veth, attachments, closing>>
vars == <<ctxDone, kernelVars, events, closed, ctrlVars>>

(* attach, attachEgress: in Attach; detach, detachEgress: in DetachAll;    *)
(* off: not started.                                                       *)
CtrlStages == {"off", "loop", "attach", "attachEgress", "detach", "detachEgress", "done"}

Init ==
    /\ ctxDone = FALSE
    /\ link = [v \in Veths |-> "new"]
    /\ ingress = {}
    /\ egress = {}
    /\ events = <<>>
    /\ closed = FALSE
    /\ ctrl = "loop"
    /\ veth = NoVeth
    /\ attachments = {}
    /\ closing = {}

-----------------------------------------------------------------------------
(* The kernel and the monitor. *)

LinkAdded(v) ==
    /\ link[v] = "new"
    /\ link' = [link EXCEPT ![v] = "up"]
    /\ UNCHANGED <<ctxDone, ingress, egress, events, closed, ctrlVars>>

LinkDeleted(v) ==
    /\ link[v] = "up"
    /\ link' = [link EXCEPT ![v] = "gone"]
    /\ ingress' = ingress \ {v}
    /\ egress' = egress \ {v}
    /\ UNCHANGED <<ctxDone, events, closed, ctrlVars>>

Emit(type, v) ==
    /\ ~closed
    /\ Len(events) < EventsCap
    /\ events' = Append(events, <<type, v>>)
    /\ UNCHANGED <<ctxDone, kernelVars, closed, ctrlVars>>

Announce(v) == link[v] # "new" /\ Emit("add", v)

Retract(v) == link[v] = "gone" /\ Emit("remove", v)

MonitorStops ==
    /\ ~closed
    /\ closed' = TRUE
    /\ UNCHANGED <<ctxDone, kernelVars, events, ctrlVars>>

-----------------------------------------------------------------------------
(* Controller.handle and AttachManager. *)

HandleAdd(v) ==
    /\ ctrl = "loop"
    /\ events # <<>> /\ Head(events) = <<"add", v>>
    /\ events' = Tail(events)
    /\ IF v \in attachments
       THEN UNCHANGED <<ctrl, veth>>
       ELSE ctrl' = "attach" /\ veth' = v
    /\ UNCHANGED <<ctxDone, kernelVars, closed, attachments, closing>>

AttachIngress ==
    /\ ctrl = "attach"
    /\ link[veth] = "up"
    /\ ingress' = ingress \cup {veth}
    /\ ctrl' = "attachEgress"
    /\ UNCHANGED <<ctxDone, link, egress, events, closed, veth, attachments, closing>>

BugAttachIngressFails ==
    /\ ctrl = "attach"
    /\ veth \in MayFailAttach \/ link[veth] # "up"
    /\ ctrl' = "done"
    /\ veth' = NoVeth
    /\ UNCHANGED <<ctxDone, kernelVars, events, closed, attachments, closing>>

(* The error is logged; the veth is not tried again. *)
AttachIngressFails ==
    /\ ctrl = "attach"
    /\ veth \in MayFailAttach \/ link[veth] # "up"
    /\ ctrl' = "loop"
    /\ veth' = NoVeth
    /\ UNCHANGED <<ctxDone, kernelVars, events, closed, attachments, closing>>

AttachEgress ==
    /\ ctrl = "attachEgress"
    /\ link[veth] = "up"
    /\ egress' = egress \cup {veth}
    /\ attachments' = attachments \cup {veth}
    /\ ctrl' = "loop"
    /\ veth' = NoVeth
    /\ UNCHANGED <<ctxDone, link, ingress, events, closed, closing>>

BugAttachEgressFails ==
    /\ ctrl = "attachEgress"
    /\ veth \in MayFailAttach \/ link[veth] # "up"
    /\ ctrl' = "loop"
    /\ veth' = NoVeth
    /\ UNCHANGED <<ctxDone, kernelVars, events, closed, attachments, closing>>

(* The ingress link is closed again. *)
AttachEgressFails ==
    /\ ctrl = "attachEgress"
    /\ veth \in MayFailAttach \/ link[veth] # "up"
    /\ ingress' = ingress \ {veth}
    /\ ctrl' = "loop"
    /\ veth' = NoVeth
    /\ UNCHANGED <<ctxDone, link, egress, events, closed, attachments, closing>>

BugHandleRemove(v) ==
    /\ ctrl = "loop"
    /\ events # <<>> /\ Head(events) = <<"remove", v>>
    /\ events' = Tail(events)
    /\ ingress' = ingress \ {v}
    /\ egress' = egress \ {v}
    /\ UNCHANGED <<ctxDone, link, closed, ctrl, veth, attachments, closing>>

(* Detach: the veth is gone, and its programs with it. *)
HandleRemove(v) ==
    /\ ctrl = "loop"
    /\ events # <<>> /\ Head(events) = <<"remove", v>>
    /\ events' = Tail(events)
    /\ attachments' = attachments \ {v}
    /\ ingress' = ingress \ {v}
    /\ egress' = egress \ {v}
    /\ UNCHANGED <<ctxDone, link, closed, ctrl, veth, closing>>

BugStopping == ctxDone

(* The select sees ctx canceled, or the channel closed and drained. *)
Stopping == ctxDone \/ (closed /\ events = <<>>)

StartDetachAll ==
    /\ ctrl = "loop"
    /\ Stopping
    /\ closing' = attachments
    /\ attachments' = {}
    /\ ctrl' = "detach"
    /\ UNCHANGED <<ctxDone, kernelVars, events, closed, veth>>

BugCloseIngress(v) ==
    /\ ctrl = "detach"
    /\ v \in closing
    /\ egress' = egress \ {v}
    /\ ctrl' = "detachEgress"
    /\ veth' = v
    /\ UNCHANGED <<ctxDone, link, ingress, events, closed, attachments, closing>>

(* Attachment.Close: the ingress link first. *)
CloseIngress(v) ==
    /\ ctrl = "detach"
    /\ v \in closing
    /\ ingress' = ingress \ {v}
    /\ ctrl' = "detachEgress"
    /\ veth' = v
    /\ UNCHANGED <<ctxDone, link, egress, events, closed, attachments, closing>>

CloseEgress ==
    /\ ctrl = "detachEgress"
    /\ egress' = egress \ {veth}
    /\ closing' = closing \ {veth}
    /\ ctrl' = "detach"
    /\ veth' = NoVeth
    /\ UNCHANGED <<ctxDone, link, ingress, events, closed, attachments>>

(* Run returns an error when ctx was alive: main cancels ctx. *)
RunReturns ==
    /\ ctrl = "detach"
    /\ closing = {}
    /\ ctrl' = "done"
    /\ ctxDone' = TRUE
    /\ UNCHANGED <<kernelVars, events, closed, veth, attachments, closing>>

Handle == \E v \in Veths : HandleAdd(v) \/ HandleRemove(v)

Work ==
    \/ AttachIngress
    \/ AttachIngressFails
    \/ AttachEgress
    \/ AttachEgressFails
    \/ \E v \in Veths : CloseIngress(v)
    \/ CloseEgress
    \/ RunReturns

CtrlStep == Handle \/ Work \/ StartDetachAll

KernelStep == \E v \in Veths : LinkAdded(v) \/ LinkDeleted(v)

Cancel ==
    /\ ~ctxDone
    /\ ctxDone' = TRUE
    /\ UNCHANGED <<kernelVars, events, closed, ctrlVars>>

MonitorTells == \E v \in Veths : Announce(v) \/ Retract(v)

Next == CtrlStep \/ KernelStep \/ MonitorTells \/ MonitorStops \/ Cancel

Spec == Init /\ [][Next]_vars

(* The goroutine is scheduled; a case of its select that stays ready is    *)
(* chosen in the end.                                                      *)
FairSpec == Spec /\ WF_vars(Handle \/ Work) /\ SF_vars(StartDetachAll)

-----------------------------------------------------------------------------
(* Every variable stays in its domain. *)
TypeOK ==
    /\ ctxDone \in BOOLEAN
    /\ link \in [Veths -> {"new", "up", "gone"}]
    /\ ingress \subseteq Veths
    /\ egress \subseteq Veths
    /\ events \in Seq({"add", "remove"} \X Veths)
    /\ closed \in BOOLEAN
    /\ ctrl \in CtrlStages
    /\ veth \in Veths \cup {NoVeth}
    /\ attachments \subseteq Veths
    /\ closing \subseteq Veths

(***************************************************************************)
(* Where the ingress program redirects queries the egress program is there *)
(* to restore the answers, except between the two steps of Attach.         *)
(***************************************************************************)
EgressCovers ==
    \A v \in ingress : v \in egress \/ (ctrl = "attachEgress" /\ veth = v)

(***************************************************************************)
(* When Controller.Run has returned no program is attached to any veth,    *)
(* whatever failed or was deleted before.                                  *)
(***************************************************************************)
DoneMeansDetached == ctrl = "done" => ingress = {} /\ egress = {}

(***************************************************************************)
(* A veth that was announced and is not deleted gets both programs, unless *)
(* the monitor or the process stops or the attachment to it fails: what    *)
(* fails or vanishes elsewhere does not keep the controller from it.       *)
(***************************************************************************)
EventuallyAttached ==
    \A v \in Veths :
        (\E i \in DOMAIN events : events[i] = <<"add", v>>) ~>
            \/ v \in ingress /\ v \in egress
            \/ link[v] = "gone"
            \/ closed \/ ctxDone
            \/ v \in MayFailAttach /\ veth = v

(* Cancellation, and the end of the monitor, lead to the end of Run. *)
RunEnds == (ctxDone \/ closed) ~> (ctrl = "done" /\ ctxDone)
=============================================================================
