----------------------------- MODULE VethMonitor -----------------------------
(***************************************************************************)
(* The netlink monitor (internal/netlinkmon/monitor.go), whose channel     *)
(* feeds the goroutine of Controller.                                      *)
(*                                                                         *)
(* Monitor.Start subscribes to link messages, asks for a dump of the links *)
(* that exist and turns messages into events.  A second goroutine, the     *)
(* resync, lists the links again when the dump was interrupted.  Both      *)
(* update known under a lock and send the event after releasing it, on one *)
(* bounded channel.                                                        *)
(***************************************************************************)
EXTENDS Integers, Sequences

CONSTANTS
    Veths, NoVeth, MayFailAttach, EventsCap,
    Restless,     \* the veths that may change and may be deleted
    MaxQueued     \* bound of the queue for notifications of a mere change

ASSUME BoundAssumption == Restless \subseteq Veths /\ MaxQueued \in Nat

VARIABLES
    ctxDone, link, ingress, egress, events, closed,
    ctrl, veth, attachments, closing,
    dump,             \* the links the dump has yet to come to
    updates,          \* the messages delivered and not yet handled
    failed,           \* the subscription has failed, updates is closed
    dumpInterrupted,
    known,            \* Monitor.known
    start,            \* where Monitor.Start is
    ev,               \* the event it is sending
    resync,           \* where the resync goroutine is
    links,            \* the result of LinkList it is working through
    found,            \* the veth whose addition it is sending
    stopResync,       \* the channel stopResync is closed
    relisted          \* history: veths the resync put into known when gone

CT == INSTANCE Controller

kernelVars == <<link, ingress, egress>>
ctrlVars   == <<ctrl, veth, attachments, closing>>
netVars    == <<dump, updates, failed>>
startVars  == <<start, ev, stopResync>>
resyncVars == <<resync, links, found, relisted>>
vars == <<ctxDone, kernelVars, events, closed, ctrlVars, netVars, dumpInterrupted, known,
          startVars, resyncVars>>

(* emit: in emit; stopping: in the deferred function that awaits the       *)
(* resync.                                                                 *)
StartStages == {"subscribe", "loop", "emit", "stopping", "done"}

(* list: in LinkList; clear: about to clear dumpInterrupted; each: in the  *)
(* loop over the links; emit: in emit.                                     *)
ResyncStages == {"off", "sleep", "list", "clear", "each", "emit", "done"}

NoEvent == <<"none", NoVeth>>

Init ==
    /\ CT!Init
    /\ dump = {}
    /\ updates = <<>>
    /\ failed = FALSE
    /\ dumpInterrupted = FALSE
    /\ known = {}
    /\ start = "subscribe"
    /\ ev = NoEvent
    /\ stopResync = FALSE
    /\ resync = "off"
    /\ links = {}
    /\ found = NoVeth
    /\ relisted = {}

-----------------------------------------------------------------------------
(* The kernel and the subscription. *)

Subscribed == start \notin {"subscribe", "done"} /\ ~failed

Deliver(type, v) == updates' = IF Subscribed THEN Append(updates, <<type, v>>) ELSE updates

LinkAdded(v) ==
    /\ CT!LinkAdded(v)
    /\ Deliver("RTM_NEWLINK", v)
    /\ UNCHANGED <<dump, failed, dumpInterrupted, known, startVars, resyncVars>>

LinkDeleted(v) ==
    /\ v \in Restless
    /\ CT!LinkDeleted(v)
    /\ Deliver("RTM_DELLINK", v)
    /\ UNCHANGED <<dump, failed, dumpInterrupted, known, startVars, resyncVars>>

LinkChanged(v) ==
    /\ v \in Restless
    /\ link[v] = "up"
    /\ Subscribed
    /\ Len(updates) < MaxQueued
    /\ Deliver("RTM_NEWLINK", v)
    /\ UNCHANGED <<ctxDone, kernelVars, events, closed, ctrlVars, dump, failed,
                   dumpInterrupted, known, startVars, resyncVars>>

(* The dump comes to v and reports it, if it exists. *)
DumpLink(v) ==
    /\ Subscribed
    /\ v \in dump
    /\ dump' = dump \ {v}
    /\ IF link[v] = "up" THEN Deliver("RTM_NEWLINK", v) ELSE UNCHANGED updates
    /\ UNCHANGED <<ctxDone, kernelVars, events, closed, ctrlVars, failed,
                   dumpInterrupted, known, startVars, resyncVars>>

(* A change of the links interrupts the dump, which misses v.  The error   *)
(* callback does nothing once ctx is canceled.                             *)
DumpMisses(v) ==
    /\ Subscribed
    /\ v \in dump
    /\ dump' = dump \ {v}
    /\ dumpInterrupted' = (dumpInterrupted \/ ~ctxDone)
    /\ UNCHANGED <<ctxDone, kernelVars, events, closed, ctrlVars, updates, failed,
                   known, startVars, resyncVars>>

(* A fatal error, such as an overrun of the socket's buffer. *)
SubscriptionFails ==
    /\ Subscribed
    /\ failed' = TRUE
    /\ UNCHANGED <<ctxDone, kernelVars, events, closed, ctrlVars, dump, updates,
                   dumpInterrupted, known, startVars, resyncVars>>

-----------------------------------------------------------------------------
(* Monitor.Start. *)

(* A link that appears while the dump is under way may be reported twice. *)
Subscribe ==
    /\ start = "subscribe"
    /\ start' = "loop"
    /\ resync' = "sleep"
    /\ dump' = Veths
    /\ UNCHANGED <<ctxDone, kernelVars, events, closed, ctrlVars, updates, failed,
                   dumpInterrupted, known, ev, stopResync, links, found, relisted>>

SubscribeFails ==
    /\ start = "subscribe"
    /\ start' = "done"
    /\ closed' = TRUE
    /\ UNCHANGED <<ctxDone, kernelVars, events, ctrlVars, netVars, dumpInterrupted, known,
                   ev, stopResync, resyncVars>>

HandleNew(v) ==
    /\ start = "loop"
    /\ updates # <<>> /\ Head(updates) = <<"RTM_NEWLINK", v>>
    /\ updates' = Tail(updates)
    /\ IF v \in known
       THEN UNCHANGED <<known, start, ev>>
       ELSE known' = known \cup {v} /\ start' = "emit" /\ ev' = <<"add", v>>
    /\ UNCHANGED <<ctxDone, kernelVars, events, closed, ctrlVars, dump, failed,
                   dumpInterrupted, stopResync, resyncVars>>

BugHandleDel(v) ==
    /\ start = "loop"
    /\ updates # <<>> /\ Head(updates) = <<"RTM_DELLINK", v>>
    /\ updates' = Tail(updates)
    /\ IF v \notin known
       THEN UNCHANGED <<start, ev>>
       ELSE start' = "emit" /\ ev' = <<"remove", v>>
    /\ UNCHANGED <<ctxDone, kernelVars, events, closed, ctrlVars, dump, failed,
                   dumpInterrupted, known, stopResync, resyncVars>>

HandleDel(v) ==
    /\ start = "loop"
    /\ updates # <<>> /\ Head(updates) = <<"RTM_DELLINK", v>>
    /\ updates' = Tail(updates)
    /\ IF v \notin known
       THEN UNCHANGED <<known, start, ev>>
       ELSE known' = known \ {v} /\ start' = "emit" /\ ev' = <<"remove", v>>
    /\ UNCHANGED <<ctxDone, kernelVars, events, closed, ctrlVars, dump, failed,
                   dumpInterrupted, stopResync, resyncVars>>

StartEmits ==
    /\ start = "emit"
    /\ Len(events) < EventsCap
    /\ events' = Append(events, ev)
    /\ start' = "loop"
    /\ ev' = NoEvent
    /\ UNCHANGED <<ctxDone, kernelVars, closed, ctrlVars, netVars, dumpInterrupted, known,
                   stopResync, resyncVars>>

BugStartLeaves ==
    start = "loop" /\ (ctxDone \/ (failed /\ updates = <<>>))

(* The cases in which Start returns: the cancellation of ctx, seen by the  *)
(* select of the loop or of emit, and the end of the subscription.         *)
StartLeaves ==
    \/ start \in {"loop", "emit"} /\ ctxDone
    \/ start = "loop" /\ failed /\ updates = <<>>

StopResync ==
    /\ StartLeaves
    /\ start' = "stopping"
    /\ stopResync' = TRUE
    /\ ev' = NoEvent
    /\ UNCHANGED <<ctxDone, kernelVars, events, closed, ctrlVars, netVars, dumpInterrupted,
                   known, resyncVars>>

BugResyncAwaited == TRUE

ResyncAwaited == resync = "done"

(* The deferred functions end the subscription and close the channel. *)
CloseEvents ==
    /\ start = "stopping"
    /\ ResyncAwaited
    /\ start' = "done"
    /\ closed' = TRUE
    /\ dump' = {}
    /\ updates' = <<>>
    /\ UNCHANGED <<ctxDone, kernelVars, events, ctrlVars, failed, dumpInterrupted,
                   known, ev, stopResync, resyncVars>>

-----------------------------------------------------------------------------
(* The resync goroutine. *)

ResyncUnchanged == <<ctxDone, kernelVars, closed, ctrlVars, netVars, startVars>>

ResyncStops ==
    /\ resync \in {"sleep", "emit"}
    /\ ctxDone \/ stopResync
    /\ resync' = "done"
    /\ found' = NoVeth
    /\ UNCHANGED <<ResyncUnchanged, events, dumpInterrupted, known, links, relisted>>

(* The timer fires and the dump was interrupted. *)
ResyncWakes ==
    /\ resync = "sleep"
    /\ dumpInterrupted
    /\ resync' = "list"
    /\ UNCHANGED <<ResyncUnchanged, events, dumpInterrupted, known, links, found, relisted>>

LinkList ==
    /\ resync = "list"
    /\ links' = {v \in Veths : link[v] = "up"}
    /\ resync' = "clear"
    /\ UNCHANGED <<ResyncUnchanged, events, dumpInterrupted, known, found, relisted>>

BugLinkListFails ==
    /\ resync = "list"
    /\ dumpInterrupted' = FALSE
    /\ resync' = "sleep"
    /\ UNCHANGED <<ResyncUnchanged, events, known, links, found, relisted>>

(* It is tried again after the next wait. *)
LinkListFails ==
    /\ resync = "list"
    /\ resync' = "sleep"
    /\ UNCHANGED <<ResyncUnchanged, events, dumpInterrupted, known, links, found, relisted>>

ClearInterrupted ==
    /\ resync = "clear"
    /\ dumpInterrupted' = FALSE
    /\ resync' = "each"
    /\ UNCHANGED <<ResyncUnchanged, events, known, links, found, relisted>>

ResyncLink(v) ==
    /\ resync = "each"
    /\ v \in links
    /\ links' = links \ {v}
    /\ IF v \in known
       THEN UNCHANGED <<known, relisted, resync, found>>
       ELSE /\ known' = known \cup {v}
            /\ relisted' = IF link[v] = "up" THEN relisted ELSE relisted \cup {v}
            /\ resync' = "emit"
            /\ found' = v
    /\ UNCHANGED <<ResyncUnchanged, events, dumpInterrupted>>

ResyncEmits ==
    /\ resync = "emit"
    /\ Len(events) < EventsCap
    /\ events' = Append(events, <<"add", found>>)
    /\ resync' = "each"
    /\ found' = NoVeth
    /\ UNCHANGED <<ResyncUnchanged, dumpInterrupted, known, links, relisted>>

ResyncSleeps ==
    /\ resync = "each"
    /\ links = {}
    /\ resync' = "sleep"
    /\ UNCHANGED <<ResyncUnchanged, events, dumpInterrupted, known, links, found, relisted>>

-----------------------------------------------------------------------------
monitorVars == <<netVars, dumpInterrupted, known, startVars, resyncVars>>

KernelStep == \E v \in Veths : LinkAdded(v) \/ LinkDeleted(v) \/ LinkChanged(v)

DumpStep == \E v \in Veths : DumpLink(v) \/ DumpMisses(v)

StartStep ==
    \/ Subscribe
    \/ SubscribeFails
    \/ \E v \in Veths : HandleNew(v) \/ HandleDel(v)
    \/ StartEmits
    \/ StopResync
    \/ CloseEvents

ResyncStep ==
    \/ ResyncStops
    \/ ResyncWakes
    \/ LinkList
    \/ LinkListFails
    \/ ClearInterrupted
    \/ \E v \in Veths : ResyncLink(v)
    \/ ResyncEmits
    \/ ResyncSleeps

CtrlStep(step) == step /\ UNCHANGED monitorVars

Next ==
    \/ KernelStep
    \/ DumpStep
    \/ SubscriptionFails
    \/ StartStep
    \/ ResyncStep
    \/ CtrlStep(CT!CtrlStep)
    \/ CtrlStep(CT!Cancel)

Spec == Init /\ [][Next]_vars

(* The dump goes on and the goroutines are scheduled.  select picks among  *)
(* the ready cases at random, so a cancellation that stays is seen in the  *)
(* end.  LinkList succeeds in the end if it is called again and again.     *)
FairSpec ==
    /\ Spec
    /\ WF_vars(DumpStep)
    /\ WF_vars(StartStep)
    /\ SF_vars(StopResync)
    /\ WF_vars(ResyncStep)
    /\ SF_vars(LinkList)
    /\ WF_vars(CtrlStep(CT!CtrlStep))

-----------------------------------------------------------------------------
(* Every variable of the monitor stays in its domain. *)
TypeOK ==
    /\ CT!TypeOK
    /\ dump \subseteq Veths
    /\ updates \in Seq({"RTM_NEWLINK", "RTM_DELLINK"} \X Veths)
    /\ failed \in BOOLEAN
    /\ dumpInterrupted \in BOOLEAN
    /\ known \subseteq Veths
    /\ start \in StartStages
    /\ ev \in ({"add", "remove"} \X Veths) \cup {NoEvent}
    /\ stopResync \in BOOLEAN
    /\ resync \in ResyncStages
    /\ links \subseteq Veths
    /\ found \in Veths \cup {NoVeth}
    /\ relisted \subseteq Veths

Pending(type, v) == \E i \in DOMAIN updates : updates[i] = <<type, v>>

(***************************************************************************)
(* The channel is closed only when neither goroutine is in emit: a send on *)
(* a closed channel would panic.                                           *)
(***************************************************************************)
NoSendAfterClose == closed => start # "emit" /\ resync # "emit"

(***************************************************************************)
(* While the monitor runs, a veth that exists and is not known is on its   *)
(* way: its message waits to be handled, the dump will come to it, or the  *)
(* resync is going to list it or has it on its list.  An interruption that *)
(* is reported while the resync clears the flag is not lost.               *)
(***************************************************************************)
NothingMissed ==
    \A v \in Veths :
        Subscribed /\ ~ctxDone /\ link[v] = "up" /\ v \notin known =>
            \/ Pending("RTM_NEWLINK", v)
            \/ v \in dump
            \/ dumpInterrupted
            \/ v \in links /\ resync \in {"clear", "each", "emit"}

(***************************************************************************)
(* A veth that is gone is forgotten with its RTM_DELLINK.  The one         *)
(* exception is a veth the resync took from a list older than its removal. *)
(***************************************************************************)
KnownFollowsLinks ==
    \A v \in known :
        Subscribed /\ link[v] = "gone" => Pending("RTM_DELLINK", v) \/ v \in relisted

(***************************************************************************)
(* The monitor gives the controller what Controller takes for granted.     *)
(***************************************************************************)
ImplementsController == CT!Spec

(***************************************************************************)
(* A veth that stays gets both programs, although the dump was interrupted *)
(* and the channel is short, unless the monitor or the process stops or    *)
(* its attachment fails.                                                   *)
(***************************************************************************)
EventuallyServed ==
    \A v \in Veths :
        <>[](link[v] = "up") =>
            \/ <>(v \in ingress /\ v \in egress)
            \/ <>(failed \/ closed \/ ctxDone)
            \/ v \in MayFailAttach /\ <>(veth = v)

(***************************************************************************)
(* A record of a veth that is gone is dropped in the end, in whatever      *)
(* order its addition and its removal were sent.                           *)
(***************************************************************************)
RecordsForgotten ==
    \A v \in Restless : (link[v] = "gone") ~> (v \notin attachments \/ failed)

(***************************************************************************)
(* Cancellation, and the end of the subscription, close the channel: no    *)
(* goroutine stays blocked on a full channel that nobody reads.            *)
(***************************************************************************)
MonitorEnds == (ctxDone \/ failed) ~> closed
=============================================================================
