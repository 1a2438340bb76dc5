------------------------- MODULE VethMonitorProofs -------------------------
(***************************************************************************)
(* Proofs about VethMonitor, for any set of veths and a channel of any     *)
(* capacity.  Honest is the inductive invariant behind the refinement:     *)
(* whatever waits to be handled or sent is about a veth that has appeared, *)
(* or, if it is a removal, about one that is gone.                         *)
(***************************************************************************)
EXTENDS VethMonitor, TLAPS

Messages == {"RTM_NEWLINK", "RTM_DELLINK"} \X Veths

Types ==
    /\ link \in [Veths -> {"new", "up", "gone"}]
    /\ updates \in Seq(Messages)
    /\ dump \subseteq Veths
    /\ links \subseteq Veths

(* What the goroutines have in hand is true of the links. *)
Told ==
    /\ \A v \in Veths : Pending("RTM_NEWLINK", v) => link[v] # "new"
    /\ \A v \in Veths : Pending("RTM_DELLINK", v) => link[v] = "gone"
    /\ \A v \in links : link[v] # "new"
    /\ start = "emit" => \E v \in Veths : \/ ev = <<"add", v>> /\ link[v] # "new"
                                          \/ ev = <<"remove", v>> /\ link[v] = "gone"
    /\ resync = "emit" => found \in Veths /\ link[found] # "new"

(* How the stages of Start and of the resync go together. *)
Stages ==
    /\ start = "subscribe" => resync = "off" /\ known = {} /\ updates = <<>>
    /\ start = "done" => resync \in {"off", "done"}
    /\ closed => start = "done"
    /\ start = "stopping" => ctxDone \/ failed
    /\ stopResync => start \in {"stopping", "done"}

Honest == Types /\ Told /\ Stages

-----------------------------------------------------------------------------
(* Facts about queues. *)

(* A message added to a queue is the last of its messages. *)
LEMMA Appended ==
    ASSUME NEW S, NEW s \in Seq(S), NEW m \in S
    PROVE  /\ Append(s, m) \in Seq(S)
           /\ DOMAIN Append(s, m) = DOMAIN s \cup {Len(s) + 1}
           /\ Append(s, m)[Len(s) + 1] = m
           /\ \A i \in DOMAIN s : i < Len(s) + 1 /\ Append(s, m)[i] = s[i]
  OBVIOUS

(* Taking the head shifts the others. *)
LEMMA Tailed ==
    ASSUME NEW S, NEW s \in Seq(S), s # <<>>
    PROVE  /\ Tail(s) \in Seq(S)
           /\ DOMAIN s \subseteq Int /\ DOMAIN Tail(s) \subseteq Int
           /\ Head(s) = s[1]
           /\ \A i \in DOMAIN Tail(s) : i + 1 \in DOMAIN s /\ Tail(s)[i] = s[i + 1]
           /\ \A i \in DOMAIN s : i # 1 => i - 1 \in DOMAIN Tail(s) /\ Tail(s)[i - 1] = s[i]
  OBVIOUS

(* The messages that wait after one is delivered. *)
LEMMA Delivered ==
    ASSUME updates \in Seq(Messages), NEW m \in Messages, updates' = Append(updates, m)
    PROVE  /\ updates' \in Seq(Messages)
           /\ \A type, v : Pending(type, v)' <=> Pending(type, v) \/ m = <<type, v>>
  <1>1. /\ updates' \in Seq(Messages)
        /\ DOMAIN updates' = DOMAIN updates \cup {Len(updates) + 1}
        /\ updates'[Len(updates) + 1] = m
        /\ \A i \in DOMAIN updates : updates'[i] = updates[i]
    BY Appended
  <1> QED
    BY Zenon, <1>1 DEF Pending

(* The messages that wait after one is taken. *)
LEMMA Taken ==
    ASSUME updates \in Seq(Messages), updates # <<>>, updates' = Tail(updates)
    PROVE  /\ updates' \in Seq(Messages)
           /\ \A type, v : Pending(type, v)' => Pending(type, v)
           /\ \A type, v : Pending(type, v) => Pending(type, v)' \/ Head(updates) = <<type, v>>
           /\ \A type, v : Head(updates) = <<type, v>> => Pending(type, v)
  <1>1. /\ updates' \in Seq(Messages)
        /\ Head(updates) = updates[1]
        /\ 1 \in DOMAIN updates
        /\ \A i \in DOMAIN updates' : i + 1 \in DOMAIN updates /\ updates'[i] = updates[i + 1]
        /\ \A i \in DOMAIN updates : i # 1 => i - 1 \in DOMAIN updates'
                                              /\ updates'[i - 1] = updates[i]
    BY Tailed
  <1>2. ASSUME NEW type, NEW v, Pending(type, v)' PROVE Pending(type, v)
    <2>1. PICK i \in DOMAIN updates' : updates'[i] = <<type, v>>
      BY Zenon, <1>2 DEF Pending
    <2>2. i + 1 \in DOMAIN updates /\ updates[i + 1] = <<type, v>>
      BY Zenon, <1>1, <2>1
    <2> QED
      BY Zenon, <2>2 DEF Pending
  <1>3. ASSUME NEW type, NEW v, Pending(type, v)
        PROVE  Pending(type, v)' \/ Head(updates) = <<type, v>>
    <2>1. PICK i \in DOMAIN updates : updates[i] = <<type, v>>
      BY Zenon, <1>3 DEF Pending
    <2>2. CASE i = 1
      BY Zenon, <2>1, <2>2, <1>1
    <2>3. CASE i # 1
      <3>1. i - 1 \in DOMAIN updates' /\ updates'[i - 1] = <<type, v>>
        BY Zenon, <1>1, <2>1, <2>3
      <3> QED
        BY Zenon, <3>1 DEF Pending
    <2> QED
      BY <2>2, <2>3
  <1>4. ASSUME NEW type, NEW v, Head(updates) = <<type, v>> PROVE Pending(type, v)
    BY Zenon, <1>1, <1>4 DEF Pending
  <1> QED
    BY Zenon, <1>1, <1>2, <1>3, <1>4

(* Nothing changes in a queue that is left alone. *)
LEMMA Waiting ==
    ASSUME UNCHANGED updates
    PROVE  \A type, v : Pending(type, v)' <=> Pending(type, v)
  BY Zenon DEF Pending

-----------------------------------------------------------------------------
(* At the start nothing is in hand. *)
LEMMA HonestInit == Init => Honest
  <1> SUFFICES ASSUME Init PROVE Honest
    OBVIOUS
  <1>1. /\ link = [v \in Veths |-> "new"] /\ updates = <<>> /\ dump = {} /\ links = {}
        /\ start = "subscribe" /\ resync = "off" /\ known = {} /\ closed = FALSE
        /\ stopResync = FALSE
    BY Zenon DEF Init, CT!Init
  <1>2. Types
    BY <1>1 DEF Types
  <1>0. DOMAIN updates = {}
    BY <1>1
  <1>3. \A type, v : ~Pending(type, v)
    BY Zenon, <1>0 DEF Pending
  <1>4. Told
    BY Zenon, <1>1, <1>3 DEF Told
  <1>5. Stages
    BY <1>1 DEF Stages
  <1> QED
    BY <1>2, <1>4, <1>5 DEF Honest

(* The kernel: a message is delivered with the change it reports. *)
LEMMA KernelHonest == Honest /\ KernelStep => Honest'
  <1> SUFFICES ASSUME Honest, NEW v \in Veths,
                      LinkAdded(v) \/ LinkDeleted(v) \/ LinkChanged(v)
               PROVE  Honest'
    BY Zenon DEF KernelStep
  <1> USE DEF Honest
  <1>1. PICK type \in {"RTM_NEWLINK", "RTM_DELLINK"} :
            /\ \/ link[v] = "new" /\ link' = [link EXCEPT ![v] = "up"] /\ type = "RTM_NEWLINK"
               \/ link[v] = "up" /\ link' = [link EXCEPT ![v] = "gone"] /\ type = "RTM_DELLINK"
               \/ link[v] = "up" /\ UNCHANGED link /\ type = "RTM_NEWLINK"
            /\ Deliver(type, v)
            /\ UNCHANGED <<ctxDone, closed, dump, failed, known, startVars, resyncVars>>
    BY Zenon DEF LinkAdded, LinkDeleted, LinkChanged, CT!LinkAdded, CT!LinkDeleted, kernelVars
  <1>2. /\ link' \in [Veths -> {"new", "up", "gone"}]
        /\ \A w \in Veths : link[w] # "new" => link'[w] # "new"
        /\ \A w \in Veths : link[w] = "gone" => link'[w] = "gone"
        /\ link'[v] # "new" /\ (type = "RTM_DELLINK" => link'[v] = "gone")
    BY <1>1 DEF Types
  <1>3. /\ updates' \in Seq(Messages)
        /\ \A t, w : Pending(t, w)' => Pending(t, w) \/ <<type, v>> = <<t, w>>
    <2>1. <<type, v>> \in Messages
      BY Zenon, <1>1 DEF Messages
    <2>2. CASE Subscribed
      BY Zenon, <1>1, <2>1, <2>2, Delivered DEF Deliver, Types
    <2>3. CASE ~Subscribed
      BY Zenon, <1>1, <2>3, Waiting DEF Deliver, Types
    <2> QED
      BY <2>2, <2>3
  <1>4. Types'
    BY Zenon, <1>1, <1>2, <1>3 DEF Types, resyncVars
  <1>5. Told'
    <2>1. \A w \in Veths : Pending("RTM_NEWLINK", w)' => link'[w] # "new"
      BY <1>1, <1>2, <1>3 DEF Told
    <2>2. \A w \in Veths : Pending("RTM_DELLINK", w)' => link'[w] = "gone"
      BY <1>1, <1>2, <1>3 DEF Told
    <2>3. UNCHANGED <<start, ev, resync, links, found>>
      BY Zenon, <1>1 DEF startVars, resyncVars
    <2> QED
      BY Zenon, <2>1, <2>2, <2>3, <1>2 DEF Told, Types
  <1>6. Stages'
    <2>1. UNCHANGED <<start, resync, known, closed, ctxDone, failed, stopResync>>
      BY Zenon, <1>1 DEF startVars, resyncVars
    <2>2. start = "subscribe" => UNCHANGED updates
      BY Zenon, <1>1 DEF Deliver, Subscribed
    <2> QED
      BY Zenon, <2>1, <2>2 DEF Stages
  <1> QED
    BY <1>4, <1>5, <1>6

(* Steps that leave the links and the messages alone. *)
LEMMA Undisturbed ==
    ASSUME Honest, UNCHANGED <<link, updates>>
    PROVE  /\ link' \in [Veths -> {"new", "up", "gone"}] /\ updates' \in Seq(Messages)
           /\ \A v \in Veths : Pending("RTM_NEWLINK", v)' => link'[v] # "new"
           /\ \A v \in Veths : Pending("RTM_DELLINK", v)' => link'[v] = "gone"
  BY Zenon, Waiting DEF Honest, Types, Told

(* The dump, and the failure of the subscription. *)
LEMMA DumpHonest == Honest /\ (DumpStep \/ SubscriptionFails) => Honest'
  <1> SUFFICES ASSUME Honest, DumpStep \/ SubscriptionFails PROVE Honest'
    OBVIOUS
  <1>1. ASSUME NEW v \in Veths, DumpLink(v), link[v] = "up" PROVE Honest'
    <2>1. /\ Subscribed /\ dump' = dump \ {v} /\ Deliver("RTM_NEWLINK", v)
          /\ UNCHANGED <<ctxDone, link, closed, failed, known, start, ev, stopResync, resync,
                         links, found>>
      BY Zenon, <1>1 DEF DumpLink, kernelVars, startVars, resyncVars
    <2>2. <<"RTM_NEWLINK", v>> \in Messages
      BY Zenon DEF Messages
    <2>3. /\ updates' \in Seq(Messages)
          /\ \A t, w : Pending(t, w)' => Pending(t, w) \/ <<"RTM_NEWLINK", v>> = <<t, w>>
      BY Zenon, <2>1, <2>2, Delivered DEF Deliver, Honest, Types
    <2>4. Types'
      BY Zenon, <2>1, <2>3 DEF Honest, Types
    <2>5. \A w \in Veths : Pending("RTM_NEWLINK", w)' => link'[w] # "new"
      BY <1>1, <2>1, <2>3 DEF Honest, Told
    <2>6. \A w \in Veths : Pending("RTM_DELLINK", w)' => link'[w] = "gone"
      BY <2>1, <2>3 DEF Honest, Told
    <2>7. Told'
      BY Zenon, <2>1, <2>5, <2>6 DEF Honest, Told
    <2>8. Stages'
      BY Zenon, <2>1 DEF Honest, Stages, Subscribed
    <2> QED
      BY <2>4, <2>7, <2>8 DEF Honest
  <1>2. CASE /\ UNCHANGED <<ctxDone, link, closed, known, start, ev, stopResync, resync, links,
                            found, updates>>
             /\ dump' \subseteq dump
             /\ failed => failed'
    BY Zenon, <1>2, Undisturbed DEF Honest, Types, Told, Stages
  <1>3. ASSUME NEW v \in Veths, DumpLink(v), link[v] # "up" PROVE Honest'
    BY Zenon, <1>2, <1>3 DEF DumpLink, kernelVars, startVars, resyncVars
  <1>4. ASSUME NEW v \in Veths, DumpMisses(v) PROVE Honest'
    BY Zenon, <1>2, <1>4 DEF DumpMisses, kernelVars, startVars, resyncVars
  <1>5. CASE SubscriptionFails
    BY Zenon, <1>2, <1>5 DEF SubscriptionFails, kernelVars, startVars, resyncVars
  <1> QED
    BY Zenon, <1>1, <1>3, <1>4, <1>5 DEF DumpStep

(* Monitor.Start: it sends what a message told it and closes the channel   *)
(* only when the resync is over.                                           *)
LEMMA StartHonest == Honest /\ StartStep => Honest'
  <1> SUFFICES ASSUME Honest, StartStep PROVE Honest'
    OBVIOUS
  <1>1. ASSUME NEW v \in Veths, HandleNew(v) \/ HandleDel(v) PROVE Honest'
    <2>1. /\ start = "loop" /\ updates # <<>> /\ updates' = Tail(updates)
          /\ \/ UNCHANGED <<start, ev>>
             \/ /\ start' = "emit"
                /\ \/ Head(updates) = <<"RTM_NEWLINK", v>> /\ ev' = <<"add", v>>
                   \/ Head(updates) = <<"RTM_DELLINK", v>> /\ ev' = <<"remove", v>>
          /\ UNCHANGED <<ctxDone, link, closed, dump, failed, stopResync, resync, links, found>>
      BY Zenon, <1>1 DEF HandleNew, HandleDel, kernelVars, resyncVars
    <2>2. /\ updates' \in Seq(Messages)
          /\ \A t, w : Pending(t, w)' => Pending(t, w)
          /\ \A t, w : Head(updates) = <<t, w>> => Pending(t, w)
      BY Zenon, <2>1, Taken DEF Honest, Types
    <2>3. Types'
      BY Zenon, <2>1, <2>2 DEF Honest, Types
    <2>4. start' = "emit" => \E w \in Veths : \/ ev' = <<"add", w>> /\ link'[w] # "new"
                                              \/ ev' = <<"remove", w>> /\ link'[w] = "gone"
      BY Zenon, <2>1, <2>2 DEF Honest, Told
    <2>5. Told'
      BY Zenon, <2>1, <2>2, <2>4 DEF Honest, Told
    <2>6. Stages'
      BY <2>1 DEF Honest, Stages
    <2> QED
      BY <2>3, <2>5, <2>6 DEF Honest
  <1>2. CASE Subscribe
    BY <1>2, Undisturbed DEF Subscribe, kernelVars, Honest, Types, Told, Stages
  <1>3. CASE SubscribeFails
    BY <1>3, Undisturbed DEF SubscribeFails, kernelVars, netVars, resyncVars, Honest, Types,
                             Told, Stages
  <1>4. CASE StartEmits
    BY <1>4, Undisturbed DEF StartEmits, kernelVars, netVars, resyncVars, Honest, Types,
                             Told, Stages
  <1>5. CASE StopResync
    BY <1>5, Undisturbed DEF StopResync, StartLeaves, kernelVars, netVars, resyncVars, Honest,
                             Types, Told, Stages
  <1>6. CASE CloseEvents
    <2>1. /\ start = "stopping" /\ start' = "done" /\ resync = "done" /\ dump' = {}
          /\ updates' = <<>> /\ UNCHANGED <<link, resync, links, found>>
      BY Zenon, <1>6 DEF CloseEvents, ResyncAwaited, kernelVars, resyncVars
    <2>2. Types'
      BY <2>1 DEF Honest, Types
    <2>3. DOMAIN updates' = {}
      BY <2>1
    <2>4. \A t, w : ~Pending(t, w)'
      BY Zenon, <2>3 DEF Pending
    <2>5. Told'
      BY Zenon, <2>1, <2>4 DEF Honest, Told
    <2>6. Stages'
      BY Zenon, <2>1 DEF Stages
    <2> QED
      BY <2>2, <2>5, <2>6 DEF Honest
  <1> QED
    BY Zenon, <1>1, <1>2, <1>3, <1>4, <1>5, <1>6 DEF StartStep

(* The resync: it sends what a list told it, in one step or another. *)
LEMMA ResyncHonest == Honest /\ ResyncStep => Honest'
  <1> SUFFICES ASSUME Honest, ResyncStep PROVE Honest'
    OBVIOUS
  <1>0. /\ UNCHANGED <<ctxDone, link, closed, updates, dump, failed, start, ev, stopResync>>
        /\ start = "subscribe" => UNCHANGED known
        /\ resync \notin {"off", "done"} /\ resync' # "off"
    BY Zenon DEF ResyncStep, ResyncStops, ResyncWakes, LinkList, LinkListFails, ClearInterrupted,
          ResyncLink, ResyncEmits, ResyncSleeps, ResyncUnchanged, kernelVars, netVars, startVars,
          Honest, Stages
  <1>1. /\ links' \subseteq Veths
        /\ \A v \in links' : link[v] # "new"
        /\ resync' = "emit" => found' \in Veths /\ link[found'] # "new"
    BY DEF ResyncStep, ResyncStops, ResyncWakes, LinkList, LinkListFails, ClearInterrupted,
           ResyncLink, ResyncEmits, ResyncSleeps, Honest, Types, Told
  <1>2. Types'
    BY Zenon, <1>0, <1>1, Undisturbed DEF Honest, Types
  <1>3. Told'
    BY Zenon, <1>0, <1>1, Undisturbed DEF Honest, Told
  <1>4. Stages'
    BY <1>0 DEF Honest, Stages
  <1> QED
    BY <1>2, <1>3, <1>4 DEF Honest

(* What the controller and a cancellation leave alone. *)
LEMMA CtrlFrame ==
    ASSUME CtrlStep(CT!CtrlStep) \/ CtrlStep(CT!Cancel)
    PROVE  /\ UNCHANGED <<link, closed, monitorVars>>
           /\ UNCHANGED ctxDone \/ ctxDone' = TRUE
  <1>1. UNCHANGED monitorVars
    BY Zenon DEF CtrlStep
  <1>2. CASE CT!Cancel
    BY Zenon, <1>1, <1>2 DEF CT!Cancel, CT!kernelVars
  <1>3. CASE CT!Handle \/ CT!StartDetachAll
    BY Zenon, <1>1, <1>3 DEF CT!Handle, CT!HandleAdd, CT!HandleRemove, CT!StartDetachAll, CT!kernelVars
  <1>4. CASE CT!Work
    BY Zenon, <1>1, <1>4 DEF CT!Work, CT!AttachIngress, CT!AttachIngressFails, CT!AttachEgress,
       CT!AttachEgressFails, CT!CloseIngress, CT!CloseEgress, CT!RunReturns, CT!kernelVars
  <1> QED
    BY Zenon, <1>2, <1>3, <1>4 DEF CtrlStep, CT!CtrlStep

(* Honest holds throughout. *)
LEMMA HonestInvariant == Spec => []Honest
  <1>1. Honest /\ [Next]_vars => Honest'
    <2> SUFFICES ASSUME Honest, [Next]_vars PROVE Honest'
      OBVIOUS
    <2>1. CASE /\ UNCHANGED <<link, closed, monitorVars>>
               /\ UNCHANGED ctxDone \/ ctxDone' = TRUE
      BY Zenon, <2>1, Undisturbed DEF monitorVars, netVars, startVars, resyncVars, Honest, Types,
                                      Told, Stages
    <2>2. CASE UNCHANGED vars
      BY Zenon, <2>1, <2>2 DEF vars, kernelVars, monitorVars
    <2>3. CASE Next
      BY Zenon, <2>1, <2>3, KernelHonest, DumpHonest, StartHonest, ResyncHonest, CtrlFrame
         DEF Next
    <2> QED
      BY <2>2, <2>3
  <1> QED
    BY HonestInit, <1>1, PTL DEF Spec

-----------------------------------------------------------------------------
(***************************************************************************)
(* Neither Start nor the resync sends on the channel after close: Start    *)
(* waits for the resync before the deferred close runs.                    *)
(***************************************************************************)
THEOREM NeverSendsAfterClose == Spec => []NoSendAfterClose
  <1>1. Honest => NoSendAfterClose
    BY DEF Honest, Stages, NoSendAfterClose
  <1> QED
    BY HonestInvariant, <1>1, PTL

(***************************************************************************)
(* The monitor implements the channel that Controller is specified with:   *)
(* every send is the addition of a veth that has appeared or the removal   *)
(* of one that is gone, within the capacity, before the channel is closed, *)
(* and the channel is closed once.  The theorems of Controller hold with   *)
(* this monitor.                                                           *)
(***************************************************************************)
THEOREM MonitorRefinesController == Spec => ImplementsController
  <1>1. Init => CT!Init
    BY Zenon DEF Init
  <1>2. ASSUME Honest, [Next]_vars PROVE [CT!Next]_(CT!vars)
    <2> USE DEF CT!vars, CT!kernelVars, CT!ctrlVars
    <2>1. CASE UNCHANGED vars
      BY Zenon, <2>1 DEF vars, kernelVars, ctrlVars
    <2>2. CASE KernelStep
      BY Zenon, <2>2 DEF KernelStep, LinkAdded, LinkDeleted, LinkChanged, kernelVars, ctrlVars,
                         CT!Next, CT!KernelStep
    <2>3. CASE DumpStep \/ SubscriptionFails
      BY Zenon, <2>3 DEF DumpStep, DumpLink, DumpMisses, SubscriptionFails, kernelVars, ctrlVars
    <2>4. CASE StartEmits
      <3>1. PICK v \in Veths : \/ ev = <<"add", v>> /\ link[v] # "new"
                               \/ ev = <<"remove", v>> /\ link[v] = "gone"
        BY Zenon, <1>2, <2>4 DEF StartEmits, Honest, Told
      <3>2. ~closed
        BY <1>2, <2>4 DEF StartEmits, Honest, Stages
      <3>3. CT!Announce(v) \/ CT!Retract(v)
        BY Zenon, <2>4, <3>1, <3>2 DEF StartEmits, CT!Announce, CT!Retract, CT!Emit, kernelVars,
                                       ctrlVars
      <3> QED
        BY Zenon, <3>3 DEF CT!Next, CT!MonitorTells
    <2>5. CASE ResyncEmits
      <3>1. found \in Veths /\ link[found] # "new" /\ ~closed
        BY <1>2, <2>5 DEF ResyncEmits, Honest, Told, Stages
      <3>2. CT!Announce(found)
        BY Zenon, <2>5, <3>1 DEF ResyncEmits, ResyncUnchanged, CT!Announce, CT!Emit, kernelVars,
                                 ctrlVars
      <3> QED
        BY Zenon, <3>1, <3>2 DEF CT!Next, CT!MonitorTells
    <2>6. CASE SubscribeFails \/ CloseEvents
      <3>1. ~closed
        BY <1>2, <2>6 DEF SubscribeFails, CloseEvents, Honest, Stages
      <3> QED
        BY Zenon, <2>6, <3>1 DEF SubscribeFails, CloseEvents, kernelVars, ctrlVars, CT!Next,
                                 CT!MonitorStops
    <2>7. CASE Subscribe \/ StopResync \/ \E v \in Veths : HandleNew(v) \/ HandleDel(v)
      BY Zenon, <2>7 DEF Subscribe, StopResync, HandleNew, HandleDel, kernelVars, ctrlVars
    <2>8. CASE ResyncStep /\ ~ResyncEmits
      BY Zenon, <2>8 DEF ResyncStep, ResyncStops, ResyncWakes, LinkList, LinkListFails,
         ClearInterrupted, ResyncLink, ResyncSleeps, ResyncUnchanged, kernelVars, ctrlVars
    <2>9. CASE CtrlStep(CT!CtrlStep) \/ CtrlStep(CT!Cancel)
      BY Zenon, <2>9 DEF CtrlStep, CT!Next
    <2> QED
      BY Zenon, <1>2, <2>1, <2>2, <2>3, <2>4, <2>5, <2>6, <2>7, <2>8, <2>9 DEF Next, StartStep
  <1> QED
    BY <1>1, <1>2, HonestInvariant, PTL DEF Spec, ImplementsController, CT!Spec

-----------------------------------------------------------------------------
(* No veth is missed.  What NothingMissed leaves open is what happens when *)
(* the resync clears dumpInterrupted: between LinkList and that store, a   *)
(* veth that exists is on the list or has its message waiting.             *)

OnItsWay(v) ==
    IF resync = "clear"
    THEN Pending("RTM_NEWLINK", v) \/ v \in links
    ELSE \/ Pending("RTM_NEWLINK", v)
         \/ v \in dump
         \/ dumpInterrupted
         \/ v \in links /\ resync \in {"each", "emit"}

Awaited(v) == Subscribed /\ ~ctxDone /\ link[v] = "up" /\ v \notin known

Tracked == \A v \in Veths : Awaited(v) => OnItsWay(v)

(* The kernel delivers a message with the appearance of a veth. *)
LEMMA KernelTracks == Honest /\ Tracked /\ KernelStep => Tracked'
  <1> SUFFICES ASSUME Honest, Tracked, NEW v \in Veths,
                      LinkAdded(v) \/ LinkDeleted(v) \/ LinkChanged(v),
                      NEW w \in Veths, Awaited(w)'
               PROVE  OnItsWay(w)'
    BY Zenon DEF KernelStep, Tracked
  <1>1. PICK type \in {"RTM_NEWLINK", "RTM_DELLINK"} :
            /\ \/ link[v] = "new" /\ link' = [link EXCEPT ![v] = "up"] /\ type = "RTM_NEWLINK"
               \/ link[v] = "up" /\ link' = [link EXCEPT ![v] = "gone"]
               \/ link[v] = "up" /\ UNCHANGED link
            /\ Deliver(type, v)
            /\ UNCHANGED <<ctxDone, dump, failed, known, dumpInterrupted, startVars, resyncVars>>
    BY Zenon DEF LinkAdded, LinkDeleted, LinkChanged, CT!LinkAdded, CT!LinkDeleted, kernelVars
  <1>2. Subscribed /\ ~ctxDone /\ w \notin known /\ UNCHANGED <<resync, links>>
    BY Zenon, <1>1 DEF Awaited, Subscribed, startVars, resyncVars
  <1>3. <<type, v>> \in Messages
    BY Zenon, <1>1 DEF Messages
  <1>4. \A t, u : Pending(t, u)' <=> Pending(t, u) \/ <<type, v>> = <<t, u>>
    BY Zenon, <1>1, <1>2, <1>3, Delivered DEF Deliver, Honest, Types
  <1>5. link[w] = "up" \/ (w = v /\ type = "RTM_NEWLINK")
    BY <1>1 DEF Awaited, Honest, Types
  <1>6. CASE link[w] = "up"
    <2>1. OnItsWay(w)
      BY Zenon, <1>2, <1>6 DEF Tracked, Awaited
    <2> QED
      BY Zenon, <2>1, <1>1, <1>2, <1>4 DEF OnItsWay
  <1>7. CASE w = v /\ type = "RTM_NEWLINK"
    BY Zenon, <1>4, <1>7 DEF OnItsWay
  <1> QED
    BY <1>5, <1>6, <1>7

(* The dump reports a veth, or its interruption is noted. *)
LEMMA DumpTracks == Honest /\ Tracked /\ (DumpStep \/ SubscriptionFails) => Tracked'
  <1> SUFFICES ASSUME Honest, Tracked, DumpStep \/ SubscriptionFails,
                      NEW w \in Veths, Awaited(w)'
               PROVE  OnItsWay(w)'
    BY Zenon DEF Tracked
  <1>1. CASE SubscriptionFails
    BY Zenon, <1>1 DEF SubscriptionFails, Awaited, Subscribed
  <1>2. ASSUME NEW v \in Veths, DumpLink(v) \/ DumpMisses(v) PROVE OnItsWay(w)'
    <2>1. /\ dump' = dump \ {v}
          /\ UNCHANGED <<ctxDone, link, failed, known, start, resync, links>>
      BY Zenon, <1>2 DEF DumpLink, DumpMisses, kernelVars, startVars, resyncVars
    <2>2. OnItsWay(w) /\ ~ctxDone /\ link[w] = "up" /\ Subscribed
      BY Zenon, <2>1 DEF Tracked, Awaited, Subscribed
    <2>3. CASE DumpMisses(v)
      BY Zenon, <2>1, <2>2, <2>3, Waiting DEF DumpMisses, OnItsWay
    <2>4. CASE DumpLink(v) /\ link[v] = "up"
      <3>1. UNCHANGED dumpInterrupted /\ Deliver("RTM_NEWLINK", v)
        BY Zenon, <2>4 DEF DumpLink
      <3>2. <<"RTM_NEWLINK", v>> \in Messages
        BY Zenon DEF Messages
      <3>3. \A t, u : Pending(t, u)' <=> Pending(t, u) \/ <<"RTM_NEWLINK", v>> = <<t, u>>
        BY Zenon, <2>2, <3>1, <3>2, Delivered DEF Deliver, Honest, Types
      <3> QED
        BY Zenon, <2>1, <2>2, <3>1, <3>3 DEF OnItsWay
    <2>5. CASE DumpLink(v) /\ link[v] # "up"
      <3>1. UNCHANGED <<dumpInterrupted, updates>> /\ w # v
        BY Zenon, <2>2, <2>5 DEF DumpLink
      <3> QED
        BY Zenon, <2>1, <2>2, <3>1, Waiting DEF OnItsWay
    <2> QED
      BY <1>2, <2>3, <2>4, <2>5
  <1> QED
    BY Zenon, <1>1, <1>2 DEF DumpStep

(* Start takes a message of a veth and puts the veth into known. *)
LEMMA StartTracks == Honest /\ Tracked /\ StartStep => Tracked'
  <1> SUFFICES ASSUME Honest, Tracked, StartStep, NEW w \in Veths, Awaited(w)'
               PROVE  OnItsWay(w)'
    BY Zenon DEF Tracked
  <1>1. ASSUME NEW v \in Veths, HandleNew(v) \/ HandleDel(v) PROVE OnItsWay(w)'
    <2>1. /\ start = "loop" /\ updates # <<>> /\ updates' = Tail(updates)
          /\ \/ Head(updates) = <<"RTM_NEWLINK", v>> /\ known' = known \cup {v}
             \/ Head(updates) = <<"RTM_DELLINK", v>> /\ known' = known \ {v}
          /\ UNCHANGED <<ctxDone, link, dump, failed, dumpInterrupted, resync, links>>
      BY <1>1 DEF HandleNew, HandleDel, kernelVars, resyncVars
    <2>2. /\ \A t, u : Pending(t, u) => Pending(t, u)' \/ Head(updates) = <<t, u>>
          /\ \A t, u : Head(updates) = <<t, u>> => Pending(t, u)
      BY Zenon, <2>1, Taken DEF Honest, Types
    <2>3. w \notin known /\ Head(updates) # <<"RTM_NEWLINK", w>>
      <3>1. CASE Head(updates) = <<"RTM_NEWLINK", v>> /\ known' = known \cup {v}
        BY <3>1 DEF Awaited
      <3>2. CASE Head(updates) = <<"RTM_DELLINK", v>> /\ known' = known \ {v}
        <4>1. link[v] = "gone" /\ link[w] = "up"
          BY Zenon, <2>1, <2>2, <3>2 DEF Honest, Told, Awaited
        <4> QED
          BY <3>2, <4>1 DEF Awaited
      <3> QED
        BY <2>1, <3>1, <3>2
    <2>4. OnItsWay(w)
      BY <2>1, <2>3 DEF Tracked, Awaited, Subscribed
    <2> QED
      BY Zenon, <2>1, <2>2, <2>3, <2>4 DEF OnItsWay
  <1>2. CASE Subscribe
    BY <1>2 DEF Subscribe, OnItsWay
  <1>3. CASE StartEmits
    <2>1. UNCHANGED <<ctxDone, link, known, failed, dump, updates, dumpInterrupted, resync, links>>
      BY Zenon, <1>3 DEF StartEmits, kernelVars, netVars, resyncVars
    <2>2. OnItsWay(w)
      BY <1>3, <2>1 DEF StartEmits, Tracked, Awaited, Subscribed
    <2> QED
      BY Zenon, <2>1, <2>2, Waiting DEF OnItsWay
  <1>4. CASE StopResync \/ SubscribeFails \/ CloseEvents
    <2>1. CASE StopResync
      <3>1. (ctxDone \/ failed) /\ UNCHANGED <<ctxDone, failed>>
        BY Zenon, <2>1 DEF StopResync, StartLeaves, netVars
      <3> QED
        BY <3>1 DEF Awaited, Subscribed
    <2>2. CASE SubscribeFails \/ CloseEvents
      BY Zenon, <2>2 DEF SubscribeFails, CloseEvents, Awaited, Subscribed
    <2> QED
      BY <1>4, <2>1, <2>2
  <1> QED
    BY Zenon, <1>1, <1>2, <1>3, <1>4 DEF StartStep

(* The resync lists every veth that exists before it clears the flag. *)
LEMMA ResyncTracks == Honest /\ Tracked /\ ResyncStep => Tracked'
  <1> SUFFICES ASSUME Honest, Tracked, ResyncStep, NEW w \in Veths, Awaited(w)'
               PROVE  OnItsWay(w)'
    BY Zenon DEF Tracked
  <1>0. /\ UNCHANGED <<ctxDone, link, updates, dump, failed, start, stopResync>>
        /\ known \subseteq known'
    BY Zenon DEF ResyncStep, ResyncStops, ResyncWakes, LinkList, LinkListFails, ClearInterrupted,
          ResyncLink, ResyncEmits, ResyncSleeps, ResyncUnchanged, kernelVars, netVars, startVars
  <1>1. OnItsWay(w) /\ link[w] = "up" /\ Subscribed /\ ~ctxDone
    BY Zenon, <1>0 DEF Tracked, Awaited, Subscribed
  <1>2. Pending("RTM_NEWLINK", w)' <=> Pending("RTM_NEWLINK", w)
    BY Zenon, <1>0, Waiting
  <1>3. CASE ResyncStops
    BY <1>1, <1>3 DEF ResyncStops, Subscribed, Honest, Stages
  <1>4. CASE LinkList
    BY <1>0, <1>1, <1>2, <1>4 DEF LinkList, OnItsWay
  <1>5. CASE ClearInterrupted
    BY <1>0, <1>1, <1>2, <1>5 DEF ClearInterrupted, OnItsWay
  <1>6. CASE ResyncWakes \/ LinkListFails \/ ResyncEmits \/ ResyncSleeps
    BY <1>0, <1>1, <1>2, <1>6 DEF ResyncWakes, LinkListFails, ResyncEmits, ResyncSleeps, OnItsWay
  <1>7. ASSUME NEW v \in Veths, ResyncLink(v) PROVE OnItsWay(w)'
    BY <1>0, <1>1, <1>2, <1>7 DEF ResyncLink, OnItsWay, Awaited
  <1> QED
    BY Zenon, <1>3, <1>4, <1>5, <1>6, <1>7 DEF ResyncStep

(* A step of the controller, a cancellation and a stutter. *)
LEMMA FrameTracks ==
    ASSUME Tracked, UNCHANGED <<link, closed, monitorVars>>, UNCHANGED ctxDone \/ ctxDone' = TRUE
    PROVE  Tracked'
  <1>1. UNCHANGED <<link, failed, dump, updates, dumpInterrupted, known, start, resync, links>>
    BY Zenon DEF monitorVars, netVars, startVars, resyncVars
  <1>2. \A v \in Veths : OnItsWay(v) => OnItsWay(v)'
    BY Zenon, <1>1, Waiting DEF OnItsWay
  <1>3. \A v \in Veths : Awaited(v)' => Awaited(v)
    BY <1>1 DEF Awaited, Subscribed
  <1> QED
    BY Zenon, <1>2, <1>3 DEF Tracked

(***************************************************************************)
(* No veth is missed while the monitor runs, although the dump may be      *)
(* interrupted at any time, the one in progress when the resync clears     *)
(* dumpInterrupted included: a veth that exists is known, or a message,    *)
(* the dump or the resync will bring it.                                   *)
(***************************************************************************)
THEOREM NoVethMissed == Spec => []NothingMissed
  <1>1. Init => Tracked
    BY DEF Init, Tracked, Awaited, Subscribed
  <1>2. Honest /\ Tracked /\ [Next]_vars => Tracked'
    <2> SUFFICES ASSUME Honest, Tracked, [Next]_vars PROVE Tracked'
      OBVIOUS
    <2>1. CASE UNCHANGED vars
      BY Zenon, <2>1, FrameTracks DEF vars, kernelVars, monitorVars
    <2>2. CASE Next
      BY Zenon, <2>2, KernelTracks, DumpTracks, StartTracks, ResyncTracks, CtrlFrame, FrameTracks
         DEF Next
    <2> QED
      BY <2>1, <2>2
  <1>3. Tracked => NothingMissed
    BY DEF Tracked, Awaited, OnItsWay, NothingMissed
  <1> QED
    BY <1>1, <1>2, <1>3, HonestInvariant, PTL DEF Spec

-----------------------------------------------------------------------------
(* known follows the links.  The order of messages matters: behind every   *)
(* RTM_NEWLINK of a veth that is gone waits its RTM_DELLINK.               *)

Followed(v) ==
    \A i \in DOMAIN updates :
        updates[i] = <<"RTM_NEWLINK", v>> =>
            \E j \in DOMAIN updates : i < j /\ updates[j] = <<"RTM_DELLINK", v>>

Gone(v) == Subscribed /\ link[v] = "gone"

Remembered(v) == v \in known => Pending("RTM_DELLINK", v) \/ v \in relisted

KnownVeths == known \subseteq Veths

Forgetting == \A v \in Veths : Gone(v) => Followed(v) /\ Remembered(v)

(* The order of messages when one is delivered. *)
LEMMA DeliveredOrder ==
    ASSUME updates \in Seq(Messages), NEW m \in Messages, updates' = Append(updates, m), NEW v
    PROVE  /\ m = <<"RTM_DELLINK", v>> => Followed(v)'
           /\ Followed(v) /\ m # <<"RTM_NEWLINK", v>> => Followed(v)'
  <1>1. /\ DOMAIN updates' = DOMAIN updates \cup {Len(updates) + 1}
        /\ updates'[Len(updates) + 1] = m
        /\ \A i \in DOMAIN updates : i < Len(updates) + 1 /\ updates'[i] = updates[i]
    BY Appended
  <1>2. <<"RTM_NEWLINK", v>> # <<"RTM_DELLINK", v>>
    OBVIOUS
  <1> DEFINE last == Len(updates) + 1
  <1> HIDE DEF last
  <1>3. /\ DOMAIN updates' = DOMAIN updates \cup {last} /\ updates'[last] = m
        /\ \A i \in DOMAIN updates : i < last /\ updates'[i] = updates[i]
    BY Zenon, <1>1 DEF last
  <1> QED
    BY Zenon, <1>2, <1>3 DEF Followed

(* The order of messages when one is taken. *)
LEMMA TakenOrder ==
    ASSUME updates \in Seq(Messages), updates # <<>>, updates' = Tail(updates), NEW v, Followed(v)
    PROVE  /\ Followed(v)'
           /\ Head(updates) = <<"RTM_NEWLINK", v>> => Pending("RTM_DELLINK", v)'
  <1>1. /\ Head(updates) = updates[1] /\ 1 \in DOMAIN updates
        /\ \A i \in DOMAIN updates' : i + 1 \in DOMAIN updates /\ updates'[i] = updates[i + 1]
        /\ \A i \in DOMAIN updates : i # 1 => i - 1 \in DOMAIN updates'
                                              /\ updates'[i - 1] = updates[i]
        /\ DOMAIN updates \subseteq Nat /\ DOMAIN updates' \subseteq Nat \ {0}
    BY Tailed
  <1>2. ASSUME NEW i \in DOMAIN updates', updates'[i] = <<"RTM_NEWLINK", v>>
        PROVE  \E j \in DOMAIN updates' : i < j /\ updates'[j] = <<"RTM_DELLINK", v>>
    <2>1. i + 1 \in DOMAIN updates /\ updates[i + 1] = <<"RTM_NEWLINK", v>>
      BY Zenon, <1>1, <1>2
    <2>2. PICK j \in DOMAIN updates : i + 1 < j /\ updates[j] = <<"RTM_DELLINK", v>>
      BY Zenon, <2>1 DEF Followed
    <2>3. j # 1 /\ i < j - 1
      BY <1>1, <2>2
    <2>4. j - 1 \in DOMAIN updates' /\ updates'[j - 1] = <<"RTM_DELLINK", v>>
      BY Zenon, <1>1, <2>2, <2>3
    <2> QED
      BY Zenon, <2>3, <2>4
  <1>3. ASSUME Head(updates) = <<"RTM_NEWLINK", v>> PROVE Pending("RTM_DELLINK", v)'
    <2>1. PICK j \in DOMAIN updates : 1 < j /\ updates[j] = <<"RTM_DELLINK", v>>
      BY Zenon, <1>1, <1>3 DEF Followed
    <2>2. j # 1
      BY <2>1
    <2>3. j - 1 \in DOMAIN updates' /\ updates'[j - 1] = <<"RTM_DELLINK", v>>
      BY Zenon, <1>1, <2>1, <2>2
    <2> QED
      BY Zenon, <2>3 DEF Pending
  <1> QED
    BY Zenon, <1>2, <1>3 DEF Followed

(* A step that takes no message and puts no veth that is gone into known,  *)
(* but those it notes in relisted.                                         *)
LEMMA FrameForgets ==
    ASSUME Forgetting, UNCHANGED <<link, updates>>, Subscribed' => Subscribed,
           \A v \in known' : link[v] = "gone" => v \in known \cup relisted',
           relisted \subseteq relisted'
    PROVE  Forgetting'
  <1> SUFFICES ASSUME NEW w \in Veths, Gone(w)' PROVE Followed(w)' /\ Remembered(w)'
    BY Zenon DEF Forgetting
  <1>1. Followed(w) /\ Remembered(w)
    BY Zenon DEF Gone, Forgetting
  <1>2. Followed(w)'
    BY Zenon, <1>1 DEF Followed
  <1>3. Pending("RTM_DELLINK", w)' <=> Pending("RTM_DELLINK", w)
    BY Zenon, Waiting
  <1>4. link[w] = "gone"
    BY Zenon DEF Gone
  <1> QED
    BY Zenon, <1>1, <1>2, <1>3, <1>4 DEF Remembered

(* The message of a removal is behind all the others of its veth. *)
LEMMA KernelForgets == Honest /\ Forgetting /\ KernelStep => Forgetting'
  <1> SUFFICES ASSUME Honest, Forgetting, NEW v \in Veths,
                      LinkAdded(v) \/ LinkDeleted(v) \/ LinkChanged(v),
                      NEW w \in Veths, Gone(w)'
               PROVE  Followed(w)' /\ Remembered(w)'
    BY Zenon DEF KernelStep, Forgetting
  <1>1. PICK type \in {"RTM_NEWLINK", "RTM_DELLINK"} :
            /\ \/ link' = [link EXCEPT ![v] = "up"] /\ type = "RTM_NEWLINK"
               \/ link' = [link EXCEPT ![v] = "gone"] /\ type = "RTM_DELLINK"
               \/ link[v] = "up" /\ UNCHANGED link
            /\ Deliver(type, v)
            /\ UNCHANGED <<failed, known, start, relisted>>
    BY Zenon DEF LinkAdded, LinkDeleted, LinkChanged, CT!LinkAdded, CT!LinkDeleted, kernelVars,
                 startVars, resyncVars
  <1>2. Subscribed /\ link \in [Veths -> {"new", "up", "gone"}]
    BY Zenon, <1>1 DEF Gone, Subscribed, Honest, Types
  <1>3. /\ <<type, v>> \in Messages /\ updates \in Seq(Messages)
        /\ updates' = Append(updates, <<type, v>>)
    BY Zenon, <1>1, <1>2 DEF Messages, Deliver, Honest, Types
  <1>4. \A t, u : Pending(t, u)' <=> Pending(t, u) \/ <<type, v>> = <<t, u>>
    BY Zenon, <1>3, Delivered
  <1>5. CASE w = v /\ type = "RTM_DELLINK"
    BY Zenon, <1>3, <1>4, <1>5, DeliveredOrder DEF Remembered
  <1>6. CASE w # v
    <2>1. link[w] = "gone" /\ <<type, v>> # <<"RTM_NEWLINK", w>>
      BY <1>1, <1>2, <1>6 DEF Gone
    <2>2. Followed(w) /\ Remembered(w)
      BY Zenon, <1>2, <2>1 DEF Forgetting, Gone
    <2> QED
      BY Zenon, <1>1, <1>3, <1>4, <2>1, <2>2, DeliveredOrder DEF Remembered
  <1>7. w = v => type = "RTM_DELLINK"
    BY <1>1, <1>2 DEF Gone
  <1> QED
    BY <1>5, <1>6, <1>7

(* The dump reports only veths that exist. *)
LEMMA DumpForgets == Honest /\ Forgetting /\ (DumpStep \/ SubscriptionFails) => Forgetting'
  <1> SUFFICES ASSUME Honest, Forgetting, DumpStep \/ SubscriptionFails PROVE Forgetting'
    OBVIOUS
  <1>1. CASE UNCHANGED updates
    <2>1. UNCHANGED <<link, known, relisted, start>> /\ (failed' = TRUE \/ UNCHANGED failed)
      BY Zenon DEF DumpStep, DumpLink, DumpMisses, SubscriptionFails, kernelVars, startVars,
                   resyncVars
    <2>2. Subscribed' => Subscribed
      BY <2>1 DEF Subscribed
    <2> QED
      BY Zenon, <1>1, <2>1, <2>2, FrameForgets
  <1>2. ASSUME NEW v \in Veths, DumpLink(v), link[v] = "up", NEW w \in Veths, Gone(w)'
        PROVE  Followed(w)' /\ Remembered(w)'
    <2>1. UNCHANGED <<link, failed, known, relisted, start>> /\ Deliver("RTM_NEWLINK", v)
      BY Zenon, <1>2 DEF DumpLink, kernelVars, startVars, resyncVars
    <2>2. Gone(w) /\ w # v
      BY Zenon, <1>2, <2>1 DEF Gone, Subscribed
    <2>3. /\ <<"RTM_NEWLINK", v>> \in Messages /\ updates \in Seq(Messages)
          /\ updates' = Append(updates, <<"RTM_NEWLINK", v>>)
      BY Zenon, <2>1, <2>2 DEF Messages, Deliver, Gone, Honest, Types
    <2>4. \A t, u : Pending(t, u) => Pending(t, u)'
      BY Zenon, <2>3, Delivered
    <2>5. Followed(w) /\ Remembered(w)
      BY Zenon, <2>2 DEF Forgetting
    <2>6. <<"RTM_NEWLINK", v>> # <<"RTM_NEWLINK", w>>
      BY <2>2
    <2> QED
      BY Zenon, <2>1, <2>3, <2>4, <2>5, <2>6, DeliveredOrder DEF Remembered
  <1>3. UNCHANGED updates \/ \E v \in Veths : DumpLink(v) /\ link[v] = "up"
    BY Zenon DEF DumpStep, DumpLink, DumpMisses, SubscriptionFails
  <1> QED
    BY Zenon, <1>1, <1>2, <1>3 DEF Forgetting

(* Start forgets a veth with its RTM_DELLINK, and when it takes an earlier *)
(* message of a veth that is gone, the RTM_DELLINK is still to come.       *)
LEMMA StartForgets == Honest /\ Forgetting /\ StartStep => Forgetting'
  <1> SUFFICES ASSUME Honest, Forgetting, StartStep PROVE Forgetting'
    OBVIOUS
  <1>1. ASSUME NEW v \in Veths, HandleNew(v) \/ HandleDel(v), NEW w \in Veths, Gone(w)'
        PROVE  Followed(w)' /\ Remembered(w)'
    <2>1. /\ start = "loop" /\ updates # <<>> /\ updates' = Tail(updates)
          /\ \/ Head(updates) = <<"RTM_NEWLINK", v>> /\ known' = known \cup {v}
             \/ Head(updates) = <<"RTM_DELLINK", v>> /\ known' = known \ {v}
          /\ UNCHANGED <<link, failed, relisted>>
      BY <1>1 DEF HandleNew, HandleDel, kernelVars, resyncVars
    <2>2. updates \in Seq(Messages) /\ Gone(w)
      BY <1>1, <2>1 DEF Gone, Subscribed, Honest, Types
    <2>3. Followed(w) /\ Remembered(w)
      BY Zenon, <2>2 DEF Forgetting
    <2>4. /\ Followed(w)'
          /\ Head(updates) = <<"RTM_NEWLINK", w>> => Pending("RTM_DELLINK", w)'
      BY Zenon, <2>1, <2>2, <2>3, TakenOrder
    <2>5. \A t, u : Pending(t, u) => Pending(t, u)' \/ Head(updates) = <<t, u>>
      BY Zenon, <2>1, <2>2, Taken
    <2>6. Head(updates) = <<"RTM_DELLINK", w>> => w \notin known'
      BY <2>1
    <2>7. w \in known' => w \in known \/ Head(updates) = <<"RTM_NEWLINK", w>>
      BY <2>1
    <2> QED
      BY Zenon, <2>1, <2>3, <2>4, <2>5, <2>6, <2>7 DEF Remembered
  <1>2. CASE Subscribe
    <2>1. known' = {} /\ updates' = <<>>
      BY <1>2 DEF Subscribe, Honest, Stages
    <2>2. DOMAIN updates' = {}
      BY <2>1
    <2> QED
      BY Zenon, <2>1, <2>2 DEF Forgetting, Followed, Remembered
  <1>3. CASE StartEmits \/ StopResync
    <2>1. UNCHANGED <<link, updates, known, relisted, failed>>
      BY Zenon, <1>3 DEF StartEmits, StopResync, kernelVars, netVars, resyncVars
    <2>2. start \in {"loop", "emit"}
      BY Zenon, <1>3 DEF StartEmits, StopResync, StartLeaves
    <2>3. Subscribed' => Subscribed
      BY <2>1, <2>2 DEF Subscribed
    <2> QED
      BY Zenon, <2>1, <2>3, FrameForgets
  <1>4. CASE SubscribeFails \/ CloseEvents
    BY Zenon, <1>4 DEF SubscribeFails, CloseEvents, Forgetting, Gone, Subscribed
  <1> QED
    BY Zenon, <1>1, <1>2, <1>3, <1>4 DEF StartStep, Forgetting

(* The resync notes the veths it took from an old list. *)
LEMMA ResyncForgets == Honest /\ Forgetting /\ ResyncStep => Forgetting'
  <1> SUFFICES ASSUME Honest, Forgetting, ResyncStep PROVE Forgetting'
    OBVIOUS
  <1>1. /\ UNCHANGED <<link, updates, failed, start>>
        /\ \/ UNCHANGED <<known, relisted>>
           \/ \E v \in Veths : /\ known' = known \cup {v}
                               /\ relisted' = IF link[v] = "up" THEN relisted
                                                               ELSE relisted \cup {v}
    BY Zenon DEF ResyncStep, ResyncStops, ResyncWakes, LinkList, LinkListFails, ClearInterrupted,
          ResyncLink, ResyncEmits, ResyncSleeps, ResyncUnchanged, kernelVars, netVars, startVars
  <1>2. /\ \A v \in known' : link[v] = "gone" => v \in known \cup relisted'
        /\ relisted \subseteq relisted'
    BY <1>1
  <1>3. Subscribed' => Subscribed
    BY Zenon, <1>1 DEF Subscribed
  <1> QED
    BY Zenon, <1>1, <1>2, <1>3, FrameForgets

(***************************************************************************)
(* A veth that is gone does not stay in known beyond its RTM_DELLINK, in   *)
(* whatever order the dump, the changes and the removal were delivered.    *)
(* The one exception is a veth the resync took from an older list.         *)
(***************************************************************************)
THEOREM KnownForgets == Spec => []KnownFollowsLinks
  <1>1. Init => Forgetting /\ KnownVeths
    BY DEF KnownVeths, Init, Forgetting, Gone, Subscribed
  <1>2. Honest /\ Forgetting /\ [Next]_vars => Forgetting'
    <2> SUFFICES ASSUME Honest, Forgetting, [Next]_vars PROVE Forgetting'
      OBVIOUS
    <2>1. CASE UNCHANGED <<link, monitorVars>>
      BY Zenon, <2>1, FrameForgets DEF monitorVars, netVars, startVars, resyncVars, Subscribed
    <2>2. CASE UNCHANGED vars
      BY Zenon, <2>1, <2>2 DEF vars, kernelVars, monitorVars
    <2>3. CASE Next
      BY Zenon, <2>1, <2>3, KernelForgets, DumpForgets, StartForgets, ResyncForgets, CtrlFrame
         DEF Next
    <2> QED
      BY <2>2, <2>3
  <1>3. Honest /\ KnownVeths /\ [Next]_vars => KnownVeths'
    <2> SUFFICES ASSUME Honest, KnownVeths, [Next]_vars PROVE KnownVeths'
      OBVIOUS
    <2>1. UNCHANGED known \/ \E v \in Veths : known' = known \cup {v} \/ known' = known \ {v}
      BY Zenon, CtrlFrame DEF Next, KernelStep, LinkAdded, LinkDeleted, LinkChanged, DumpStep,
         DumpLink, DumpMisses, SubscriptionFails, StartStep, Subscribe, SubscribeFails, HandleNew,
         HandleDel, StartEmits, StopResync, CloseEvents, ResyncStep, ResyncStops, ResyncWakes,
         LinkList, LinkListFails, ClearInterrupted, ResyncLink, ResyncEmits, ResyncSleeps, vars,
         monitorVars
    <2> QED
      BY <2>1 DEF KnownVeths
  <1>4. Forgetting /\ KnownVeths => KnownFollowsLinks
    BY Zenon DEF Forgetting, KnownVeths, Gone, Remembered, KnownFollowsLinks
  <1> QED
    BY <1>1, <1>2, <1>3, <1>4, HonestInvariant, PTL DEF Spec
=============================================================================
