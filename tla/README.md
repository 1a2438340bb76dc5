# bpf-dns-gateway in TLA+

bpf-dns-gateway puts two eBPF programs on every pod's veth. The ingress program
sends DNS queries for configured suffixes to the VPC resolver instead of CoreDNS
(DNAT). The egress program rewrites the answers so that they come from CoreDNS
(SNAT). A Go daemon attaches the programs, writes their maps, probes the VPC
resolver and switches redirection off (bypass) when it does not answer.

This directory holds TLA+ models of both halves, TLC configurations, and proofs
checked by TLAPS. `PROJECT.json` maps every definition to the lines it models.

## Inventory

| Component | State | Operations | Interacts through | Hard part | Correct when |
|---|---|---|---|---|---|
| ingress program (`bpf/dns_gateway.c`) | per-CPU scratch buffer | parse, match, insert entry, DNAT | reads `config_map`, `suffix_rules`; writes `conntrack_map`, `metrics_map` | runs on all CPUs at once; buffer reused; helpers fail | the longest suffix decides; a redirected query has an entry; a failure leaves it on CoreDNS |
| egress program | none | look up, check TTL, SNAT, delete | `conntrack_map`, `metrics_map` | pointer into an LRU map; deletion by key | answers come from CoreDNS; orphaned entries are not used |
| NAT rewrite | the packet | store, two checksum updates, undo | called by both programs | failure in the middle, failure of the undo | all or nothing, or the alarm counter |
| suffix encoding (`internal/dnsenc`) | none | encode a pattern | keys of `suffix_rules` | byte equality with the packet | the key equals the suffix bytes of a matching query |
| `SetBypass`, `PopulateConfig` (`internal/ebpf/maps.go`) | `config_map[0]`, `configMu` | read-modify-write | health checker, shutdown | two callers; each map call fails | no lost update; lock always released |
| suffix rules (`internal/ebpf/maps.go`) | `suffix_rules` | reconcile | startup | pinned old content, capacity, failure half-way | the map holds exactly the rules |
| health checker (`internal/health`) | failures in a row, `bypassActive` | probe, set or clear bypass | `SetBypass`, `ctx` | failing writes, late probes at shutdown | bypass follows the threshold; never stuck |
| attach manager (`internal/ebpf/attach.go`) | `attachments` | attach, detach, detach all | kernel links | two links, rollback, veths that vanish | never ingress alone; nothing left at the end |
| controller (`internal/controller`) | select loop | handle add and remove, stop | monitor's channel, `ctx` | channel closed with `ctx` alive | every veth served; `Run` ends |
| netlink monitor (`internal/netlinkmon`) | `known`, `events` | dump, updates, resync | netlink, channel | resync against live removals, full channel | the channel tells what exists |
| process (`cmd/bpf-dns-gateway`) | stage, pinned maps | start, ordered shutdown | everything | bounded waits, crash, restart over pinned maps | shutdown ends; teardown bypass holds |
| configuration, metrics collector | config; counters | validate; scrape | startup; HTTP | little | rules are usable; counters add up |

The hazards that follow from this are in `PROJECT.json`, each at its line, with
the properties that would catch it.

## Modules

| Module | Models | Notes |
|---|---|---|
| `NatRewrite` | `nat_rewrite_addr` | an operator: the packet and return code for a set of failing helpers |
| `Datapath` | both programs, `conntrack_map`, counters | one action per access to shared state |
| `DnsNames` | `EncodeSuffix`, the content of `suffix_rules` | names as sequences of labels, keys as byte arrays |
| `SuffixMatch` | QNAME load, label walk, suffix lookups | one CPU, a sequence of queries |
| `HealthChecker` | `Checker.Run`, `probeOnce`, `SetBypass` | |
| `Controller` | `Controller.Run`, `AttachManager` | the monitor is the little its channel promises |
| `VethMonitor` | `Monitor.Start`, the resync goroutine | with the controller behind the channel; implements `Controller` |
| `RuleTable` | what the reconciliation of `suffix_rules` promises | abstract |
| `RuleReconcile` | `PopulateSuffixRules` over the lives of the process | implements `RuleTable` |
| `Lifecycle` | `main.run`, composing `HealthChecker` and `Controller` | crash, restart, pinned maps |
| `MCDatapath`, `MCSuffixMatch`, `MCRuleReconcile` | instances for TLC | |
| `DatapathTypes`, `DatapathProofs` | theorems about `Datapath` | |
| `SuffixMatchProofs`, `HealthCheckerProofs`, `ControllerProofs`, `VethMonitorProofs`, `RuleReconcileProofs`, `LifecycleProofs` | theorems about the module each is named after | |

**Datapath.** A member of `Queries` is one datagram, followed from the pod
through ingress, a resolver and egress. `stage` says which access to shared state
comes next. `table` gives the element that holds a key and `elem` the timestamp in
each element, so that an element can be filled again while `ptr` still refers to it.
What the parser makes of a datagram is its `kind`; `SuffixMatch` is about how the
parser gets there. `excuse`, `stamp` and `insertFails` are history: no action's guard
reads them. `CoreDNS # Host` is an assumption about the deployment, the code does not
check it.

**SuffixMatch.** The buffers are byte arrays because the properties are about bytes:
lengths and characters are told apart only by position. Packets carry the labels
they were built from, for the properties only.

**HealthChecker and Controller.** Each has an environment of its own (`Cancel`,
`ResolverChanges`, `KernelStep`). `SetBypass` is two steps with `configMu` held in
between. `Attach` and `Attachment.Close` are two steps each. A removal (`HandleRemove`)
is one step, as the kernel has already taken the programs off. The monitor's channel
in `Controller` is bounded and may carry, at any time and in any order, the
addition of a veth that has appeared (it may be gone again) and the removal of one
that is gone; `MonitorStops` closes it.

**VethMonitor.** The two goroutines of the monitor, with the kernel and the netlink
subscription in front of them and the controller behind. `updates` is the queue of
messages, from the socket to the Go channel; `dump` is what the initial dump has yet to
report. `start` and `resync` say where the goroutines are; each takes one step for the
update of `known` under the lock and another for the send, `LinkList` and the clearing
of `dumpInterrupted` are separate steps too. The module instantiates `Controller` with
the same variables, so that `CT!CtrlStep` is the real consumer and `CT!Spec` the
specification to implement: every send is a `CT!Announce` or a `CT!Retract`, the close a
`CT!MonitorStops`, and all else in the monitor a stutter. `relisted` is history.

**RuleReconcile and RuleTable.** `RuleReconcile` follows one process after another:
`Start` opens the pinned map or creates an empty one, the loops of
`PopulateSuffixRules` take one step per key, every map call may fail, and the process
may crash anywhere; a failed startup and a shutdown end in `Unpin`, which may fail before it
comes to this map. `RuleTable` is the promise in two variables: the map moves key by
key to one goal, stale keys leave first, and keys that agree are left alone. The
refinement maps `goal` to `desired` from the snapshot on, and to the map itself before.

**Lifecycle.** Instantiates both and adds the main goroutine. `Dead` is what the
kernel does when the process ends. A pod's query is followed only to see whether it
meets the egress program, and its conntrack entry, on the way back; `edge` records what
has cost it either: the gap between the two steps of `Attach`, a shutdown, the end of the
monitor, or a crash.

## Runs

| Run | Shows | Bounds |
|---|---|---|
| `datapath_faults` | `LeakExplained`, `HalfRewritesAlarmed`, `RoutingCounted` | 2 datagrams of all 6 kinds, 2 keys, 2 elements, one fault set for each way the rewrite ends, TTL 1, clock 0..2 |
| `datapath_races` | `LeakExplained`, `NoStaleSnat` | 3 datagrams, 2 keys, 2 elements, TTL 1, clock 0..2 |
| `datapath_retransmit` | violation of `AlwaysFromCoreDNS` | 2 datagrams with one key, no faults, no clock |
| `suffix` | `TypeOK`, `LongestSuffixWins`, `LookupExact`, `RedirectNeedsRule` | names of 1 to 4 labels, MAX_LABELS 3, MAX_DNS_NAME_LEN 7; every packet first in line, then up to 3 of a smaller set in a row, well-formed or arbitrary bytes |
| `suffix_labels`, `suffix_case` | violations of `LongNamesPass`, `MixedCasePasses` | as `suffix`, one packet |
| `health` | `ThresholdRespected`, `BeliefMatches`, `BypassOnOutage`, `ClearOnRecovery` | threshold 3, 2 failing map calls |
| `controller` | `EgressCovers`, `DoneMeansDetached`, `EventuallyAttached`, `RunEnds` | 3 veths, attachments may fail on two of them, a channel of 2 |
| `monitor` | `NoSendAfterClose`, `NothingMissed`, `KnownFollowsLinks`, `ImplementsController`, `EventuallyServed`, `RecordsForgotten`, `MonitorEnds` | 2 veths, one of which may change and go, a channel of 1, mere changes delivered to an empty queue |
| `rules` | `ServesConfig`, `RoomForRules`, `ImplementsRuleTable`, `EventuallyServing` | 3 keys, a map of 2 entries, every configuration of up to 2 rules and one of 3, 3 faults |
| `lifecycle` | `TeardownBypassSticks`, `BeliefSurvivesRestart`, `LeaksOnlyAtEdges`, `ShutdownCompletes` | 1 veth, a channel of 1, threshold 1, 1 failing map call, 1 restart, waits may expire |
| `lifecycle_inflight` | violation of `InFlightCompletes` | 1 veth, no failures |

Why the bounds are enough. A conntrack race has a query, a rival with the same key
and one with another key that takes the element: three datagrams, two keys, two
elements. With TTL 1 and a clock up to 2 an entry can be fresh, at the limit and
expired. The clock's modulus `Word` is beyond `MaxTime + TTL`, so a difference wraps
only when it is negative, as with 64-bit nanoseconds. A name of 7 bytes holds three
labels of one character exactly, so that the limit, one below and one beyond occur;
4 labels are one beyond `MAX_LABELS`. MAX_DNS_NAME_LEN is not a power of two in these
runs, so masks are written as `%`. Symmetry is used in the `datapath` safety runs
only, over sets whose members no definition tells apart.

A channel of one entry is full after one send, so that each goroutine of the
monitor blocks in `emit` while the other does, the controller is busy, or the process is being
stopped. One veth comes, changes and goes (`Restless`) and the other comes and stays: the
races are between the messages of one veth, and the second keeps the channel and
the resync's list busy. Mere changes repeat without end, so `MaxQueued` keeps them from
filling the queue; additions, removals and the dump's reports are delivered whatever its length.
A map of two entries is full with stale rules when two new ones come; three faults are
two interrupted starts and a failed `Unpin`.

Attachments of existing veths fail in `controller` only; in `lifecycle` they fail when the veth
is gone. A threshold of 1 lets the checker act at every failed probe; `health` has a
longer threshold.

The runs without deadlock checking are those where the system may stop: all packets
handled, the process shut down. In `rules` the process is always started again.

### Fairness

- `HealthChecker`: weak fairness of the goroutine (probes time out, the ticker ticks),
  strong fairness of the `ctx.Done()` case, as Go's `select` picks among ready
  cases at random.
- `Controller`: the same for the handling of events and for `StartDetachAll`.
- `Lifecycle`: the same, with weak fairness of the main goroutine and of the
  goroutine that calls `stop()` after the monitor's failure. The waits of the shutdown
  may expire but need not: `ShutdownCompletes` does not rest on the time limits.
- `VethMonitor`: weak fairness of the dump and of each goroutine, strong fairness of
  Start's `ctx.Done()` case, and of `LinkList`: the resync calls it every 50 ms and the
  property needs that it does not fail for ever. The kernel need not do anything.
- `RuleReconcile`: weak fairness of the process and of its start, since
  deploy/bpf-dns-gateway.service has `Restart=always`. The configurations are chosen
  freely at each start; `EventuallyServing` assumes that they are acceptable.
- `Datapath` and `SuffixMatch` have no liveness properties: the programs are loop-bounded
  by the verifier.

## What the violated runs show

1. **Retransmissions** (`datapath_retransmit`). A pod that repeats a query before the
   answer shares one entry for both. The first answer deletes it and the second arrives
   from the VPC resolver's address. README.md:55 says the answer "always appears to come
   from CoreDNS". Stub resolvers discard the second answer, having the first.
2. **Names of more than MAX_LABELS labels** (`suffix_labels`) are redirected when the
   default is host-resolve; docs/design.md:572 says they pass through to CoreDNS.
3. **Mixed case** (`suffix_case`) misses a longer cluster-resolve rule and is redirected by
   a shorter host-resolve rule, against the comment at bpf/dns_gateway.c:249-251.
4. **Shutdown** (`lifecycle_inflight`). The controller detaches on the cancellation that
   starts the shutdown and does not wait for bypass to be set, against docs/design.md:409.

## Proofs

All hold for every value of the constants that satisfies the named assumptions.

- `DatapathTypes`: `NatAtomic` (the rewrite is all or nothing unless it returns -2) and
  `TypeCorrect`; also two invariants that the next module builds on: clock readings are
  ordered (`ClockInv`), and addresses follow the stage (`PacketInv`). For any finite set of
  datagrams (`QueriesAssumption`) it proves the two invariants that count,
  `HalfRewritesRaiseTheAlarm` and `EveryLookupIsCounted`. A step changes one datagram, so each
  set that is counted gains or loses at most that one, in step with a counter. `SnatInv` adds
  that a failed rewrite on egress is recorded once, when the answer is delivered.
- `DatapathProofs`: `LeaksAreExplained` and `StaleEntriesUnused`. `LeakExplained` speaks of
  delivered answers only, so the inductive invariant `LeakInv` says of each query on its way that its key has
  the entry the query inserted, or that a cause has been recorded (`TrackInv`). It needs that two
  live queries with one key are both marked as overlapping (`OverlapInv`).
  For `StaleEntriesUnused` the invariant `StaleInv` says that no entry is younger
  than the latest insertion for its key (`StampInv`), so that an answer that passes the TTL
  check belongs to a recent insertion.
- `SuffixMatchProofs`: `TypeCorrect`, and `KeysAreExact`: what is looked up is a piece of
  the current query. The invariant says that the first `remaining` bytes of the
  buffer are the query's and that label offsets increase below `pos`. Then
  `RedirectsFollowRules` and `LongestSuffixDecides`, in two parts.
  *Names*: `Laid` and `Spelled` give the offsets where the labels of a name start in a
  packet or a buffer. A key that equals a piece of a query has the same length bytes at the same
  distances, so it spells the same labels and ends with them (`HitRule`); conversely a rule that
  is a suffix of the name is found at the offset where its first label starts (`MatchKey`). Two
  rules with one key have one action, as `PopulateSuffixRules` refuses others.
  *State*: `WalkInv` says that `label_offsets` is the chain of length bytes read so far
  (`ChainInv`), how the walk can have ended (`EndInv`), and that the loop has tried every label before
  `idx` (`TriedInv`). For a name within the limits the chain is the name's own (`PlainTrack`).
  `MatchInv` adds that no rule that matches starts at a label the loop has passed (`Due`), so the
  first hit is the longest match. Induction over labels and offsets is done by taking the least counterexample
  (`LeastNat`, from `WellFoundedInduction`; `Induct`).
- `HealthCheckerProofs`: `BypassFollowsThreshold`, `BeliefIsRight`. The invariant `Decided`
  adds what the checker is about to do at each stage, and who holds the lock.
- `ControllerProofs`: `EgressAlwaysCovers`, `NothingLeftAttached`. The invariant `Attached`
  adds that the egress program is only on veths with a record in `attachments` or
  in the set `DetachAll` is working through.
- `VethMonitorProofs`, for any set of veths and any capacity. The invariant `Honest` says that
  whatever is queued or in a goroutine's hand is true of the links (`Told`) and how the
  stages of the two goroutines go together (`Stages`). From it follow
  `NeverSendsAfterClose` and the refinement `MonitorRefinesController`: `EgressAlwaysCovers`
  and `NothingLeftAttached` thus hold with the real monitor. `NoVethMissed` needs more: in
  the window between `LinkList` and the clearing of the flag a veth that exists is on the list
  or has its message waiting (`Tracked`). This holds because a dump that comes late
  misses only links that `LinkList` saw or whose own messages are queued. `KnownForgets` needs
  the order of messages: behind every RTM_NEWLINK of a veth that is gone waits its RTM_DELLINK
  (`Forgetting`).
- `RuleReconcileProofs`, for any finite set of keys, any capacity and any configurations:
  `AlwaysServesConfig`, `AlwaysRoomForRules` and the refinement `ReconcileRefinesTable`. The
  invariant `Sound` says that `desired` holds the rules read so far and that in each loop
  the map differs from `desired` only in the keys the loop has yet to come to. `RoomForRules`
  then counts: the map's keys are a proper subset of `desired`'s when one is missing.
- `LifecycleProofs`, for any set of veths, any threshold, any number of failures, crashes and
  restarts, whether or not the waits expire (`LifecycleAssumption`). `LeaksOnlyAtTheEdges`
  rests on the controller's invariant `Attached`, whose lemmas are used through an INSTANCE of
  `ControllerProofs`: outside `Attach` a veth whose queries are redirected has its egress program.
  The invariant `Guarded` then says that a query that has lost the program, or its conntrack
  entry, has a recorded reason. `TeardownSticks` and `BeliefSurvives` share the invariant
  `Sticking`: past the wait of step 9a the checker is done or was given up (`Ordered`),
  `bypassActive` lags behind the map only between `SetBypass` and the store (`Believed`), and
  a probe on its way to `SetBypass` saw ctx alive (`Committed`).

The assumptions about names say what the inputs are. `PacketAssumption`: a packet starts with
the wire format of the name it is said to carry; one that carries none has no chain of length
bytes to a zero byte, or is for the root. `CaseAssumption`: upper and lower case letters are apart.
`RuleAssumption`: patterns are sequences of labels. `PatternAssumption`: no pattern contains a
NUL byte. `validateRule` and `EncodeSuffix` do not refuse one; `RedirectNeedsRule` needs it because the key
of a name cut off at `MAX_LABELS` is padded with zeros like any other, and a length byte followed by zeros would be
a label of NUL bytes.

Only model-checked: all liveness properties, since fairness and ENABLED are out of the
prover's reach. Every safety invariant and action property that a passing run checks is also proved.

Refinements: `VethMonitor` implements `Controller`, and `RuleReconcile` implements
`RuleTable`; both are checked by TLC (`ImplementsController`, `ImplementsRuleTable`) and proved.
`Lifecycle` uses `Controller` and not `VethMonitor`: what it checks of the channel's
deliveries is more than the monitor does.

## Not modelled

- The reading of headers (Ethernet, IP, UDP), whose outcome is a datagram's `kind`.
- Updates of `config_map` seen half-way by a program: only the bypass field ever changes.
- Per-CPU metrics as such: `metrics` is their sum.
- The use of an ifindex for a second veth. It matters in one place: a resync that adds a veth
  from an older list leaves it in `known` for good, and a later veth with its ifindex would
  be ignored. `KnownFollowsLinks` shows that nothing else leaves such an entry.
- Links other than veths, which the monitor filters out, and names of links.
- The limit of 64 on the Go channel of messages: behind it is the socket's buffer, whose
  overrun is a failure of the subscription.
- Two processes on one pin directory at the same time.
- A scrape by the metrics collector: it reads and changes nothing. What its gauges read is covered
  where it is written (`BeliefMatches`, `BeliefSurvivesRestart`, `ServesConfig`); during the
  shutdown the gauge of bypass shows the checker's last state.
- Text validation in `internal/config`, but for the rule on default actions, and
  `ParsePattern`: a pattern is accepted or `Rejected`. `strings.ToLower` also maps letters outside
  ASCII; `ToLower` here maps 'A' to 'Z' only.
- An abstract resolver that `Datapath` would implement: `LeakExplained` states directly when an
  answer does not come from CoreDNS, and the exceptions would make most of such a module.
- Generated bindings, vendored headers, the load generator, the metrics server.

## What could come next

1. Veths that take over an ifindex, in `Controller` and `VethMonitor`.
