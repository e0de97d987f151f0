------------------------------ MODULE Topology ------------------------------
(***************************************************************************)
(* Discovered topology (net/topology/service.py, the keys of               *)
(* net/topology/discovery.py, and the part of execute_target in            *)
(* net/inspections/executor.py that calls them).                           *)
(*                                                                         *)
(* Each target of a network inspection has one batch.  A thread collects   *)
(* the neighbours of its device, resolves them with the interfaces that    *)
(* are known by then, and completes the batch in one transaction.  Nothing *)
(* of this is fenced by the lease: a retried target has two threads and    *)
(* still one batch.  A link is known by a key of its two ends, in which a  *)
(* remote interface that is not known yet is replaced by its name.         *)
(***************************************************************************)
EXTENDS Naturals, FiniteSets

CONSTANTS
  Ports,
  DeviceOf,         \* the device of each port
  Wirings,          \* sets of cables, a cable being a set of two ports
  MaxTargets,       \* inspected targets, numbered as they are begun
  TopologyPlans,    \* [targets, pool, retries, rewirings]: how many of each
                    \* an instance has
  NoPort

ASSUME TopologyAssumption ==
  /\ DOMAIN DeviceOf = Ports /\ MaxTargets \in Nat
  /\ \A w \in Wirings : \A c \in w :
       \E p, q \in Ports : c = {p, q} /\ DeviceOf[p] # DeviceOf[q]
  /\ NoPort \notin Ports
  /\ TopologyPlans \subseteq [targets : 0 .. MaxTargets, pool : Nat, retries : Nat,
                           rewirings : Nat]

VARIABLES
  topology_plan, \* the member of TopologyPlans (never changes)
  wiring,       \* the cables there are
  rewirings,    \* bounds the model
  known,        \* ports with a NetworkTopologyInterface row
  links,        \* NetworkTopologyLink rows by stable_link_key
  topology_batch, \* device and status of the batch of each target
  discovery,    \* the threads of each target: of its first execution and its retry
  missed_by,    \* batches that missed a link since it was last seen (history)
  quiet         \* per device, complete batches since anything changed (history)

topologyVars == <<topology_plan, wiring, rewirings, known, links, topology_batch, discovery,
                  missed_by, quiet>>

TopologyTargets == 1 .. MaxTargets

Devices  == {DeviceOf[p] : p \in Ports}
LinkKeys == [ends : {c \in SUBSET Ports : Cardinality(c) = 2},
             named_by : Ports \cup {NoPort}]
NoLink   == [status |-> "none", missing_complete_batches |-> 0, local |-> NoPort,
             bidirectional |-> FALSE]
NoDiscovery ==
  [stage |-> "idle", seen |-> {}, complete |-> FALSE, known |-> {}, old |-> FALSE]
Ended    == [NoDiscovery EXCEPT !.stage = "ended"]

TopologyInit ==
  /\ topology_plan \in TopologyPlans
  /\ wiring \in Wirings /\ rewirings = 0
  /\ known = {}
  /\ links = [k \in LinkKeys |-> NoLink]
  /\ topology_batch = [t \in TopologyTargets |-> [device |-> NoPort, status |-> "none"]]
  /\ discovery = [t \in TopologyTargets |-> [a \in 1 .. 2 |-> NoDiscovery]]
  /\ missed_by = [k \in LinkKeys |-> {}]
  /\ quiet = [d \in Devices |-> 0]

-----------------------------------------------------------------------------
\* Mutant: the key keeps the side from which the link was seen.
stable_link_key_Directed(p, q, interfaces) == [ends |-> {p, q}, named_by |-> p]

\* The key of the link that port p sees to port q: the same from both sides once
\* the remote interface is known.
stable_link_key(p, q, interfaces) ==
  [ends |-> {p, q}, named_by |-> IF q \in interfaces THEN NoPort ELSE p]

PortsOf(d) == {p \in Ports : DeviceOf[p] = d}

\* What LLDP on device d can tell: its ports and their neighbours.
neighbours(d) == {pq \in PortsOf(d) \X Ports : {pq[1], pq[2]} \in wiring}

RunningThreads == {ta \in TopologyTargets \X (1 .. 2) :
                     discovery[ta[1]][ta[2]].stage \notin {"idle", "ended"}}

\* execute_target begins the batch of its target; the second execution of a target
\* finds that of the first, in whatever state.
BeginBatch(t, d) ==
  /\ t <= topology_plan.targets /\ Cardinality(RunningThreads) < topology_plan.pool
  /\ \A u \in TopologyTargets : topology_batch[u].status = "none" <=> u >= t
  /\ topology_batch' = [topology_batch EXCEPT ![t] = [device |-> d, status |-> "running"]]
  /\ discovery' = [discovery EXCEPT ![t][1].stage = "collecting"]
  /\ UNCHANGED <<topology_plan, wiring, rewirings, known, links, missed_by, quiet>>

RetryTarget(t) ==
  /\ topology_batch[t].status # "none" /\ discovery[t][2].stage = "idle"
  /\ Cardinality({u \in TopologyTargets : discovery[u][2].stage # "idle"})
       < topology_plan.retries
  /\ Cardinality(RunningThreads) < topology_plan.pool
  /\ discovery' = [discovery EXCEPT ![t][2].stage = "collecting"]
  /\ UNCHANGED <<topology_plan, wiring, rewirings, known, links, topology_batch, missed_by,
                 quiet>>

\* Neighbours are collected, all of them or only some; a collection that happens to
\* have everything may still be reported as partial.
CollectNeighbours(t, a) ==
  /\ discovery[t][a].stage = "collecting"
  /\ \E seen \in SUBSET neighbours(topology_batch[t].device), complete \in BOOLEAN :
       /\ complete => seen = neighbours(topology_batch[t].device)
       /\ discovery' = [discovery EXCEPT ![t][a] =
                          [stage |-> "collected", seen |-> seen, complete |-> complete,
                           known |-> {}, old |-> FALSE]]
  /\ UNCHANGED <<topology_plan, wiring, rewirings, known, links, topology_batch, missed_by,
                 quiet>>

\* _topology_payload reads the known interfaces before the transaction.
ResolvePayload(t, a) ==
  /\ discovery[t][a].stage = "collected"
  /\ discovery' = [discovery EXCEPT ![t][a].stage = "resolved", ![t][a].known = known]
  /\ UNCHANGED <<topology_plan, wiring, rewirings, known, links, topology_batch, missed_by,
                 quiet>>

\* A link that is seen: current again, without misses; the first side keeps the
\* orientation.
seen_link(link, p) ==
  [status |-> "current", missing_complete_batches |-> 0,
   local |-> IF link.status = "none" THEN p ELSE link.local,
   bidirectional |-> IF link.status = "none" THEN FALSE
                     ELSE link.bidirectional \/ DeviceOf[link.local] # DeviceOf[p]]

\* Mutant: one miss is enough.
missed_link_Once(link) ==
  [link EXCEPT !.missing_complete_batches = @ + 1, !.status = "stale"]

missed_link(link) ==
  [link EXCEPT !.missing_complete_batches = @ + 1,
               !.status = IF link.missing_complete_batches + 1 >= 2 THEN "stale" ELSE @]

is_open(t) == topology_batch[t].status = "running"

\* complete_topology_batch: the interfaces that were reported, which those with a
\* neighbour always are, and the links that were seen are written; a complete batch
\* counts a miss for every other current link of the device.
CompleteBatch(t, a) ==
  LET thread   == discovery[t][a]
      d        == topology_batch[t].device
      key(pq)  == stable_link_key(pq[1], pq[2], thread.known)
      observed == {key(pq) : pq \in thread.seen}
      missed   == {k \in LinkKeys \ observed :
                     /\ thread.complete /\ links[k].status = "current"
                     /\ \E p \in k.ends : DeviceOf[p] = d}
  IN /\ thread.stage = "resolved"
     /\ discovery' = [discovery EXCEPT ![t][a] = Ended]
     /\ IF ~ is_open(t) THEN UNCHANGED <<known, links, topology_batch, missed_by, quiet>>
        ELSE /\ topology_batch' = [topology_batch EXCEPT ![t].status =
                                      IF thread.complete THEN "success" ELSE "partial"]
             /\ \E reported \in SUBSET PortsOf(d) :
                  /\ \A pq \in thread.seen : pq[1] \in reported
                  /\ known' = known \cup reported
             /\ links' = [k \in LinkKeys |->
                            IF k \in observed
                            THEN seen_link(links[k],
                                           CHOOSE p \in k.ends : DeviceOf[p] = d)
                            ELSE IF k \in missed THEN missed_link(links[k])
                            ELSE links[k]]
             /\ missed_by' = [k \in LinkKeys |->
                                IF k \in observed THEN {}
                                ELSE IF k \in missed THEN missed_by[k] \cup {t}
                                ELSE missed_by[k]]
             /\ quiet' = IF thread.old \/ thread.known # known THEN [e \in Devices |-> 0]
                         ELSE IF thread.complete /\ quiet[d] < 2
                         THEN [quiet EXCEPT ![d] = @ + 1]
                         ELSE quiet
     /\ UNCHANGED <<topology_plan, wiring, rewirings>>

\* fail_topology_batch: the guard is set, there is no evidence, or it cannot be
\* stored.
FailBatch(t, a) ==
  /\ discovery[t][a].stage \in {"collecting", "collected", "resolved"}
  /\ discovery' = [discovery EXCEPT ![t][a] = Ended]
  /\ topology_batch' = [topology_batch EXCEPT ![t].status =
                           IF @ = "running" THEN "failed" ELSE @]
  /\ UNCHANGED <<topology_plan, wiring, rewirings, known, links, missed_by, quiet>>

\* Someone moves a cable; what has been collected so far is out of date.
Rewire ==
  /\ rewirings < topology_plan.rewirings /\ rewirings' = rewirings + 1
  /\ wiring' \in Wirings \ {wiring}
  /\ quiet' = [d \in Devices |-> 0]
  /\ discovery' = [t \in TopologyTargets |-> [a \in 1 .. 2 |->
                     [discovery[t][a] EXCEPT !.old =
                        @ \/ discovery[t][a].stage \in {"collected", "resolved"}]]]
  /\ UNCHANGED <<topology_plan, known, links, topology_batch, missed_by>>

DiscoveryStep(t, a) ==
  \/ CollectNeighbours(t, a) \/ ResolvePayload(t, a) \/ CompleteBatch(t, a) \/ FailBatch(t, a)

TopologyNext ==
  \/ \E t \in TopologyTargets :
       \/ \E d \in Devices : BeginBatch(t, d)
       \/ RetryTarget(t) \/ \E a \in 1 .. 2 : DiscoveryStep(t, a)
  \/ Rewire

TopologySpec == TopologyInit /\ [][TopologyNext]_topologyVars

-----------------------------------------------------------------------------
(* Properties.                                                             *)

\* Interfaces, links and batches keep their types.
TopologyTypeOK ==
  /\ wiring \in Wirings /\ rewirings \in Nat /\ known \subseteq Ports
  /\ links \in [LinkKeys -> [status : {"none", "current", "stale"},
                             missing_complete_batches : 0 .. 2,
                             local : Ports \cup {NoPort}, bidirectional : BOOLEAN]]
  /\ \A k \in LinkKeys : links[k].status # "none" => links[k].local \in k.ends
  /\ topology_batch \in [TopologyTargets ->
                  [device : Devices \cup {NoPort},
                   status : {"none", "running", "success", "partial", "failed"}]]

\* docs/device-inspection.md: a link is stale only when two complete collections in
\* a row have missed it, and retries of a Worker do not count: the misses of a link
\* are different batches, none of which was followed by a sighting.
StaleNeedsTwoBatches ==
  \A k \in LinkKeys :
    /\ links[k].missing_complete_batches = Cardinality(missed_by[k])
    /\ links[k].status = "stale" <=> Cardinality(missed_by[k]) >= 2

\* Once the cables are left alone and both devices have been collected completely
\* twice, with the interfaces known at the time, the current links are the cables,
\* each exactly once: links under the provisional key of an interface that was not
\* known yet have gone stale, and so have those of cables that were moved.
TopologyConverges ==
  (\A d \in Devices : quiet[d] >= 2)
    => /\ {k.ends : k \in {k \in LinkKeys : links[k].status = "current"}} = wiring
       /\ \A k, l \in LinkKeys : links[k].status = "current" /\ links[l].status = "current"
                                 /\ k.ends = l.ends => k = l
=============================================================================
