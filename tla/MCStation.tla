----------------------------- MODULE MCStation -----------------------------
(***************************************************************************)
(* The components that synchronise, collect or show data, in one small     *)
(* instance.  They share no rows: "part" names the one that moves, and the *)
(* others keep one initial state, so what holds of each here holds of them *)
(* together.                                                               *)
(***************************************************************************)
EXTENDS PeopleSync, AccessSync, Topology, PcLogs, ConfigBackups, PageCache, DomainClient,
        TLC

CONSTANTS
  c1, c2, c3, dA, dB, ga, gb, g1, h1, h2, k1, k2, l1, l2, l3, pa, pb, pc, q1, q2, q3, v1, v2,
  x1, x2, y1, y2, y3, y4

VARIABLE part

Parts == {"people", "access", "topology", "pc", "backups", "pages", "domain"}

-----------------------------------------------------------------------------
(* People: a task retried against another, or two alternatives of one       *)
(* attempt each; directories and registers with every class of person.     *)
MCPeoplePlans == {[t \in PeopleTasks |-> IF t = k1 THEN 2 ELSE 0], [t \in PeopleTasks |-> 1]}
MCPerson(owner, content) ==
  [owner |-> owner, content |-> content, active |-> TRUE, departed |-> FALSE, synced |-> 0]
MCSnapshots == {[e \in Employees |-> IF e = h1 THEN v1 ELSE "absent"],
                [e \in Employees |-> IF e = h1 THEN "absent" ELSE v2],
                [e \in Employees |-> IF e = h1 THEN "skipped" ELSE "absent"]}
MCRegisters ==
  {[e \in Employees |-> IF e = h1 THEN MCPerson("own", v1) ELSE Null],
   [e \in Employees |-> IF e = h1 THEN MCPerson("claimable", v2) ELSE MCPerson("other", v1)]}

(* Topology: four inspections one after the other with a cable moved, or    *)
(* two at once, one of them retried.                                       *)
MCDeviceOf == pa :> dA @@ pb :> dB @@ pc :> dB
MCTopologyPlans == {[targets |-> 4, pool |-> 1, retries |-> 0, rewirings |-> 1],
                    [targets |-> 2, pool |-> 2, retries |-> 1, rewirings |-> 0]}
MCWirings == {{{pa, pb}}, {{pa, pc}}}

(* PC logs: uploads against a retried analysis, against a change of the     *)
(* settings, and analyses against one.                                     *)
MCStampOf == c1 :> 1 @@ c2 :> 2 @@ c3 :> 4
MCPcPlans == {[uploads |-> 2, analyses |-> 1, attempts |-> 2, edits |-> 0],
              [uploads |-> 3, analyses |-> 0, attempts |-> 0, edits |-> 1],
              [uploads |-> 1, analyses |-> 2, attempts |-> 1, edits |-> 1]}

(* Page cache: a POST and a list page beside display pages, a change made   *)
(* elsewhere, an invalidation, and an invalidation during an outage.       *)
MCCachePlans ==
  {[displays |-> {y1, y2}, lists |-> {y3}, posts |-> {y4}, outages |-> FALSE,
    topology |-> 0, elsewhere |-> 0],
   [displays |-> {y1, y2, y3}, lists |-> {}, posts |-> {}, outages |-> FALSE,
    topology |-> 0, elsewhere |-> 1],
   [displays |-> {y1, y2}, lists |-> {}, posts |-> {}, outages |-> FALSE,
    topology |-> 1, elsewhere |-> 1],
   [displays |-> {y1, y2}, lists |-> {}, posts |-> {}, outages |-> TRUE,
    topology |-> 1, elsewhere |-> 0]}

(* Domain client: changes of flags by server with and without assertions,    *)
(* repeated moves, different group changes, and creations of one user.      *)
MCFlag(f, value) ==
  [action |-> "flag", flag |-> f, value |-> value, group |-> gb, source |-> ga]
MCAction(action) ==
  [action |-> action, flag |-> "disabled", value |-> TRUE, group |-> gb, source |-> ga]
MCObject(login, groups) ==
  [login |-> login, flags |-> {}, groups |-> groups, primary |-> NoGroup, password |-> NoCall]
MCClientPlan(requests, asserts, object) ==
  [requests |-> requests, asserts |-> asserts, object |-> object, edits |-> 1]
MCClientPlans ==
  {MCClientPlan(l1 :> MCFlag("disabled", TRUE) @@ l2 :> MCFlag("never_expires", TRUE)
                  @@ l3 :> MCFlag("disabled", FALSE), TRUE, MCObject("other", {})),
   MCClientPlan(l1 :> MCFlag("disabled", TRUE) @@ l2 :> MCFlag("never_expires", FALSE)
                  @@ l3 :> MCAction("reset_password"), FALSE, MCObject("other", {})),
   MCClientPlan([c \in Calls |-> MCAction("move_group")], TRUE, MCObject("other", {ga})),
   MCClientPlan(l1 :> MCAction("add_group") @@ l2 :> MCAction("remove_group")
                  @@ l3 :> MCAction("move_group"), TRUE, MCObject("other", {ga})),
   MCClientPlan([c \in Calls |-> MCAction("create_user")], TRUE, MCObject("none", {}))}

-----------------------------------------------------------------------------
Resting(name, variable, values) == part # name => variable = CHOOSE v \in values : TRUE

StationInit ==
  /\ part \in Parts
  /\ PeopleInit /\ AccessInit /\ TopologyInit /\ PcInit /\ BackupsInit /\ PageCacheInit
  /\ ClientInit
  /\ Resting("people", people, Registers) /\ Resting("people", remote, Snapshots)
  /\ Resting("people", people_plan, PeoplePlans)
  /\ Resting("topology", topology_plan, TopologyPlans) /\ Resting("topology", wiring, Wirings)
  /\ Resting("pc", pc_plan, PcPlans) /\ Resting("pages", cache_plan, CachePlans)
  /\ Resting("domain", client_plan, ClientPlans)

Others(name) ==
  /\ UNCHANGED part
  /\ IF name = "people"   THEN TRUE ELSE UNCHANGED peopleVars
  /\ IF name = "access"   THEN TRUE ELSE UNCHANGED accessVars
  /\ IF name = "topology" THEN TRUE ELSE UNCHANGED topologyVars
  /\ IF name = "pc"       THEN TRUE ELSE UNCHANGED pcVars
  /\ IF name = "backups"  THEN TRUE ELSE UNCHANGED backupVars
  /\ IF name = "pages"    THEN TRUE ELSE UNCHANGED cacheVars
  /\ IF name = "domain"   THEN TRUE ELSE UNCHANGED clientVars

StationNext ==
  \/ part = "people"   /\ PeopleNext    /\ Others("people")
  \/ part = "access"   /\ AccessNext    /\ Others("access")
  \/ part = "topology" /\ TopologyNext  /\ Others("topology")
  \/ part = "pc"       /\ PcNext        /\ Others("pc")
  \/ part = "backups"  /\ BackupsNext   /\ Others("backups")
  \/ part = "pages"    /\ PageCacheNext /\ Others("pages")
  \/ part = "domain"   /\ ClientNext    /\ Others("domain")

stationVars == <<part, peopleVars, accessVars, topologyVars, pcVars, backupVars, cacheVars,
                 clientVars>>

StationSpec == StationInit /\ [][StationNext]_stationVars

-----------------------------------------------------------------------------
\* The rows of every component keep their types: events are recorded once, links have
\* one row, there are never more than KeptVersions backups, and no page lives longer
\* than its lifetime.
StationTypeOK ==
  /\ PeopleTypeOK /\ AccessTypeOK /\ TopologyTypeOK
  /\ PcTypeOK /\ BackupsTypeOK /\ PageTypeOK /\ ClientTypeOK
=============================================================================
