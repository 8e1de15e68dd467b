------------------------------- MODULE Quotas -------------------------------
(***************************************************************************)
(* What a project may use: the quotas and availabilities a pass brings in  *)
(* line with the limit of the node, and what it writes back: the use it    *)
(* measured and the resources it could not carry out (mapper.go, quotas.go,*)
(* grants.go, orphan_grants.go, sync_errors.go, ProviderSync).             *)
(*                                                                         *)
(* One node. Its project may be deleted by hand and is then created again. *)
(***************************************************************************)
EXTENDS Integers, FiniteSets

CONSTANTS
    Counts,         \* resources with a quota in OpenStack that the tree sets
    ServiceOf,      \* "compute" or "block": the service of that quota
    Multiplier,     \* units of OpenStack in one of the tree
    MaxOSQuota,     \* the largest value of a quota field
    Avail,          \* resources granted or not: network, image or flavor
    GrantType,
    Wants,          \* limits of the node, and the availabilities it holds
    Uses,           \* what servers, volumes and ports may use at a time
    Projects,       \* ids of the projects in OpenStack, in the order they are given
    NotMeasured,    \* nil
    MaxEdits,       \* bound: changes of the node and of what is used
    MaxMishaps      \* bound: calls that fail, projects deleted by hand, ends of the process

Unlimited == -1

QuotasAssumption ==
    /\ ServiceOf \in [Counts -> {"compute", "block"}]
    /\ Multiplier \in [Counts -> Nat \ {0}] /\ MaxOSQuota \in Nat
    /\ GrantType \in [Avail -> {"network", "image", "flavor"}]
    /\ \A w \in Wants : w.limit \in [Counts -> Int] /\ w.holds \subseteq Avail
    /\ \A u \in Uses : u \in [Counts \cup Avail -> Nat]
    /\ Counts \cap Avail = {} /\ NotMeasured \notin Uses
    /\ IsFiniteSet(Projects) /\ Projects = 1..Cardinality(Projects)
    /\ MaxEdits \in Nat /\ MaxMishaps \in Nat

Resources == Counts \cup Avail
NoProject == 0

VARIABLES
    want,           \* the node: its effective limit
    inForce,        \* it is not released
    node,           \* what the pass wrote onto its binding
    project,        \* the project in OpenStack
    made,           \* how many there have been
    quota,          \* of the project, in units of OpenStack
    static,         \* the quotas of static resources are the defaults of the catalogue
    grants,         \* "none", "pending" or "yes", of every project there has been
    used,           \* now
    at,             \* what the pass does next
    leaf,           \* the limit as loaded
    retired,        \* and whether it was released
    target,         \* the project it works on
    listed,         \* osProjectByOSID
    grantUse,       \* as read for this pass, or not
    measured,       \* the Observation
    todo,           \* availabilities still to be looked at
    failing,        \* errors of this pass
    attempted,
    edits, mishaps

openstack == <<project, made, quota, static, grants>>
loaded == <<leaf, retired, target, listed, grantUse>>
quotaPass == <<at, loaded, measured, todo, failing, attempted>>
quotasVars == <<want, inForce, node, openstack, used, quotaPass, edits, mishaps>>

QuotaSteps ==
    {"idle", "read", "create", "fill", "record", "compute", "block", "measure", "persist", "grants",
     "errors", "delete", "revoke", "sweep"}

Measurements ==
    [inUse : [Counts -> Nat], over : BOOLEAN, grantUse : [Avail -> Nat] \cup {NotMeasured}]

QuotasTypeOK ==
    /\ want \in Wants /\ leaf \in Wants /\ used \in Uses
    /\ inForce \in BOOLEAN /\ retired \in BOOLEAN /\ static \in BOOLEAN
    /\ node \in [external : {NoProject} \cup Projects, errors : SUBSET Resources,
                 seen : Measurements \cup {NotMeasured}]
    /\ project \in {NoProject} \cup Projects /\ made \in {NoProject} \cup Projects
    /\ quota \in [Counts -> Unlimited..MaxOSQuota]
    /\ grants \in [Projects -> [Avail -> {"none", "pending", "yes"}]]
    /\ at \in QuotaSteps
    /\ target \in {NoProject} \cup Projects /\ listed \in {NoProject} \cup Projects
    /\ grantUse \in [Avail -> Nat] \cup {NotMeasured}
    /\ measured \in Measurements \cup {NotMeasured}
    /\ todo \subseteq Avail /\ failing \subseteq Resources /\ attempted \subseteq Resources
    /\ edits \in 0..MaxEdits /\ mishaps \in 0..MaxMishaps

NoGrants == [a \in Avail |-> "none"]

QuotasInit ==
    /\ want \in Wants /\ inForce = TRUE
    /\ node = [external |-> NoProject, errors |-> {}, seen |-> NotMeasured]
    /\ project = NoProject /\ made = 0
    /\ quota = [c \in Counts |-> 0] /\ static = FALSE
    /\ grants = [p \in Projects |-> NoGrants]
    /\ used \in Uses
    /\ at = "idle" /\ leaf = want /\ retired = FALSE /\ target = NoProject /\ listed = NoProject
    /\ grantUse = NotMeasured /\ measured = NotMeasured
    /\ todo = {} /\ failing = {} /\ attempted = {}
    /\ edits = 0 /\ mishaps = 0

-----------------------------------------------------------------------------
(* Units: toOSQuota, ProjectQuotaToQuotaSet, ProjectInUse *)

ToOSQuota(value, multiplier) ==
    IF value = Unlimited THEN Unlimited
    ELSE IF value <= 0 THEN 0
    ELSE IF value > MaxOSQuota \div multiplier THEN MaxOSQuota
    ELSE value * multiplier

QuotaSet(limit) == [c \in Counts |-> ToOSQuota(limit[c], Multiplier[c])]

InUse(use) == [c \in Counts |-> use[c] \div Multiplier[c]]

\* IsProjectOvercommitted: neither without a limit nor with a limit of 0.
Overcommitted(limit, use) == \E c \in Counts : limit[c] > 0 /\ InUse(use)[c] > limit[c]

\* projectGrantUse
UseOfGrants(use) == [a \in Avail |-> use[a]]

-----------------------------------------------------------------------------
Mishap == mishaps < MaxMishaps /\ mishaps' = mishaps + 1
Smooth == UNCHANGED mishaps

\* The pass comes to s; its other variables stay, except those of an action.
Step(from, to) == at = from /\ at' = to

-----------------------------------------------------------------------------
(* Phase 1 to 3: the nodes, the projects, readGrantUse *)

LoadLeaf ==
    /\ Step("idle", "read")
    /\ leaf' = want /\ retired' = ~inForce
    /\ listed' = project /\ target' = project
    /\ failing' = {} /\ attempted' = {} /\ todo' = {} /\ measured' = NotMeasured
    /\ UNCHANGED <<want, inForce, node, openstack, used, grantUse, edits, mishaps>>

\* A released node keeps its project until a pass deletes it.
ReadGrantUse ==
    /\ at = "read"
    /\ \/ Smooth /\ grantUse' = UseOfGrants(used)
       \/ Mishap /\ grantUse' = NotMeasured
    /\ at' = IF listed = NoProject THEN IF retired THEN "sweep" ELSE "create"
             ELSE IF retired THEN "delete" ELSE "compute"
    /\ todo' = IF at' = "sweep" THEN Avail ELSE {}
    /\ UNCHANGED <<want, inForce, node, openstack, used, leaf, retired, target, listed, measured,
                   failing, attempted, edits>>

-----------------------------------------------------------------------------
(* createOpenstackProjectForLeaf *)

\* CreateManagedProject. The services give a new project a quota of their own.
CreateProject ==
    /\ Step("create", "fill")
    /\ made < Cardinality(Projects)
    /\ made' = made + 1 /\ project' = made + 1 /\ target' = made + 1
    /\ quota' = [c \in Counts |-> 0] /\ static' = FALSE
    /\ UNCHANGED <<want, inForce, node, grants, used, leaf, retired, listed, grantUse,
                   measured, todo, failing, attempted, edits, mishaps>>

\* UpdateProjectQuotas: compute, the static ones of the network, block storage.
\* Every attempt goes through them from the start; when the last one fails too,
\* those ahead of the service that refused are set.
FillQuotas ==
    /\ Step("fill", "record")
    /\ project = target
    /\ \/ /\ Smooth
          /\ quota' = QuotaSet(leaf.limit) /\ static' = TRUE
       \/ /\ Mishap
          /\ \/ UNCHANGED <<quota, static>>
             \/ \E networkToo \in BOOLEAN :
                    /\ static' = networkToo
                    /\ quota' = [c \in Counts |-> IF ServiceOf[c] = "compute"
                                                  THEN QuotaSet(leaf.limit)[c] ELSE quota[c]]
    /\ UNCHANGED <<want, inForce, node, project, made, grants, used, loaded, measured, todo,
                   failing, attempted, edits>>

\* Deleted by hand at that moment: every attempt fails.
FillNothing ==
    /\ Step("fill", "record")
    /\ project # target
    /\ UNCHANGED <<want, inForce, node, openstack, used, loaded, measured, todo, failing,
                   attempted, edits, mishaps>>

\* RecordExternalID. The availabilities follow with the next pass.
RecordProject ==
    /\ Step("record", "sweep")
    /\ todo' = Avail
    /\ \/ Smooth /\ node' = [node EXCEPT !.external = target]
       \/ Mishap /\ UNCHANGED node
    /\ UNCHANGED <<want, inForce, openstack, used, loaded, measured, failing, attempted, edits>>

-----------------------------------------------------------------------------
(* syncQuota *)

\* UpdateManagedQuotas, one service after the other. A project that was deleted
\* meanwhile has none to set.
UpdateQuota(service, next) ==
    /\ at = service
    /\ LET mine == {c \in Counts : ServiceOf[c] = service}
       IN  \/ /\ Smooth /\ project = target
              /\ quota' = [c \in Counts |->
                               IF c \in mine THEN QuotaSet(leaf.limit)[c] ELSE quota[c]]
              /\ at' = next /\ UNCHANGED <<failing, attempted>>
           \/ /\ IF project = target THEN Mishap ELSE Smooth
              /\ at' = "errors" /\ failing' = mine /\ attempted' = Counts
              /\ UNCHANGED quota
    /\ UNCHANGED <<want, inForce, node, project, made, static, grants, used, loaded, measured,
                   todo, edits>>

\* GetProjectQuotaDetail: not measured is not zero.
Measure ==
    /\ Step("measure", "persist")
    /\ \/ /\ Smooth /\ project = target
          /\ measured' = [inUse |-> InUse(used), over |-> Overcommitted(leaf.limit, used),
                          grantUse |-> grantUse]
       \/ /\ IF project = target THEN Mishap ELSE Smooth
          /\ measured' = NotMeasured
    /\ UNCHANGED <<want, inForce, node, openstack, used, loaded, todo, failing, attempted, edits>>

\* Observe: what was not measured stays as it was measured last.
Observed ==
    IF measured = NotMeasured THEN node.seen
    ELSE IF measured.grantUse # NotMeasured \/ node.seen = NotMeasured THEN measured
    ELSE [measured EXCEPT !.grantUse = node.seen.grantUse]

RecordObservation ==
    /\ Step("persist", "grants")
    /\ todo' = Avail
    /\ \/ Smooth /\ node' = [node EXCEPT !.external = target, !.seen = Observed]
       \/ Mishap /\ UNCHANGED node
    /\ UNCHANGED <<want, inForce, openstack, used, loaded, measured, failing, attempted, edits>>

-----------------------------------------------------------------------------
(* syncGrants, AddGrant, RemoveGrant *)

\* Mutant of AddGrant: a member that is there already counts as granted.
AddGrantUnlessThere(a) ==
    \/ /\ Smooth
       /\ grants' = [grants EXCEPT ![target][a] = IF @ = "none" THEN "yes" ELSE @]
       /\ UNCHANGED failing
    \/ /\ IF project = target THEN Mishap ELSE Smooth
       /\ failing' = failing \cup {a}
       /\ \/ UNCHANGED grants
          \/ /\ GrantType[a] = "image" /\ grants[target][a] = "none" /\ project = target
             /\ grants' = [grants EXCEPT ![target][a] = "pending"]

\* An image member is pending until it is accepted, in a second call; one that
\* is there already is accepted again. Whether the project exists is not checked
\* by every service.
AddGrant(a) ==
    \/ Smooth /\ grants' = [grants EXCEPT ![target][a] = "yes"] /\ UNCHANGED failing
    \/ /\ IF project = target THEN Mishap ELSE Smooth
       /\ failing' = failing \cup {a}
       /\ \/ UNCHANGED grants
          \/ /\ GrantType[a] = "image" /\ grants[target][a] = "none" /\ project = target
             /\ grants' = [grants EXCEPT ![target][a] = "pending"]

RemoveGrant(a) ==
    \/ Smooth /\ grants' = [grants EXCEPT ![target][a] = "none"] /\ UNCHANGED failing
    \/ Mishap /\ failing' = failing \cup {a} /\ UNCHANGED grants

SyncGrant(a) ==
    /\ at = "grants" /\ a \in todo
    /\ todo' = todo \ {a}
    /\ IF a \in leaf.holds THEN AddGrant(a) ELSE RemoveGrant(a)
    /\ UNCHANGED <<want, inForce, node, project, made, quota, static, used, at, loaded,
                   measured, attempted, edits>>

GrantsDone ==
    /\ Step("grants", "errors") /\ todo = {}
    /\ attempted' = Resources
    /\ UNCHANGED <<want, inForce, node, openstack, used, loaded, measured, todo, failing, edits,
                   mishaps>>

\* Mutant of RecordSyncErrors: an error once recorded is not cleared.
RecordNewSyncErrors ==
    /\ Step("errors", "sweep")
    /\ todo' = Avail
    /\ \/ Smooth /\ node' = [node EXCEPT !.errors = @ \cup failing]
       \/ Mishap /\ UNCHANGED node
    /\ UNCHANGED <<want, inForce, openstack, used, loaded, measured, failing, attempted, edits>>

\* recordSyncErrors: what was not attempted keeps its error.
RecordSyncErrors ==
    /\ Step("errors", "sweep")
    /\ todo' = Avail
    /\ \/ Smooth /\ node' = [node EXCEPT !.errors = (@ \ attempted) \cup failing]
       \/ Mishap /\ UNCHANGED node
    /\ UNCHANGED <<want, inForce, openstack, used, loaded, measured, failing, attempted, edits>>

-----------------------------------------------------------------------------
(* A project that is deleted, and what it leaves behind *)

\* The last step of the purge (Purge), and revokeGrants.
ProjectDeleted ==
    /\ Step("delete", "revoke")
    /\ project' = IF project = target THEN NoProject ELSE project
    /\ todo' = Avail
    /\ UNCHANGED <<want, inForce, node, made, quota, static, grants, used, loaded, measured,
                   failing, attempted, edits, mishaps>>

RevokeGrant(a) ==
    /\ at = "revoke" /\ a \in todo
    /\ todo' = todo \ {a}
    /\ RemoveGrant(a)
    /\ UNCHANGED <<want, inForce, node, project, made, quota, static, used, at, loaded,
                   measured, attempted, edits>>

RevokesDone ==
    /\ Step("revoke", "sweep") /\ todo = {}
    /\ todo' = Avail
    /\ UNCHANGED <<want, inForce, node, openstack, used, loaded, measured, failing, attempted,
                   edits, mishaps>>

\* sweepOrphanedGrants: shares of networks only, of projects that were not
\* listed and of which Keystone says that they do not exist.
Orphans == {p \in 1..made : p # listed /\ p # project}

SweepShares(a) ==
    /\ at = "sweep" /\ a \in todo
    /\ todo' = todo \ {a}
    /\ \/ /\ Smooth
          /\ grants' = [p \in Projects |-> IF p \in Orphans /\ GrantType[a] = "network"
                                           THEN [grants[p] EXCEPT ![a] = "none"] ELSE grants[p]]
       \/ Mishap /\ UNCHANGED grants
    /\ UNCHANGED <<want, inForce, node, project, made, quota, static, used, at, loaded,
                   measured, failing, attempted, edits>>

EndQuotaPass ==
    /\ Step("sweep", "idle") /\ todo = {}
    /\ UNCHANGED <<want, inForce, node, openstack, used, loaded, measured, todo, failing,
                   attempted, edits, mishaps>>

-----------------------------------------------------------------------------
(* Meanwhile *)

Edit ==
    /\ edits < MaxEdits /\ edits' = edits + 1
    /\ \/ want' \in Wants \ {want} /\ UNCHANGED <<used, inForce>>
       \/ used' \in Uses \ {used} /\ UNCHANGED <<want, inForce>>
       \/ inForce /\ inForce' = FALSE /\ UNCHANGED <<want, used>>
    /\ UNCHANGED <<node, openstack, quotaPass, mishaps>>

\* Keystone deletes the project and nothing else.
DeletedByHand ==
    /\ Mishap /\ project # NoProject /\ made < Cardinality(Projects)
    /\ project' = NoProject
    /\ UNCHANGED <<want, inForce, node, made, quota, static, grants, used, quotaPass, edits>>

\* The next process starts with a pass of its own.
CrashInPass ==
    /\ Mishap /\ at # "idle" /\ at' = "idle"
    /\ UNCHANGED <<want, inForce, node, openstack, used, loaded, measured, todo, failing,
                   attempted, edits>>

QuotasStep ==
    \/ LoadLeaf \/ ReadGrantUse
    \/ CreateProject \/ FillQuotas \/ FillNothing \/ RecordProject
    \/ UpdateQuota("compute", "block") \/ UpdateQuota("block", "measure")
    \/ Measure \/ RecordObservation
    \/ \E a \in Avail : SyncGrant(a) \/ RevokeGrant(a) \/ SweepShares(a)
    \/ GrantsDone \/ RecordSyncErrors \/ ProjectDeleted \/ RevokesDone \/ EndQuotaPass

QuotasNext == QuotasStep \/ Edit \/ DeletedByHand \/ CrashInPass

-----------------------------------------------------------------------------
(* Properties *)

\* "One unreachable service must not stop the other projects, and the next run
\* tries again" (syncGrants, createOpenstackProjectForLeaf): left alone, the
\* project of a node in force has the quotas and the availabilities of its
\* limit, in whatever order calls failed; the node shows no error and the use
\* there is, measured against that limit.
InLine ==
    /\ project # NoProject /\ node.external = project
    /\ quota = QuotaSet(want.limit)
    /\ grants[project] = [a \in Avail |-> IF a \in want.holds THEN "yes" ELSE "none"]
    /\ node.errors = {}
    /\ node.seen = [inUse |-> InUse(used), over |-> Overcommitted(want.limit, used),
                    grantUse |-> UseOfGrants(used)]

CarriedOut == inForce => InLine

\* sweepOrphanedGrants "catches what was left before, what that failed to
\* remove and what goes when a project is deleted by hand": no network stays
\* shared with a project that is gone.
Shares(p) == {a \in Avail : GrantType[a] = "network" /\ grants[p][a] = "yes"}
NoneShared == \A p \in Projects \ {project} : Shares(p) = {}

\* A pass that reaches the availabilities leaves an error on the node for every
\* one that is not as the limit asks: an image whose member was never accepted
\* does not pass for granted, nor does what an earlier pass could not take away.
NothingFailsSilently ==
    [][(at = "errors" /\ attempted = Resources /\ node' # node) =>
       \A a \in Avail \ node'.errors :
            \/ grants[target][a] = IF a \in leaf.holds THEN "yes" ELSE "none"
            \/ target # project]_quotasVars

\* "Quota set failed; project created but quota not applied — will retry on
\* next reconcile tick" (createOpenstackProjectForLeaf).
Retried == inForce => static

QuotaRetried == <>[]Retried

=============================================================================
