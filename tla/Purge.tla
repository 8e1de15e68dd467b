-------------------------------- MODULE Purge --------------------------------
(***************************************************************************)
(* Emptying an OpenStack project and deleting it                           *)
(* (internal/provider/openstack/reconciler/purge.go).                      *)
(*                                                                         *)
(* Deleting is asynchronous in most services, and some things are made     *)
(* again by others as long as those are there. A pass takes everybody out  *)
(* of the project, and once it found nobody there goes through the stages: *)
(* it asks to delete what a stage lists, and goes on to the next stage     *)
(* only if it listed nothing. The last one deletes the project. Each call  *)
(* is a step, and may fail a bounded number of times; the process may end  *)
(* between two steps, and begins with a new pass.                          *)
(***************************************************************************)
EXTENDS Naturals, Sequences, FiniteSets

CONSTANTS
    Items,              \* what may be in the project, or be listed with it
    Kind,               \* the stage each item belongs to
    Foreign,            \* items of other projects, which a listing may return
    Defaults,           \* the "default" security group: listing makes it again
    Makes,              \* what an item makes again, and takes along when it goes
    Holds,              \* what cannot be deleted as long as an item is there
    Users, Groups,      \* who may have a role in the project
    Skip,               \* Config.PurgeSkipStages
    MaxObjects,         \* bound: objects in a bucket
    ObjectsPerPass,     \* objectsPerPass
    MaxFailures,        \* bound: how many calls fail
    MaxRemoved          \* bound: how far deletions are counted

\* PurgeStages: what builds on other things goes first.
PurgeStages ==
    <<"clusters", "stacks", "leases", "load-balancers", "floating-ips", "servers",
      "backups", "snapshots", "volumes", "images", "dns-zones", "object-storage",
      "secret-containers", "secrets", "routers", "ports", "networks", "security-groups">>

Kinds == {PurgeStages[n] : n \in DOMAIN PurgeStages}

PurgeAssumption ==
    /\ Kind \in [Items -> Kinds]
    /\ Foreign \subseteq Items /\ Defaults \subseteq Items
    /\ Makes \in [Items -> SUBSET Items] /\ Holds \in [Items -> SUBSET Items]
    /\ Skip \subseteq Kinds         \* ValidatePurgeSkipStages
    /\ Users \cap Groups = {}
    /\ {MaxObjects, ObjectsPerPass, MaxFailures, MaxRemoved} \subseteq Nat
    /\ ObjectsPerPass > 0

Buckets == {i \in Items \ Foreign : Kind[i] = "object-storage"}
\* Ports that join a router to a subnet, and those of DHCP.
Interfaces(r) == {i \in Items : Kind[i] = "ports" /\ r \in Holds[i]}
Dhcp(i) == \E n \in Items : Kind[n] = "networks" /\ i \in Makes[n]
\* The services of the project session: without one, these stages are empty.
SessionStages ==
    {"clusters", "stacks", "leases", "load-balancers", "dns-zones", "object-storage",
     "secret-containers", "secrets"}
ReportOnly == {"dns-zones", "object-storage"}

VARIABLES
    dryRun, switchedOn,     \* Config.DryRun, Config.PurgeDNSAndObjectStorage
    exists, enabled,        \* the project
    inside,                 \* users and groups with a role in it
    self,                   \* the service user has purgeRole in it
    item,                   \* the items: "absent", "there" or "deleting"
    objects,                \* how many objects a bucket has
    phase,                  \* what the pass does next, "idle" between two
    wasEnabled,             \* project.Enabled, as listed when the pass began
    ready,                  \* access: nobody else was listed so far
    hasSelf,                \* access: the service user's role was listed
    stage,                  \* index of the stage
    asked,                  \* what is still to be removed of what was listed
    left,                   \* the stage listed something
    budget,                 \* objects the pass may still delete
    blocked,                \* the first reason this pass could not finish
    removed,                \* deletions of this pass
    progress,               \* PurgeProgress on the node: step, blocked, and the total
    failures                \* how many calls failed

options == <<dryRun, switchedOn>>
cloud == <<exists, enabled, inside, self, item, objects>>
report == <<blocked, removed>>
purger == <<wasEnabled, ready, hasSelf, stage, asked, left, budget>>
purgeVars == <<options, cloud, phase, purger, report, progress, failures>>

Blocks == {"", "unreachable", "failed", "not_switched_on", "no_session"}
Phases ==
    {"idle", "identity", "members", "users", "groups", "grouproles", "self", "enable",
     "open", "list", "ask", "project", "default"}

PurgeTypeOK ==
    /\ dryRun \in BOOLEAN /\ switchedOn \in BOOLEAN
    /\ exists \in BOOLEAN /\ enabled \in BOOLEAN
    /\ inside \subseteq Users \cup Groups /\ self \in BOOLEAN
    /\ item \in [Items -> {"absent", "there", "deleting"}]
    /\ objects \in [Buckets -> 0..MaxObjects]
    /\ phase \in Phases
    /\ wasEnabled \in BOOLEAN /\ ready \in BOOLEAN /\ hasSelf \in BOOLEAN
    /\ stage \in 1..Len(PurgeStages) + 1
    /\ asked \subseteq Items \cup Users \cup Groups /\ left \in BOOLEAN
    /\ budget \in 0..ObjectsPerPass
    /\ blocked \in Blocks /\ removed \in 0..MaxRemoved
    /\ progress \in [step : Kinds \cup {"", "access", "project"}, blocked : Blocks,
                     total : 0..MaxRemoved]
    /\ failures \in 0..MaxFailures

\* Nothing of a pass outlives it.
Fresh ==
    /\ phase' = "idle"
    /\ wasEnabled' = FALSE /\ ready' = TRUE /\ hasSelf' = FALSE
    /\ stage' = 1 /\ asked' = {} /\ left' = FALSE /\ budget' = ObjectsPerPass
    /\ blocked' = "" /\ removed' = 0

\* Neutron has a default group for every project as soon as it is listed.
PurgeInit ==
    /\ dryRun \in BOOLEAN /\ switchedOn \in BOOLEAN
    /\ dryRun => ~switchedOn      \* it looks into neither stage of the switch
    /\ exists = TRUE /\ enabled \in BOOLEAN
    /\ inside = Users \cup Groups /\ self = FALSE
    /\ item \in [Items -> {"absent", "there"}]
    /\ \A i \in Foreign \cup Defaults : item[i] = "there"
    /\ objects \in [Buckets -> 0..MaxObjects]
    /\ \A b \in Buckets : item[b] = "absent" => objects[b] = 0
    /\ phase = "idle"
    /\ wasEnabled = FALSE /\ ready = TRUE /\ hasSelf = FALSE
    /\ stage = 1 /\ asked = {} /\ left = FALSE /\ budget = ObjectsPerPass
    /\ blocked = "" /\ removed = 0
    /\ progress = [step |-> "", blocked |-> "", total |-> 0]
    /\ failures = 0

-----------------------------------------------------------------------------
(* OpenStack *)

Present(i) == item[i] # "absent"
Held(i) == \E h \in Items : Present(h) /\ i \in Holds[h]
Capped(n) == IF n > MaxRemoved THEN MaxRemoved ELSE n

\* What a deletion that has been carried out leaves.
Vanished(i) == [j \in Items |-> IF j \in {i} \cup Makes[i] THEN "absent" ELSE item[j]]

\* A deletion is accepted, and carried out at once or in the background.
Deletable(i) == item[i] = "there" /\ ~Held(i)

Accepts(i) ==
    /\ Deletable(i)
    /\ \/ item' = [item EXCEPT ![i] = "deleting"]
       \/ item' = Vanished(i)

\* Listing the groups of a project makes the default one again.
ListedItems(kind) ==
    {i \in Items : Kind[i] = kind /\ (Present(i) \/ (i \in Defaults /\ exists))}

OpenStackDeletes(i) ==
    /\ item[i] = "deleting"
    /\ item' = Vanished(i)
    /\ UNCHANGED <<options, exists, enabled, inside, self, objects, phase, purger, report,
                   progress, failures>>

\* A cluster brings back its servers, a server its port.
Remake(i, j) ==
    /\ item[i] = "there" /\ j \in Makes[i] /\ item[j] = "absent"
    /\ item' = [item EXCEPT ![j] = "there"]
    /\ UNCHANGED <<options, exists, enabled, inside, self, objects, phase, purger, report,
                   progress, failures>>

\* Whoever is in the project goes on working in it.
WorkInside(i) ==
    /\ exists /\ enabled /\ inside # {} /\ i \notin Foreign
    /\ \/ /\ item[i] = "absent"
          /\ item' = [item EXCEPT ![i] = "there"]
          /\ UNCHANGED objects
       \/ /\ i \in Buckets /\ item[i] = "there" /\ objects[i] < MaxObjects
          /\ objects' = [objects EXCEPT ![i] = @ + 1]
          /\ UNCHANGED item
    /\ UNCHANGED <<options, exists, enabled, inside, self, phase, purger, report, progress,
                   failures>>

-----------------------------------------------------------------------------
(* A pass *)

Fails == failures < MaxFailures /\ failures' = failures + 1
Block(reason) == blocked' = IF blocked = "" THEN reason ELSE blocked

\* PurgeSteps and recordPurgeProgress: the total of what was removed goes on
\* over the passes. A dry run records nothing, nor does a pass that ends here.
Recorded(step, reason, n) ==
    IF dryRun THEN progress
    ELSE [step |-> step, blocked |-> reason, total |-> Capped(progress.total + n)]

\* A pass that is not done: the rest is for the next one.
Waits(step) ==
    /\ progress' = Recorded(step, blocked, removed)
    /\ Fresh

WaitsBlocked(step, reason) ==
    /\ progress' = Recorded(step, IF blocked = "" THEN reason ELSE blocked, removed)
    /\ Fresh

Begin ==
    /\ phase = "idle" /\ exists
    /\ phase' = "identity" /\ wasEnabled' = enabled
    /\ UNCHANGED <<options, cloud, ready, hasSelf, stage, asked, left, budget, report,
                   progress, failures>>

\* access: the service user, its role, the members, and the groups.
FindSelf ==
    /\ phase = "identity"
    /\ phase' = "members"
    /\ UNCHANGED <<options, cloud, purger, report, progress, failures>>

ListMembers ==
    /\ phase = "members"
    /\ asked' = inside \cap Users /\ hasSelf' = self
    /\ ready' = (asked' = {})
    /\ phase' = "users"
    /\ UNCHANGED <<options, cloud, wasEnabled, stage, left, budget, report, progress, failures>>

ListGroupRoles ==
    /\ phase = "groups"
    /\ asked' = inside \cap Groups
    /\ ready' = (ready /\ asked' = {})
    /\ phase' = "grouproles"
    /\ UNCHANGED <<options, cloud, wasEnabled, hasSelf, stage, left, budget, report, progress,
                   failures>>

\* p.do on a member or a group role.
RemoveRole(who) ==
    /\ phase \in {"users", "grouproles"} /\ who \in asked
    /\ asked' = asked \ {who}
    /\ \/ dryRun /\ UNCHANGED <<inside, report, failures>>
       \/ /\ ~dryRun
          /\ inside' = inside \ {who} /\ removed' = Capped(removed + 1)
          /\ UNCHANGED <<blocked, failures>>
       \/ ~dryRun /\ Fails /\ Block("failed") /\ UNCHANGED <<inside, removed>>
    /\ UNCHANGED <<options, exists, enabled, self, item, objects, phase, wasEnabled, ready,
                   hasSelf, stage, left, budget, progress>>

RolesRemoved ==
    /\ phase \in {"users", "grouproles"} /\ asked = {}
    /\ phase' = IF phase = "users" THEN "groups" ELSE "self"
    /\ UNCHANGED <<options, cloud, purger, report, progress, failures>>

AddSelf ==
    /\ phase = "self"
    /\ self' = (self \/ ~dryRun)
    /\ phase' = "enable"
    /\ UNCHANGED <<options, exists, enabled, inside, item, objects, purger, report, progress,
                   failures>>

Enable ==
    /\ phase = "enable"
    /\ enabled' = (enabled \/ (~wasEnabled /\ ~dryRun))
    /\ phase' = "open"
    /\ UNCHANGED <<options, exists, inside, self, item, objects, purger, report, progress,
                   failures>>

\* Mutant of HasAccess: who was asked to leave counts as gone.
EverybodyAsked == TRUE

\* Members just removed are looked for again in the next pass, before anything
\* is deleted.
HasAccess == ready \/ dryRun

WaitForAccess ==
    /\ phase = "open" /\ ~HasAccess
    /\ Waits("access")
    /\ UNCHANGED <<options, cloud, failures>>

\* A listing, a role, the enabling or the signing in failed.
AccessFails ==
    /\ Fails
    /\ \/ phase \in {"identity", "members", "groups"} /\ WaitsBlocked("access", "unreachable")
       \/ phase = "self" /\ ~hasSelf /\ ~dryRun /\ WaitsBlocked("access", "failed")
       \/ phase = "enable" /\ ~wasEnabled /\ ~dryRun /\ WaitsBlocked("access", "failed")
       \/ phase = "open" /\ HasAccess /\ ~dryRun /\ WaitsBlocked("access", "no_session")
    /\ UNCHANGED <<options, cloud>>

\* The session needs the role and an enabled project. A dry run opens none.
OpenSession ==
    /\ phase = "open" /\ HasAccess
    /\ dryRun \/ (self /\ enabled)
    /\ phase' = "list"
    /\ UNCHANGED <<options, cloud, purger, report, progress, failures>>

-----------------------------------------------------------------------------
(* The stages *)

StageName == PurgeStages[stage]
InStage == phase = "list" /\ stage <= Len(PurgeStages)

\* owned: a listing that ignores the filter must not delete what is not ours.
Owned(kind) == ListedItems(kind) \ Foreign

\* Mutant of Counted: a stage waits for all that is listed.
CountedAll(kind) == ListedItems(kind) \ Foreign

\* What a stage waits for: not for what Neutron keeps itself.
Counted(kind) ==
    {i \in Owned(kind) :
        /\ i \notin Defaults
        /\ kind = "ports" => ~Dhcp(i)}

\* What it asks to delete: not what is on its way out, and with a router what
\* joins it to its subnets.
ToDelete(kind) ==
    LET mine == {i \in Counted(kind) : item[i] = "there"}
    IN  mine \cup {i \in Items :
                    item[i] = "there" /\ \E r \in mine : kind = "routers" /\ i \in Interfaces(r)}

\* The stages that a pass does not look into: those skipped, and those of the
\* session when there is none.
PassedOver == StageName \in Skip \/ (dryRun /\ StageName \in SessionStages)

PassOver ==
    /\ InStage /\ PassedOver
    /\ stage' = stage + 1
    /\ UNCHANGED <<options, cloud, phase, wasEnabled, ready, hasSelf, asked, left, budget,
                   report, progress, failures>>

ListFails ==
    /\ InStage /\ ~PassedOver
    /\ Fails
    /\ WaitsBlocked(StageName, "unreachable")
    /\ UNCHANGED <<options, cloud>>

\* DNS zones and object storage are reported, and hold the project.
HeldBack == StageName \in ReportOnly /\ ~switchedOn

WaitForSwitch ==
    /\ InStage /\ ~PassedOver /\ HeldBack
    /\ Counted(StageName) # {}
    /\ WaitsBlocked(StageName, "not_switched_on")
    /\ UNCHANGED <<options, cloud, failures>>

ListStage ==
    /\ InStage /\ ~PassedOver
    /\ ~(HeldBack /\ Counted(StageName) # {})
    /\ item' = [i \in Items |-> IF i \in ListedItems(StageName) /\ ~Present(i) THEN "there"
                                ELSE item[i]]
    /\ asked' = ToDelete(StageName)
    /\ left' = (Counted(StageName) # {})
    /\ phase' = "ask"
    /\ UNCHANGED <<options, exists, enabled, inside, self, objects, wasEnabled, ready, hasSelf,
                   stage, budget, report, progress, failures>>

\* The ports of a router before the router.
Turn(i) == i \in asked /\ \A j \in asked : i \notin Holds[j]

\* p.do on an item: deleted, refused, or not asked in a dry run.
DeleteItem(i) ==
    /\ phase = "ask" /\ Turn(i) /\ i \notin Buckets
    /\ asked' = asked \ {i}
    /\ \/ dryRun /\ UNCHANGED <<item, report, failures>>
       \/ /\ ~dryRun /\ Accepts(i)
          /\ removed' = Capped(removed + 1)
          /\ UNCHANGED <<blocked, failures>>
       \/ ~dryRun /\ Fails /\ Block("failed") /\ UNCHANGED <<item, removed>>
       \/ ~dryRun /\ ~Deletable(i) /\ Block("failed") /\ UNCHANGED <<item, removed, failures>>
    /\ UNCHANGED <<options, exists, enabled, inside, self, objects, phase, wasEnabled, ready,
                   hasSelf, stage, left, budget, progress>>

\* buckets: up to the budget of the pass is deleted, and the bucket if that
\* shows it is empty, which takes fewer objects than were asked for.
EmptyBucket(b) ==
    LET n == IF objects[b] < budget THEN objects[b] ELSE budget
    IN  /\ phase = "ask" /\ b \in asked \cap Buckets
        /\ asked' = asked \ {b}
        /\ \/ budget = 0 /\ UNCHANGED <<item, objects, budget, report, failures>>
           \/ /\ budget > 0
              /\ objects' = [objects EXCEPT ![b] = @ - n]
              /\ budget' = budget - n
              /\ IF n < budget
                 THEN item' = Vanished(b) /\ removed' = Capped(removed + n + 1)
                 ELSE removed' = Capped(removed + n) /\ UNCHANGED item
              /\ UNCHANGED <<blocked, failures>>
           \/ budget > 0 /\ Fails /\ Block("failed") /\ UNCHANGED <<item, objects, budget, removed>>
        /\ UNCHANGED <<options, exists, enabled, inside, self, phase, wasEnabled, ready,
                       hasSelf, stage, left, progress>>

\* Mutant of StageEmpty: everything that was asked for is gone.
StageAsked ==
    /\ phase = "ask" /\ asked = {}
    /\ stage' = stage + 1 /\ phase' = "list"
    /\ UNCHANGED <<options, cloud, wasEnabled, ready, hasSelf, asked, left, budget, report,
                   progress, failures>>

StageEmpty ==
    /\ phase = "ask" /\ asked = {} /\ ~left
    /\ stage' = stage + 1 /\ phase' = "list"
    /\ UNCHANGED <<options, cloud, wasEnabled, ready, hasSelf, asked, left, budget, report,
                   progress, failures>>

WaitForStage ==
    /\ phase = "ask" /\ asked = {} /\ left
    /\ Waits(StageName)
    /\ UNCHANGED <<options, cloud, failures>>

AllEmpty == phase = "list" /\ stage > Len(PurgeStages)

WouldDelete ==
    /\ AllEmpty /\ dryRun
    /\ Fresh
    /\ UNCHANGED <<options, cloud, progress, failures>>

DeleteProject ==
    /\ AllEmpty /\ ~dryRun
    /\ exists' = FALSE
    /\ phase' = "default"
    /\ UNCHANGED <<options, enabled, inside, self, item, objects, purger, report, progress,
                   failures>>

DeleteProjectFails ==
    /\ AllEmpty /\ ~dryRun
    /\ Fails
    /\ WaitsBlocked("project", "failed")
    /\ UNCHANGED <<options, cloud>>

\* What Neutron keeps of a project that is gone. Each may fail, and stays then.
RemoveDefaults ==
    /\ phase = "default"
    /\ \/ /\ item' = [i \in Items |-> IF i \in Defaults THEN "absent" ELSE item[i]]
          /\ UNCHANGED failures
       \/ Fails /\ UNCHANGED item
    /\ Fresh
    /\ UNCHANGED <<options, exists, enabled, inside, self, objects, progress>>

\* The process ends, and starts again with a new pass.
PurgeCrash ==
    /\ phase # "idle"
    /\ Fails
    /\ Fresh
    /\ UNCHANGED <<options, cloud, progress>>

-----------------------------------------------------------------------------
AccessStep ==
    \/ Begin \/ FindSelf \/ ListMembers \/ ListGroupRoles \/ RolesRemoved
    \/ \E who \in Users \cup Groups : RemoveRole(who)
    \/ AddSelf \/ Enable \/ WaitForAccess \/ AccessFails \/ OpenSession

StageStep ==
    \/ PassOver \/ ListFails \/ WaitForSwitch \/ ListStage
    \/ \E i \in Items : DeleteItem(i)
    \/ \E b \in Buckets : EmptyBucket(b)
    \/ StageEmpty \/ WaitForStage
    \/ WouldDelete \/ DeleteProject \/ DeleteProjectFails \/ RemoveDefaults

Background ==
    \E i \in Items :
        OpenStackDeletes(i) \/ WorkInside(i) \/ \E j \in Items : Remake(i, j)

PurgeStep == AccessStep \/ StageStep

PurgeNext == PurgeStep \/ PurgeCrash \/ Background

-----------------------------------------------------------------------------
(* Properties *)

\* "From here on nobody but the service user gets in" (access): nothing in the
\* project is deleted while somebody still works in it, whichever calls failed
\* and wherever the pass before ended.
LockedOut ==
    [][phase = "ask" /\ asked' # asked /\ item' # item => inside = {}]_purgeVars

\* "Instead of being deleted with things left in it" (purgeRetiredProject):
\* when the project goes, nothing of it is there that no stage was told to
\* pass over: what the stages saw as gone was not made again.
NothingLeftBehind ==
    [][exists /\ ~exists' =>
        \A i \in Items \ (Foreign \cup Defaults) : Kind[i] \in Skip \/ ~Present(i)]_purgeVars

\* The stages in their order empty any project: what is made again, what holds
\* something else, and what belongs to others keeps none for ever.
GoneIfAsked == dryRun \/ ~switchedOn \/ ~exists

\* PurgeStages: their order empties any project that may be emptied.
Emptied == <>[]GoneIfAsked

=============================================================================
