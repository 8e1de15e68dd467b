----------------------------- MODULE Reconciler -----------------------------
(***************************************************************************)
(* One pass of the OpenStack reconciler (internal/provider/openstack/      *)
(* reconciler) after the other, over the projects of the tree and the      *)
(* projects of OpenStack.                                                  *)
(*                                                                         *)
(* A pass loads the nodes in three queries and the OpenStack projects in a *)
(* listing, and works on what it loaded to its end. Each of its calls to   *)
(* OpenStack or to the store is a step here; between two steps the users   *)
(* of the tree and of OpenStack do what they may do, and the process may   *)
(* end, to begin with a new pass. A call may fail wherever the code goes   *)
(* on without it. Emptying a project before it is deleted is module Purge; *)
(* here it takes a number of passes nobody knows.                          *)
(*                                                                         *)
(* A node is a project of the tree. "approved" stands for both statuses    *)
(* the reconciler carries out, approved and change_pending.                *)
(***************************************************************************)
EXTENDS Naturals, FiniteSets, Functions

CONSTANTS
    Leaves,         \* ids of the project nodes
    Projects,       \* ids of the OpenStack projects
    None,           \* no project, no node, no tag
    Archives,       \* Config.ReleasedArchive
    DeleteMode,     \* Config.ReleasedDelete
    Scoped,         \* Config.ScopeParentID is set: untagged projects are listed too
    MaxFaults       \* bound: how often people tamper with a project in OpenStack

ASSUME ConstantsAssumption ==
    /\ None \notin Leaves \cup Projects
    /\ Archives \in BOOLEAN /\ Scoped \in BOOLEAN
    /\ DeleteMode \in {"never", "on-request", "after-grace", "immediately"}
    /\ MaxFaults \in Nat

VARIABLES
    node,       \* the project nodes as stored
    project,    \* the OpenStack projects
    step,       \* what the pass does next, "idle" between two passes
    active,     \* activeLeaves, as loaded
    known,      \* knownLeafIDs
    retired,    \* releasedLeafByID: what is left of it
    imports,    \* importedByOSProjectID: what is left of it
    listed,     \* osProjectByOSID: what is left of it, with the tags as listed
    byNode,     \* osProjectByResourceID: the project of a node, with its tags
    claimed,    \* the keys of claimedOSProjects
    todo,       \* what the loop the pass is in has still to go through
    at,         \* the node and the project the pass is in the middle of
    faults      \* how often they did

loaded == <<active, known, retired, imports>>
maps == <<listed, byNode, claimed>>
pass == <<step, loaded, maps, todo, at>>
vars == <<node, project, pass, faults>>

\* "new" and "deleted" nodes do not exist; an id is used once.
Statuses ==
    {"new", "imported", "pending", "approved", "rejected", "released", "archived", "deleted"}

NodeRecords ==
    [status : Statuses,
     external : Projects \cup {None},   \* Binding.ExternalID at OpenStack
     promote : BOOLEAN,                 \* FlagPromoteOnReconcile
     delete : BOOLEAN]                  \* FlagDeleteRequested

\* The tags that decide something; whether the others the reconciler writes
\* (status, contact, termination) have changed is left open.
Tags ==
    [managed : BOOLEAN,
     node : Leaves \cup {None},                \* the resource-id tag
     deletion : {"none", "announced", "due"},  \* the pending-deletion tag: its day
     archived : BOOLEAN]

ProjectRecords ==
    [state : {"unborn", "there", "gone"}, enabled : BOOLEAN, tags : Tags]

NoNode == [status |-> "new", external |-> None, promote |-> FALSE, delete |-> FALSE]
NoTags == [managed |-> FALSE, node |-> None, deletion |-> "none", archived |-> FALSE]
NoProject == [state |-> "unborn", enabled |-> FALSE, tags |-> NoTags]
Gone == [NoProject EXCEPT !.state = "gone"]
Deleted == [NoNode EXCEPT !.status = "deleted"]

Empty == [x \in {} |-> x]
Without(f, S) == Restrict(f, DOMAIN f \ S)
With(f, x, v) == [y \in DOMAIN f \cup {x} |-> IF y = x THEN v ELSE f[y]]

Steps ==
    {"idle", "known", "projects", "promote", "adopt", "leaves", "shadow",
     "observe", "record", "found", "end", "remove", "removals"}

TypeOK ==
    /\ node \in [Leaves -> NodeRecords]
    /\ project \in [Projects -> ProjectRecords]
    /\ step \in Steps
    /\ DOMAIN active \subseteq Leaves /\ \A l \in DOMAIN active : active[l] \in NodeRecords
    /\ known \subseteq Leaves
    /\ DOMAIN retired \subseteq Leaves /\ \A l \in DOMAIN retired : retired[l] \in NodeRecords
    /\ DOMAIN imports \subseteq Projects /\ \A p \in DOMAIN imports : imports[p] \in Leaves
    /\ DOMAIN listed \subseteq Projects /\ \A p \in DOMAIN listed : listed[p] \in Tags
    /\ DOMAIN byNode \subseteq Leaves
    /\ \A l \in DOMAIN byNode : byNode[l].id \in Projects /\ byNode[l].tags \in Tags
    /\ claimed \subseteq Projects
    /\ todo \subseteq Leaves \cup Projects
    /\ at \in (Leaves \cup {None}) \X (Projects \cup {None})
    /\ faults \in 0..MaxFaults

-----------------------------------------------------------------------------
Stored(l) == node[l].status \notin {"new", "deleted"}
There(p) == project[p].state = "there"

\* Mutant of IsRetired: every status but those in force.
IsNotInForce(s) == s \in {"pending", "rejected", "released", "archived"}

\* model.IsRetiredStatus
IsRetired(s) == s \in {"released", "archived"}
\* model.KnownStatuses: every status but imported.
IsKnown(s) == s \in {"pending", "approved", "rejected", "released", "archived"}

Having(P(_)) == [l \in {m \in Leaves : P(node[m].status)} |-> node[l]]

\* Nothing of a pass outlives it.
Forgotten ==
    /\ step' = "idle"
    /\ active' = Empty /\ known' = {} /\ retired' = Empty /\ imports' = Empty
    /\ listed' = Empty /\ byNode' = Empty /\ claimed' = {}
    /\ todo' = {} /\ at' = <<None, None>>

Init ==
    /\ node = [l \in Leaves |-> NoNode]
    /\ project = [p \in Projects |-> NoProject]
    /\ step = "idle"
    /\ active = Empty /\ known = {} /\ retired = Empty /\ imports = Empty
    /\ listed = Empty /\ byNode = Empty /\ claimed = {}
    /\ todo = {} /\ at = <<None, None>>
    /\ faults = 0

-----------------------------------------------------------------------------
(* The OpenStack client *)

\* UpdateProject with a list of tags, and perhaps a new state: the list
\* replaces every tag the project has by then.
Update(p, tags, enabled) ==
    /\ There(p)
    /\ project' = [project EXCEPT ![p].tags = tags, ![p].enabled = enabled]

Retag(p, tags) == Update(p, tags, project[p].enabled)

\* Mutant of TagsFor: written without those there were.
TagsForAfresh(l, tags) == [NoTags EXCEPT !.managed = TRUE, !.node = l]

\* TagProjectForNode: made from the tags as listed.
TagsFor(l, tags) == [tags EXCEPT !.managed = TRUE, !.node = l]

\* CreateManagedProject: the tags are there from the start.
Create(p, l) ==
    /\ project[p].state = "unborn"
    /\ project' = [project EXCEPT ![p] =
            [state |-> "there", enabled |-> TRUE, tags |-> TagsFor(l, NoTags)]]

\* CollectProjectsByParent, or CollectManagedProjects.
InScope(p) == There(p) /\ (Scoped \/ project[p].tags.managed)

-----------------------------------------------------------------------------
(* Phases 1 and 2: what the pass works on *)

LoadActive ==
    /\ step = "idle"
    /\ active' = Having(LAMBDA s : s = "approved")
    /\ step' = "known"
    /\ UNCHANGED <<node, project, known, retired, imports, maps, todo, at, faults>>

LoadKnown ==
    /\ step = "known"
    /\ known' = DOMAIN Having(IsKnown)
    /\ retired' = Having(IsRetired)
    /\ step' = "projects"
    /\ UNCHANGED <<node, project, active, imports, maps, todo, at, faults>>

\* The imports, then the projects. The flagged imports are gone through next.
LoadProjects ==
    LET found == DOMAIN Having(LAMBDA s : s = "imported")
        scope == {p \in Projects : InScope(p)}
        of(l) == {p \in scope : project[p].tags.node = l}
        named == {l \in Leaves : of(l) # {}}
    IN  /\ step = "projects"
        /\ imports' \in [{node[l].external : l \in found} -> found]
        /\ \A p \in DOMAIN imports' : node[imports'[p]].external = p
        /\ listed' = [p \in scope |-> project[p].tags]
        /\ \E f \in [named -> scope] :
            /\ \A l \in named : f[l] \in of(l)
            /\ byNode' = [l \in named |-> [id |-> f[l], tags |-> project[f[l]].tags]]
        /\ step' = "promote"
        /\ todo' = {l \in found : node[l].promote}
        /\ UNCHANGED <<node, project, active, known, retired, claimed, at, faults>>

\* A list that cannot be loaded ends the pass.
LoadFails ==
    /\ step \in {"known", "projects"}
    /\ Forgotten
    /\ UNCHANGED <<node, project, faults>>

-----------------------------------------------------------------------------
(* Phase 2.5: imports somebody adopted *)

ImportAt(l, p) == p \in DOMAIN imports /\ imports[p] = l

\* promoteImportedLeaves, first half.
TagForPromotion(l, p) ==
    /\ step = "promote" /\ l \in todo
    /\ ImportAt(l, p) /\ p \in DOMAIN listed
    /\ Retag(p, TagsFor(l, listed[p]))
    /\ step' = "adopt" /\ at' = <<l, p>>
    /\ UNCHANGED <<node, loaded, maps, todo, faults>>

\* Its project is not listed, or could not be tagged.
SkipPromotion(l) ==
    /\ step = "promote" /\ l \in todo
    /\ todo' = todo \ {l}
    /\ UNCHANGED <<node, project, step, loaded, maps, at, faults>>

CanPromote(l) == node[l].status = "imported" /\ node[l].promote

\* Mutant of Promote: phase 5 still sees the project.
PromoteListed(l, p) ==
    /\ step = "adopt" /\ at = <<l, p>>
    /\ CanPromote(l)
    /\ node' = [node EXCEPT ![l].status = "pending", ![l].promote = FALSE]
    /\ byNode' = With(byNode, l, [id |-> p, tags |-> listed[p]])
    /\ imports' = Without(imports, {p})
    /\ step' = "promote" /\ todo' = todo \ {l} /\ at' = <<None, None>>
    /\ UNCHANGED <<project, active, known, retired, listed, claimed, faults>>

\* ProviderSync.Promote. The tags in byNode are still those listed.
Promote(l, p) ==
    /\ step = "adopt" /\ at = <<l, p>>
    /\ CanPromote(l)
    /\ node' = [node EXCEPT ![l].status = "pending", ![l].promote = FALSE]
    /\ byNode' = With(byNode, l, [id |-> p, tags |-> listed[p]])
    /\ listed' = Without(listed, {p})
    /\ imports' = Without(imports, {p})
    /\ step' = "promote" /\ todo' = todo \ {l} /\ at' = <<None, None>>
    /\ UNCHANGED <<project, active, known, retired, claimed, faults>>

\* The members could not be read, or the node is no import any more. The
\* project keeps its new tag.
PromotionFails(l) ==
    /\ step = "adopt" /\ at[1] = l
    /\ step' = "promote" /\ todo' = todo \ {l} /\ at' = <<None, None>>
    /\ UNCHANGED <<node, project, loaded, maps, faults>>

StartLeaves ==
    /\ step = "promote" /\ todo = {}
    /\ step' = "leaves" /\ todo' = DOMAIN active
    /\ UNCHANGED <<node, project, loaded, maps, at, faults>>

-----------------------------------------------------------------------------
(* Phase 4: a project for every active node *)

\* Mutant of Recoverable: only a project that is no import.
RecoverableUnlessImported(l, p) ==
    /\ p = active[l].external
    /\ p \in DOMAIN listed \ DOMAIN imports
    /\ listed[p].node \in {None, l}
    /\ p \notin claimed

\* chooseRecoverableProject
Recoverable(l, p) ==
    /\ p = active[l].external
    /\ p \in DOMAIN listed
    /\ listed[p].node \in {None, l}
    /\ p \notin claimed

\* recoverUntaggedProject: the node keeps the project, its tag is put back if
\* OpenStack accepts that. An import of the same project goes next.
Recover(l, p) ==
    /\ step = "leaves" /\ l \in todo \ DOMAIN byNode
    /\ Recoverable(l, p)
    /\ \/ /\ Retag(p, TagsFor(l, listed[p]))
          /\ byNode' = With(byNode, l, [id |-> p, tags |-> [listed[p] EXCEPT !.node = l]])
       \/ /\ byNode' = With(byNode, l, [id |-> p, tags |-> listed[p]])
          /\ UNCHANGED project
    /\ claimed' = claimed \cup {p}
    /\ listed' = Without(listed, {p})
    /\ imports' = Without(imports, {p})
    /\ IF p \in DOMAIN imports
       THEN step' = "shadow" /\ at' = <<imports[p], p>>
       ELSE UNCHANGED <<step, at>>
    /\ UNCHANGED <<node, active, known, retired, todo, faults>>

\* ProviderSync.RemoveImport
RemovedImport(l) ==
    IF node[l].status = "imported" THEN [node EXCEPT ![l] = Deleted]
    ELSE node

RemoveShadow ==
    /\ step = "shadow"
    /\ node' = RemovedImport(at[1]) \/ UNCHANGED node
    /\ step' = "leaves" /\ at' = <<None, None>>
    /\ UNCHANGED <<project, loaded, maps, todo, faults>>

\* Mutant of CreateProject: for a node without a recorded project.
CreateProjectUnlessRecorded(l, p) ==
    /\ step = "leaves" /\ l \in todo
    /\ active[l].external = None
    /\ Create(p, l)
    /\ step' = "record" /\ at' = <<l, p>>
    /\ UNCHANGED <<node, loaded, maps, todo, faults>>

\* createOpenstackProjectForLeaf
CreateProject(l, p) ==
    /\ step = "leaves" /\ l \in todo \ DOMAIN byNode
    /\ \A q \in Projects : ~Recoverable(l, q)
    /\ Create(p, l)
    /\ step' = "record" /\ at' = <<l, p>>
    /\ UNCHANGED <<node, loaded, maps, todo, faults>>

\* RecordExternalID, RecordObservation: on the node as it is, whatever its
\* status; no node, no write.
Recorded(l, p) == IF Stored(l) THEN [node EXCEPT ![l].external = p] ELSE node

\* persistOSProjectID, persistOSSyncState; a failure is only logged.
RecordExternalID ==
    /\ step \in {"record", "observe"}
    /\ node' = Recorded(at[1], at[2]) \/ UNCHANGED node
    /\ step' = "leaves" /\ todo' = todo \ {at[1]} /\ at' = <<None, None>>
    /\ UNCHANGED <<project, loaded, maps, faults>>

\* syncQuota, with syncManagedTags: if one of the tags it writes has changed, all
\* are written, from the tags the pass has.
SyncProject(l) ==
    LET p == byNode[l].id
        tags == byNode[l].tags
    IN  /\ step = "leaves" /\ l \in todo \cap DOMAIN byNode
        /\ There(p)
        /\ Retag(p, tags) \/ UNCHANGED project
        /\ step' = "observe" /\ at' = <<l, p>>
        /\ UNCHANGED <<node, loaded, maps, todo, faults>>

\* The quota was refused, or no project could be created: the next pass tries
\* again.
SkipLeaf(l) ==
    /\ step = "leaves" /\ l \in todo
    /\ l \in DOMAIN byNode \/ \A q \in Projects : ~Recoverable(l, q)
    /\ todo' = todo \ {l}
    /\ UNCHANGED <<node, project, step, loaded, maps, at, faults>>

\* What nothing below reads is forgotten.
StartProjects ==
    /\ step = "leaves" /\ todo = {}
    /\ step' = "found" /\ todo' = DOMAIN listed
    /\ byNode' = Empty /\ claimed' = {}
    /\ UNCHANGED <<node, project, loaded, listed, at, faults>>

-----------------------------------------------------------------------------
(* Phase 5: what to do about every other project *)

\* The node the tag of a listed project names.
Tagged(p) == listed[p].node

Belongs(p) == Tagged(p) \in DOMAIN active
Released(p) == ~Belongs(p) /\ Tagged(p) \in DOMAIN retired
Tracked(p) == ~Belongs(p) /\ ~Released(p) /\ Tagged(p) \in known

\* Carried out above, or of a node that waits for a decision. Its import, if it
\* has one, is kept.
LeaveProject(p) ==
    /\ step = "found" /\ p \in todo
    /\ Belongs(p) \/ Tracked(p)
    /\ todo' = todo \ {p}
    /\ UNCHANGED <<node, project, step, loaded, maps, at, faults>>

\* upsertImported: a project nobody knows becomes a new import. One that is an
\* import already is refreshed: nothing of that is kept here. Either may fail.
Import(p) ==
    /\ step = "found" /\ p \in todo
    /\ ~Belongs(p) /\ ~Released(p) /\ ~Tracked(p)
    /\ \/ /\ p \notin DOMAIN imports
          /\ \E l \in Leaves :
                /\ node[l].status = "new"
                /\ node' = [node EXCEPT ![l].status = "imported", ![l].external = p]
       \/ UNCHANGED node
    /\ imports' = Without(imports, {p})
    /\ todo' = todo \ {p}
    /\ UNCHANGED <<project, step, active, known, retired, maps, at, faults>>

\* tagReleasedProject: the day of the deletion is set once, and stays.
TagsOfReleased(tags) ==
    [tags EXCEPT !.deletion = IF tags.deletion = "none" THEN "announced" ELSE tags.deletion]

\* handleReleasedProject, first half. What it goes on with are the tags it
\* wrote, or those listed if that failed.
TagReleased(p) ==
    LET l == Tagged(p)
        tags == TagsOfReleased(listed[p])
    IN  /\ step = "found" /\ p \in todo
        /\ Released(p)
        /\ \/ Retag(p, tags) /\ listed' = [listed EXCEPT ![p] = tags]
           \/ UNCHANGED <<project, listed>>
        /\ step' = "end" /\ at' = <<l, p>>
        /\ UNCHANGED <<node, loaded, byNode, claimed, todo, faults>>

\* deletionDue
DeletionDue(l, p) ==
    \/ DeleteMode = "immediately"
    \/ DeleteMode \in {"on-request", "after-grace"} /\ retired[l].delete
    \/ DeleteMode = "after-grace" /\ listed[p].deletion = "due"

\* Mutant of Handled: the node stays a candidate for removal.
HandledProject ==
    /\ step' = "found" /\ at' = <<None, None>>
    /\ todo' = todo \ {at[2]}
    /\ imports' = Without(imports, {at[2]})
    /\ UNCHANGED <<active, known, retired, faults>>

\* handleReleasedProject has come to its end: the node is no candidate for
\* removal below, and the project no import.
Handled ==
    /\ step' = "found" /\ at' = <<None, None>>
    /\ todo' = todo \ {at[2]}
    /\ retired' = Without(retired, {at[1]})
    /\ imports' = Without(imports, {at[2]})
    /\ UNCHANGED <<active, known, faults>>

\* purgeRetiredProject: not empty yet. To get in, the project is enabled.
PurgeGoesOn ==
    /\ step = "end" /\ DeletionDue(at[1], at[2])
    /\ Update(at[2], project[at[2]].tags, TRUE) \/ UNCHANGED project
    /\ Handled
    /\ UNCHANGED <<node, maps>>

\* purgeRetiredProject: deleted; the node goes next.
PurgeDeletes ==
    /\ step = "end" /\ DeletionDue(at[1], at[2])
    /\ There(at[2])
    /\ project' = [project EXCEPT ![at[2]] = Gone]
    /\ step' = "remove"
    /\ UNCHANGED <<node, loaded, maps, todo, at, faults>>

\* Mutant of RemovedRetired: removed only by name.
MarkedRemoved(l) == [node EXCEPT ![l].status = "removed"]

\* ProviderSync.RemoveRetired, of a node only OpenStack carries out.
RemovedRetired(l) ==
    IF IsRetired(node[l].status) THEN [node EXCEPT ![l] = Deleted] ELSE node

RemovePurged ==
    /\ step = "remove"
    /\ node' = RemovedRetired(at[1]) \/ UNCHANGED node
    /\ Handled
    /\ UNCHANGED <<project, maps>>

\* archiveReleasedProject: everything went through, and one write disables and
\* marks the project.
ArchiveProject ==
    LET p == at[2]
    IN  /\ step = "end" /\ ~DeletionDue(at[1], p)
        /\ Archives /\ ~listed[p].archived
        /\ Update(p, [listed[p] EXCEPT !.archived = TRUE], FALSE)
        /\ listed' = [listed EXCEPT ![p].archived = TRUE]
        /\ UNCHANGED <<node, step, loaded, byNode, claimed, todo, at, faults>>

\* ProviderSync.MarkArchived
MarkArchived ==
    LET l == at[1]
    IN  /\ step = "end" /\ ~DeletionDue(l, at[2])
        /\ listed[at[2]].archived /\ retired[l].status = "released"
        /\ \/ /\ node[l].status = "released"
              /\ node' = [node EXCEPT ![l].status = "archived"]
           \/ UNCHANGED node
        /\ Handled
        /\ UNCHANGED <<project, maps>>

\* Nothing is due, or archiving it is not complete.
KeepReleased ==
    /\ step = "end" /\ ~DeletionDue(at[1], at[2])
    /\ listed[at[2]].archived => retired[at[1]].status = "archived"
    /\ Handled
    /\ UNCHANGED <<node, project, maps>>

\* removeReleasedLeavesWithoutProject: the project of the node is not listed.
LostProject(l) == retired[l].external \notin DOMAIN listed

StartRemovals ==
    /\ step = "found" /\ todo = {}
    /\ step' = "removals"
    /\ todo' = {imports[p] : p \in DOMAIN imports \ DOMAIN listed}
                    \cup {l \in DOMAIN retired : LostProject(l)}
    /\ known' = {} /\ imports' = Empty
    /\ UNCHANGED <<node, project, active, retired, maps, at, faults>>

\* removeStaleImports
RemoveStaleImport(l) ==
    /\ step = "removals" /\ l \in todo \ DOMAIN retired
    /\ node' = RemovedImport(l) \/ UNCHANGED node
    /\ todo' = todo \ {l}
    /\ UNCHANGED <<project, step, loaded, maps, at, faults>>

RemoveLost(l) ==
    /\ step = "removals" /\ l \in todo \cap DOMAIN retired
    /\ node' = RemovedRetired(l) \/ UNCHANGED node
    /\ todo' = todo \ {l}
    /\ UNCHANGED <<project, step, loaded, maps, at, faults>>

EndPass ==
    /\ step = "removals" /\ todo = {}
    /\ Forgotten
    /\ UNCHANGED <<node, project, faults>>

-----------------------------------------------------------------------------
(* Meanwhile: the users of the tree *)

Becomes(l, s) == node' = [node EXCEPT ![l].status = s] /\ UNCHANGED <<project, pass, faults>>

Request(l) == node[l].status = "new" /\ Becomes(l, "pending")

Decide(l) == node[l].status = "pending" /\ (Becomes(l, "approved") \/ Becomes(l, "rejected"))

Release(l) == node[l].status = "approved" /\ Becomes(l, "released")

\* RequestDeletion; only where the reconciler acts on it.
RequestDeletion(l) ==
    /\ DeleteMode # "never"
    /\ IsRetired(node[l].status) /\ ~node[l].delete
    /\ node' = [node EXCEPT ![l].delete = TRUE]
    /\ UNCHANGED <<project, pass, faults>>

\* PromoteNode
AskPromotion(l) ==
    /\ node[l].status = "imported" /\ ~node[l].promote
    /\ node' = [node EXCEPT ![l].promote = TRUE]
    /\ UNCHANGED <<project, pass, faults>>

\* DeleteNode: the budget above it goes, and a node nobody uses with it.
Discard(l) ==
    /\ node[l].status = "rejected" \/ IsRetired(node[l].status)
    /\ node' = [node EXCEPT ![l] = Deleted]
    /\ UNCHANGED <<project, pass, faults>>

UseTree ==
    \E l \in Leaves :
        \/ Request(l) \/ Decide(l) \/ Release(l) \/ RequestDeletion(l) \/ AskPromotion(l)
        \/ Discard(l)

-----------------------------------------------------------------------------
(* Meanwhile: the users of OpenStack *)

\* A project is created there, without this service.
AppearProject(p) ==
    /\ project[p].state = "unborn"
    /\ project' = [project EXCEPT ![p].state = "there", ![p].enabled = TRUE]
    /\ UNCHANGED <<node, pass, faults>>

\* The announced day has come.
GraceEnds(p) ==
    /\ There(p) /\ project[p].tags.deletion = "announced"
    /\ project' = [project EXCEPT ![p].tags.deletion = "due"]
    /\ UNCHANGED <<node, pass, faults>>

Fault == faults < MaxFaults /\ faults' = faults + 1

\* A project admin removes the tag of the node.
DropTag(p) ==
    /\ Fault
    /\ There(p) /\ project[p].tags.node # None
    /\ project' = [project EXCEPT ![p].tags.node = None]
    /\ UNCHANGED <<node, pass>>

\* An operator deletes the project, or moves it out of scope.
DeleteProject(p) ==
    /\ Fault
    /\ There(p)
    /\ project' = [project EXCEPT ![p] = Gone]
    /\ UNCHANGED <<node, pass>>

UseOpenStack ==
    \E p \in Projects : AppearProject(p) \/ GraceEnds(p) \/ DropTag(p) \/ DeleteProject(p)

\* The process ends, and starts again with a new pass.
Crash ==
    /\ step # "idle"
    /\ Forgotten
    /\ UNCHANGED <<node, project, faults>>

-----------------------------------------------------------------------------
LoadStep == LoadActive \/ LoadKnown \/ LoadProjects \/ LoadFails

PromoteStep ==
    \/ \E l \in Leaves :
        \/ SkipPromotion(l) \/ PromotionFails(l)
        \/ \E p \in Projects : TagForPromotion(l, p) \/ Promote(l, p)
    \/ StartLeaves

LeafStep ==
    \/ \E l \in Leaves :
        \/ SyncProject(l) \/ SkipLeaf(l)
        \/ \E p \in Projects : Recover(l, p) \/ CreateProject(l, p)
    \/ RemoveShadow \/ RecordExternalID \/ StartProjects

ProjectStep ==
    \/ \E p \in Projects : LeaveProject(p) \/ Import(p) \/ TagReleased(p)
    \/ PurgeGoesOn \/ PurgeDeletes \/ RemovePurged
    \/ ArchiveProject \/ MarkArchived \/ KeepReleased

RemovalStep ==
    \/ StartRemovals \/ EndPass
    \/ \E l \in Leaves : RemoveStaleImport(l) \/ RemoveLost(l)

PassStep == LoadStep \/ PromoteStep \/ LeafStep \/ ProjectStep \/ RemovalStep

Next == PassStep \/ UseTree \/ UseOpenStack \/ Crash

Spec == Init /\ [][Next]_vars

-----------------------------------------------------------------------------
(* Properties *)

\* The tag alone finds the project of a node, so two projects with the tag of
\* one node would be served and deleted by turns. No crash between creating a
\* project and recording it, and no call that fails, leads to a second one.
OneProjectPerNode ==
    \A p, q \in {r \in Projects : There(r) /\ project[r].tags.node # None} :
        project[p].tags.node = project[q].tags.node => p = q

\* "A duplicate project is far worse than a tag that is restored one tick
\* later" (recoverUntaggedProject): while the recorded project of a node is
\* there and not tagged for another one, no other is created for it, whoever
\* removed its tag, and whenever the process ended; unless the pass has just
\* given it to another node it was recorded on as well, as an import.
CreatedFor(l, p) == project[p].state = "unborn" /\ There(p)' /\ project'[p].tags.node = l

GivenToAnother(l, q) == \E m \in DOMAIN byNode \ {l} : byNode[m].id = q

NoSecondProject ==
    [][\A l \in Leaves, p, q \in Projects :
        CreatedFor(l, p) /\ node[l].external = q /\ There(q)
            => /\ project[q].tags.node # l
               /\ project[q].tags.node = None => GivenToAnother(l, q)]_vars

\* The pass takes the project from its users: disables or deletes it.
Ends(p) ==
    /\ There(p) /\ faults' = faults
    /\ There(p)' => project[p].enabled /\ ~project'[p].enabled

\* Archiving and deleting go by a list of nodes that is old by then, and by a
\* tag. Neither ever hits the project of a node in force.
EndsOnlyRetired ==
    [][\A p \in Projects, l \in Leaves :
        Ends(p) /\ node[l].status = "approved"
            => project[p].tags.node # l /\ (faults = 0 => node[l].external # p)]_vars

\* A node the pass carried out as active and found released as well, because
\* it was released between the two queries.
ReleasedWhileLoading(l) == l \in DOMAIN active \cap DOMAIN retired

\* The pass deletes the record of a retired node.
Removes(l) ==
    /\ IsRetired(node[l].status) /\ node'[l].status = "deleted"
    /\ step \in {"remove", "removals"} /\ ~ReleasedWhileLoading(l)
    /\ todo' # todo

\* "Not in the list can never mean the list did not load"
\* (removeReleasedLeavesWithoutProject): the record of a retired node goes
\* only when there is no project with its tag.
RemovedOnlyWithoutProject ==
    [][\A l \in Leaves, p \in Projects :
        Removes(l) /\ There(p) => project[p].tags.node # l]_vars

\* An OpenStack project is shown as one import, however often it is found, and
\* unless people change tags or delete projects in OpenStack, it is recorded on
\* one node: what is adopted was nobody's.
OneNodePerProject ==
    \A l, m \in {n \in Leaves : node[n].external # None} :
        /\ node[l].external = node[m].external
        /\ faults = 0 \/ {node[l].status, node[m].status} = {"imported"}
        => l = m

\* The day of the deletion is set once: a tag update made from the tags of an
\* older listing never takes it back.
DeletionDayStays ==
    [][\A p \in Projects :
        project[p].tags.deletion # "none" /\ There(p)' => project'[p].tags.deletion # "none"]_vars

=============================================================================
