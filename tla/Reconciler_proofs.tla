--------------------------- MODULE Reconciler_proofs ---------------------------
(***************************************************************************)
(* Proofs about Reconciler, for any nodes, any projects, every             *)
(* configuration and any number of faults.                                 *)
(*                                                                         *)
(* A pass works on what it loaded while everybody goes on. Safe says what  *)
(* stays true of that: which tags, in OpenStack or in what the pass still  *)
(* believes of a project, can name a node (MarkedOnce, MarkedStored,       *)
(* UnservedUnmarked), how the lists it holds belong together (ViewsHold,   *)
(* RetiredListed, RecordKept, ImportsOnce), and what can have changed      *)
(* since they were loaded (StatusesHold, DayKnown, OthersMark).            *)
(* Undisturbed adds what holds as long as nobody tampers with a project in *)
(* OpenStack.                                                              *)
(***************************************************************************)
EXTENDS Reconciler, TLAPS

-----------------------------------------------------------------------------
(* The stages of a pass *)

Loading == {"idle", "known", "projects"}
Promoting == {"promote", "adopt"}
Serving == {"leaves", "shadow", "observe", "record"}
Finding == {"found", "end", "remove"}

\* The identifier has been given out by OpenStack, which gives none out twice.
Born(p) == project[p].state # "unborn"

\* Node l shows project p as an import.
ImportOf(l, p) == node[l].status = "imported" /\ node[l].external = p

\* Somebody may take project p for the project of node l: its tag says so, or a
\* tag the pass has loaded, and may write again.
Marked(p, l) ==
    /\ There(p)
    /\ \/ project[p].tags.node = l
       \/ p \in DOMAIN listed /\ listed[p].node = l
       \/ \E m \in DOMAIN byNode : byNode[m].id = p /\ byNode[m].tags.node = l

\* The active nodes phase 4 has still to find or create a project for.
Unserved ==
    IF step \in Promoting THEN DOMAIN active \ DOMAIN byNode
    ELSE IF step \in Serving
         THEN (todo \ DOMAIN byNode) \ (IF step = "record" THEN {at[1]} ELSE {})
         ELSE {}

\* The active nodes whose recorded project cannot have changed since they were
\* loaded.
Unrecorded == IF step \in {"known", "projects"} THEN DOMAIN active ELSE Unserved

-----------------------------------------------------------------------------
(* The inductive invariant *)

\* What the pass has still to go through, and what it is in the middle of.
Placed ==
    /\ step \in Loading =>
        DOMAIN listed = {} /\ DOMAIN byNode = {} /\ DOMAIN imports = {} /\ claimed = {}
    /\ step \in Finding \cup {"removals"} => DOMAIN byNode = {}
    /\ step \in Promoting => todo \subseteq Leaves
    /\ step \in Serving => todo \subseteq DOMAIN active
    /\ step \in Finding => todo \subseteq DOMAIN listed
    /\ step = "adopt" =>
        /\ at[1] \in todo
        /\ at[2] \in DOMAIN imports \cap DOMAIN listed /\ imports[at[2]] = at[1]
    /\ step = "shadow" => at[1] \in Leaves
    /\ step \in {"observe", "record"} => at[1] \in todo /\ at[2] \in Projects
    /\ step = "observe" => at[1] \in DOMAIN byNode /\ at[2] = byNode[at[1]].id
    /\ step = "record" => at[1] \notin DOMAIN byNode
    /\ step \in {"end", "remove"} =>
        /\ at[2] \in todo
        /\ at[1] \in DOMAIN retired \ DOMAIN active
        /\ listed[at[2]].node = at[1]
    /\ claimed \cap DOMAIN listed = {}

\* A project is named only once there is one, and loses its tags with its end.
BornFirst ==
    /\ \A p \in Projects : ~There(p) =>
        project[p].tags.node = None /\ project[p].tags.deletion = "none"
    /\ \A p \in DOMAIN listed : Born(p)
    /\ \A l \in DOMAIN byNode : Born(byNode[l].id)
    /\ \A l \in Leaves : node[l].external # None => Born(node[l].external)
    /\ step = "record" => Born(at[2])
    /\ step = "remove" => ~There(at[2])

\* What a node was when it was loaded limits what it is now.
StatusesHold ==
    /\ \A l \in Leaves :
        /\ node[l].status \in {"new", "deleted"} => node[l].external = None
        /\ node[l].status = "imported" => node[l].external # None
    /\ \A l \in DOMAIN active : node[l].status \in {"approved", "released", "archived", "deleted"}
    /\ \A l \in DOMAIN retired : node[l].status \in {"released", "archived", "deleted"}
    /\ \A l \in known : node[l].status \notin {"new", "imported"}
    /\ step \in Promoting => \A p \in DOMAIN imports : ImportOf(imports[p], p)

\* No two projects can come to be taken for the project of one node.
MarkedOnce ==
    \A l \in Leaves, p, q \in Projects : Marked(p, l) /\ Marked(q, l) => p = q

\* An import is marked on the project it shows, or on none.
MarkedStored ==
    \A l \in Leaves, p \in Projects : Marked(p, l) =>
        /\ node[l].status # "new"
        /\ node[l].status = "imported" => node[l].external = p

\* For a node that a project may still be created for, there is none to be found.
UnservedUnmarked == \A l \in Unserved, p \in Projects : ~Marked(p, l)

\* Where only projects with the managed tag are listed, every project that is
\* named, or names a node, has it.
AllManaged ==
    Scoped \/
    /\ \A p \in Projects : project[p].tags.node # None => project[p].tags.managed
    /\ \A p \in DOMAIN listed :
        listed[p].managed /\ (There(p) => project[p].tags.managed)
    /\ \A l \in DOMAIN byNode :
        byNode[l].tags.managed /\ (There(byNode[l].id) => project[byNode[l].id].tags.managed)
    /\ step \in {"adopt", "record"} => (There(at[2]) => project[at[2]].tags.managed)
    /\ \A l \in Leaves : node[l].status # "imported" /\ node[l].external # None
        => (There(node[l].external) => project[node[l].external].tags.managed)

\* The lists of a pass are of one listing.
ViewsHold ==
    /\ \A l \in DOMAIN byNode :
        byNode[l].id \in DOMAIN listed => byNode[l].tags = listed[byNode[l].id]
    /\ \A l \in DOMAIN byNode \cap DOMAIN active : byNode[l].tags.node \in {None, l}
    /\ \A l \in DOMAIN byNode : node[l].status = "imported" => byNode[l].tags.node = l
    /\ \A p, q \in DOMAIN listed :
        listed[p].node = listed[q].node /\ listed[p].node # None => p = q
    /\ step \in Promoting \cup Serving =>
        \A p \in DOMAIN listed : There(p) /\ listed[p].node # None =>
            listed[p].node \in DOMAIN byNode /\ byNode[listed[p].node].id = p
    /\ step = "adopt" => (There(at[2]) => project[at[2]].tags.node \in {None, at[1]})

\* A day of deletion that is set was set when the project was listed.
DayKnown ==
    /\ \A p \in DOMAIN listed :
        There(p) /\ project[p].tags.deletion # "none" => listed[p].deletion # "none"
    /\ \A l \in DOMAIN byNode :
        There(byNode[l].id) /\ project[byNode[l].id].tags.deletion # "none"
            => byNode[l].tags.deletion # "none"
    /\ \A l, m \in DOMAIN byNode :
        byNode[l].id = byNode[m].id => byNode[l].tags.deletion = byNode[m].tags.deletion

\* A tag that is another one than the pass believes is of an import, or of
\* one that is gone.
OthersMark ==
    \A p \in DOMAIN listed :
        There(p) /\ project[p].tags.node \notin {None, listed[p].node}
            => node[project[p].tags.node].status \in {"imported", "deleted"}

\* The project of a node that is only retired is listed as its project, and
\* phase 5 comes to it before the node is a candidate for removal.
RetiredListed ==
    \A l \in DOMAIN retired \ DOMAIN active, p \in Projects :
        There(p) /\ project[p].tags.node = l =>
            /\ step \in Promoting \cup Serving \cup Finding =>
                p \in DOMAIN listed /\ listed[p].node = l
            /\ step \in Finding => p \in todo
            /\ step # "removals"

\* A node without a project of its own is recorded as it was loaded, and the
\* project recorded on it is one the pass knows.
RecordKept ==
    \A l \in Unrecorded : node[l].status # "deleted" =>
        /\ node[l].external = active[l].external
        /\ step \in Promoting \cup Serving /\ node[l].external # None /\ There(node[l].external)
            => \/ node[l].external \in DOMAIN listed
               \/ \E m \in DOMAIN byNode : byNode[m].id = node[l].external

\* A project is one import, and the pass knows of it.
ImportsOnce ==
    /\ \A l, m \in Leaves, p \in Projects : ImportOf(l, p) /\ ImportOf(m, p) => l = m
    /\ \A l \in Leaves, p \in DOMAIN listed :
        /\ ImportOf(l, p)
        /\ step \in Promoting \cup Serving \/ (step \in Finding /\ p \in todo)
        => ImportAt(l, p)

Safe ==
    /\ Placed /\ BornFirst /\ StatusesHold
    /\ MarkedOnce /\ MarkedStored /\ UnservedUnmarked
    /\ AllManaged /\ ViewsHold /\ DayKnown /\ OthersMark
    /\ RetiredListed /\ RecordKept /\ ImportsOnce

-----------------------------------------------------------------------------
\* What the writes of the node store and of OpenStack do to a record, each once
\* for the proofs below (SetStatus, SetExternalID, Delete, UpdateProject and
\* CreateProject as the passes use them).
LEMMA StatusWritten ==
    ASSUME TypeOK, NEW l \in Leaves, NEW s \in Statuses, node' = [node EXCEPT ![l].status = s]
    PROVE  /\ node' \in [Leaves -> NodeRecords]
           /\ node'[l].status = s /\ node'[l].external = node[l].external
           /\ \A m \in Leaves \ {l} : node'[m] = node[m]
<1>1. node[l] \in NodeRecords
    BY DEF TypeOK
<1>2. [node[l] EXCEPT !.status = s] \in NodeRecords
    BY <1>1 DEF NodeRecords
<1>3. QED
    BY <1>1, <1>2 DEF TypeOK, NodeRecords

\* Promote: the import has become a project that waits for its approval.
LEMMA PromotionWritten ==
    ASSUME TypeOK, NEW l \in Leaves,
           node' = [node EXCEPT ![l].status = "pending", ![l].promote = FALSE]
    PROVE  /\ node' \in [Leaves -> NodeRecords]
           /\ node'[l].status = "pending" /\ node'[l].external = node[l].external
           /\ \A m \in Leaves \ {l} : node'[m] = node[m]
<1>1. node[l] \in NodeRecords
    BY DEF TypeOK
<1>2. [[node[l] EXCEPT !.status = "pending"] EXCEPT !.promote = FALSE] \in NodeRecords
    BY <1>1 DEF NodeRecords, Statuses
<1>3. QED
    BY <1>1, <1>2 DEF TypeOK, NodeRecords

\* Nothing is left of a removed node.
LEMMA DeletionWritten ==
    ASSUME ConstantsAssumption, TypeOK, NEW l \in Leaves, node' = [node EXCEPT ![l] = Deleted]
    PROVE  /\ node' \in [Leaves -> NodeRecords]
           /\ node'[l].status = "deleted" /\ node'[l].external = None
           /\ \A m \in Leaves \ {l} : node'[m] = node[m]
<1>1. Deleted \in NodeRecords
    BY DEF NodeRecords, Statuses, Deleted, NoNode
<1>2. QED
    BY <1>1 DEF TypeOK, Deleted, NoNode

\* RecordExternalID writes one field of one node.
LEMMA ExternalWritten ==
    ASSUME TypeOK, NEW l \in Leaves, NEW p \in Projects, node' = [node EXCEPT ![l].external = p]
    PROVE  /\ node' \in [Leaves -> NodeRecords]
           /\ node'[l].status = node[l].status /\ node'[l].external = p
           /\ \A m \in Leaves \ {l} : node'[m] = node[m]
<1>1. node[l] \in NodeRecords
    BY DEF TypeOK
<1>2. [node[l] EXCEPT !.external = p] \in NodeRecords
    BY <1>1 DEF NodeRecords
<1>3. QED
    BY <1>1, <1>2 DEF TypeOK, NodeRecords

\* A leaf is made for an import.
LEMMA ImportWritten ==
    ASSUME TypeOK, NEW l \in Leaves, NEW p \in Projects,
           node' = [node EXCEPT ![l].status = "imported", ![l].external = p]
    PROVE  /\ node' \in [Leaves -> NodeRecords]
           /\ node'[l].status = "imported" /\ node'[l].external = p
           /\ \A m \in Leaves \ {l} : node'[m] = node[m]
<1>1. node[l] \in NodeRecords
    BY DEF TypeOK
<1>2. [[node[l] EXCEPT !.status = "imported"] EXCEPT !.external = p] \in NodeRecords
    BY <1>1 DEF NodeRecords, Statuses
<1>3. QED
    BY <1>1, <1>2 DEF TypeOK, NodeRecords

\* UpdateProject: a project there gets new tags, and is enabled or disabled.
LEMMA Updated ==
    ASSUME TypeOK, NEW p \in Projects, NEW tags \in Tags, NEW e \in BOOLEAN, Update(p, tags, e)
    PROVE  /\ project' \in [Projects -> ProjectRecords]
           /\ There(p) /\ There(p)' /\ project'[p].tags = tags /\ project'[p].enabled = e
           /\ \A q \in Projects \ {p} : project'[q] = project[q]
<1>1. project[p] \in ProjectRecords
    BY DEF TypeOK
<1>2. [[project[p] EXCEPT !.tags = tags] EXCEPT !.enabled = e] \in ProjectRecords
    BY <1>1 DEF ProjectRecords
<1>3. QED
    BY <1>1, <1>2 DEF TypeOK, ProjectRecords, Update, There

\* A project whose tags only change stays as enabled as it was.
LEMMA Retagged ==
    ASSUME TypeOK, NEW p \in Projects, NEW tags \in Tags, Retag(p, tags)
    PROVE  /\ project' \in [Projects -> ProjectRecords]
           /\ There(p) /\ There(p)' /\ project'[p].tags = tags
           /\ project'[p].enabled = project[p].enabled
           /\ \A q \in Projects \ {p} : project'[q] = project[q]
<1>1. project[p].enabled \in BOOLEAN
    BY DEF TypeOK, ProjectRecords
<1>2. QED
    BY <1>1, Updated DEF Retag

\* CreateProject uses an identifier nobody had, and names its node at once.
LEMMA Created ==
    ASSUME ConstantsAssumption, TypeOK, NEW p \in Projects, NEW l \in Leaves, Create(p, l)
    PROVE  /\ project' \in [Projects -> ProjectRecords]
           /\ ~Born(p) /\ There(p)' /\ project'[p].enabled
           /\ project'[p].tags = TagsFor(l, NoTags)
           /\ TagsFor(l, NoTags) \in Tags
           /\ \A q \in Projects \ {p} : project'[q] = project[q]
<1>1. TagsFor(l, NoTags) \in Tags
    BY DEF TagsFor, NoTags, Tags
<1>2. QED
    BY <1>1 DEF TypeOK, ProjectRecords, Create, Born, There

\* The tags of a node name it, are managed, and keep an announced day.
LEMMA TaggedFor ==
    ASSUME NEW l \in Leaves, NEW tags \in Tags
    PROVE  /\ TagsFor(l, tags) \in Tags
           /\ TagsFor(l, tags).node = l /\ TagsFor(l, tags).managed
           /\ TagsFor(l, tags).deletion = tags.deletion
           /\ TagsFor(l, tags).archived = tags.archived
BY DEF TagsFor, Tags

\* The tags of a released project name the same node, and announce the day.
LEMMA OfReleased ==
    ASSUME NEW tags \in Tags
    PROVE  /\ TagsOfReleased(tags) \in Tags
           /\ TagsOfReleased(tags).node = tags.node
           /\ TagsOfReleased(tags).managed = tags.managed
           /\ TagsOfReleased(tags).deletion # "none"
BY DEF TagsOfReleased, Tags

\* A deleted project has no tags, and its identifier is not free again.
LEMMA DeletedProject ==
    ASSUME ConstantsAssumption, TypeOK, NEW p \in Projects, project' = [project EXCEPT ![p] = Gone]
    PROVE  /\ project' \in [Projects -> ProjectRecords]
           /\ ~There(p)' /\ Born(p)'
           /\ project'[p].tags.node = None /\ project'[p].tags.deletion = "none"
           /\ \A q \in Projects \ {p} : project'[q] = project[q]
<1>1. Gone \in ProjectRecords
    BY DEF Gone, NoProject, ProjectRecords, Tags, NoTags
<1>2. QED
    BY <1>1 DEF TypeOK, There, Born, Gone, NoProject, NoTags

\* A tampered project names no node; the rest of it stays.
LEMMA Dropped ==
    ASSUME ConstantsAssumption, TypeOK, NEW p \in Projects,
           project' = [project EXCEPT ![p].tags.node = None]
    PROVE  /\ project' \in [Projects -> ProjectRecords]
           /\ project'[p].state = project[p].state /\ project'[p].enabled = project[p].enabled
           /\ project'[p].tags.node = None
           /\ project'[p].tags.deletion = project[p].tags.deletion
           /\ project'[p].tags.managed = project[p].tags.managed
           /\ \A q \in Projects \ {p} : project'[q] = project[q]
<1>1. project[p] \in ProjectRecords
    BY DEF TypeOK
<1>2. [project[p].tags EXCEPT !.node = None] \in Tags
    BY <1>1 DEF ProjectRecords, Tags
<1>3. [project[p] EXCEPT !.tags = [project[p].tags EXCEPT !.node = None]] \in ProjectRecords
    BY <1>1, <1>2 DEF ProjectRecords
<1>4. project' = [project EXCEPT ![p] =
        [project[p] EXCEPT !.tags = [project[p].tags EXCEPT !.node = None]]]
    OBVIOUS
<1>5. QED
    BY <1>1, <1>3, <1>4 DEF TypeOK, ProjectRecords, Tags

-----------------------------------------------------------------------------
(* Steps that write no tag, import nothing and record nothing *)

\* What happens to the nodes but in Import and RecordExternalID.
Follows(l) ==
    \/ /\ node'[l].external = node[l].external
       /\ \/ node'[l].status = node[l].status
          \/ <<node[l].status, node'[l].status>> \in
                {<<"new", "pending">>, <<"pending", "approved">>, <<"pending", "rejected">>,
                 <<"approved", "released">>, <<"released", "archived">>}
    \/ /\ node[l].status \in {"imported", "rejected", "released", "archived"}
       /\ node[l].status = "imported" => step \notin Promoting
       /\ node'[l].status = "deleted" /\ node'[l].external = None

NodesGoOn ==
    /\ node' \in [Leaves -> NodeRecords]
    /\ \A l \in Leaves : Follows(l)

\* It is enough to look at the one node that is written.
LEMMA OneFollows ==
    ASSUME NEW l \in Leaves, node' \in [Leaves -> NodeRecords], Follows(l),
           \A m \in Leaves \ {l} : node'[m] = node[m]
    PROVE  NodesGoOn
BY DEF NodesGoOn, Follows

\* RemoveNode, of an import or of what is archived.
LEMMA RemovedFollows ==
    ASSUME ConstantsAssumption, TypeOK, NEW l \in Leaves, step \notin Promoting,
           \/ node' = RemovedImport(l)
           \/ node' = RemovedRetired(l)
           \/ UNCHANGED node
    PROVE  NodesGoOn
<1>1. CASE UNCHANGED node
    BY <1>1 DEF NodesGoOn, Follows, TypeOK
<1>2. CASE ~UNCHANGED node
    <2>1. /\ node' = [node EXCEPT ![l] = Deleted]
          /\ node[l].status \in {"imported", "released", "archived"}
        BY <1>2 DEF RemovedImport, RemovedRetired, IsRetired
    <2>2. QED
        BY <2>1, DeletionWritten, OneFollows DEF Follows
<1>3. QED
    BY <1>1, <1>2

\* Whatever people do meanwhile (the handlers of the tree service).
LEMMA UseTreeFollows ==
    ASSUME ConstantsAssumption, TypeOK, UseTree
    PROVE  NodesGoOn /\ UNCHANGED <<project, pass, faults>>
<1>1. PICK l \in Leaves :
        \/ Request(l) \/ Decide(l) \/ Release(l) \/ RequestDeletion(l) \/ AskPromotion(l)
        \/ Discard(l)
    BY DEF UseTree
<1>2. CASE Request(l) \/ Decide(l) \/ Release(l)
    <2>1. PICK s \in Statuses :
            /\ node' = [node EXCEPT ![l].status = s] /\ UNCHANGED <<project, pass, faults>>
            /\ <<node[l].status, s>> \in
                {<<"new", "pending">>, <<"pending", "approved">>, <<"pending", "rejected">>,
                 <<"approved", "released">>}
        BY <1>2 DEF Request, Decide, Release, Becomes, Statuses
    <2>2. QED
        BY <2>1, StatusWritten, OneFollows DEF Follows
<1>3. CASE RequestDeletion(l) \/ AskPromotion(l)
    <2>1. node[l] \in NodeRecords
        BY DEF TypeOK
    <2>2. PICK r \in NodeRecords :
            /\ node' = [node EXCEPT ![l] = r] /\ UNCHANGED <<project, pass, faults>>
            /\ r.status = node[l].status /\ r.external = node[l].external
        <3>1. CASE RequestDeletion(l)
            <4>1. [node[l] EXCEPT !.delete = TRUE] \in NodeRecords
                BY <2>1 DEF NodeRecords
            <4>2. QED
                BY <2>1, <3>1, <4>1 DEF RequestDeletion, NodeRecords
        <3>2. CASE AskPromotion(l)
            <4>1. [node[l] EXCEPT !.promote = TRUE] \in NodeRecords
                BY <2>1 DEF NodeRecords
            <4>2. QED
                BY <2>1, <3>2, <4>1 DEF AskPromotion, NodeRecords
        <3>3. QED
            BY <1>3, <3>1, <3>2
    <2>3. QED
        BY <2>2, OneFollows DEF Follows, TypeOK
<1>4. CASE Discard(l)
    BY <1>4, DeletionWritten, OneFollows DEF Discard, IsRetired, Follows
<1>5. QED
    BY <1>1, <1>2, <1>3, <1>4

\* What happens to the projects but where the pass writes tags: they appear,
\* tags and projects go, a day comes.
ProjectsGoOn ==
    /\ project' \in [Projects -> ProjectRecords]
    /\ \A p \in Projects :
        LET old == project[p].tags
            new == project'[p].tags
        IN  /\ Born(p) => Born(p)'
            /\ There(p)' => There(p) \/ ~Born(p)
            /\ new.node # None => new = old \/ There(p)
            /\ ~There(p)' => new.node = None /\ new.deletion = "none"
            /\ new.node \in {None, old.node}
            /\ new.deletion # "none" => old.deletion # "none"
            /\ There(p)' => new.managed = old.managed
            /\ There(p)' => (new.deletion = "none" <=> old.deletion = "none")

\* Whatever happens meanwhile in OpenStack, the faults included.
LEMMA UseOpenStackGoesOn ==
    ASSUME ConstantsAssumption, TypeOK, BornFirst, UseOpenStack
    PROVE  /\ ProjectsGoOn /\ UNCHANGED <<node, pass>>
           /\ faults' \in 0..MaxFaults /\ faults' \in {faults, faults + 1}
<1>1. PICK p \in Projects : AppearProject(p) \/ GraceEnds(p) \/ DropTag(p) \/ DeleteProject(p)
    BY DEF UseOpenStack
<1>2. project[p] \in ProjectRecords /\ project[p].tags \in Tags
    BY DEF TypeOK, ProjectRecords
<1>3. CASE AppearProject(p)
    <2>1. [[project[p] EXCEPT !.state = "there"] EXCEPT !.enabled = TRUE] \in ProjectRecords
        BY <1>2 DEF ProjectRecords
    <2>2. QED
        BY <1>2, <1>3, <2>1 DEF AppearProject, TypeOK, ProjectRecords, ProjectsGoOn, There, Born,
               BornFirst
<1>4. CASE GraceEnds(p)
    <2>1. [project[p].tags EXCEPT !.deletion = "due"] \in Tags
        BY <1>2 DEF Tags
    <2>2. [project[p] EXCEPT !.tags = [project[p].tags EXCEPT !.deletion = "due"]]
            \in ProjectRecords
        BY <1>2, <2>1 DEF ProjectRecords
    <2>3. project' = [project EXCEPT ![p] =
            [project[p] EXCEPT !.tags = [project[p].tags EXCEPT !.deletion = "due"]]]
        BY <1>4 DEF GraceEnds
    <2>4. QED
        BY <1>2, <1>4, <2>2, <2>3 DEF GraceEnds, TypeOK, ProjectRecords, Tags, ProjectsGoOn,
               There, Born, BornFirst
<1>5. CASE DropTag(p)
    <2>1. faults' \in 0..MaxFaults /\ faults' = faults + 1
        BY <1>5, ConstantsAssumption DEF DropTag, Fault, TypeOK
    <2>2. QED
        BY <1>2, <1>5, <2>1, Dropped DEF DropTag, ProjectsGoOn, There, Born, BornFirst, Tags
<1>6. CASE DeleteProject(p)
    <2>1. faults' \in 0..MaxFaults /\ faults' = faults + 1
        BY <1>6, ConstantsAssumption DEF DeleteProject, Fault, TypeOK
    <2>2. QED
        BY <1>6, <2>1, DeletedProject DEF DeleteProject, ProjectsGoOn, There, Born, BornFirst
<1>7. QED
    BY <1>1, <1>3, <1>4, <1>5, <1>6

\* Only the nodes change, or only the projects.
LEMMA SameGoOn ==
    ASSUME ConstantsAssumption, TypeOK, BornFirst
    PROVE  /\ UNCHANGED node => NodesGoOn
           /\ UNCHANGED project => ProjectsGoOn
BY DEF NodesGoOn, Follows, ProjectsGoOn, BornFirst, TypeOK, There, Born

\* A step after which the pass believes of the projects what it did before, or
\* nothing any more.
Onward ==
    /\ NodesGoOn /\ ProjectsGoOn
    /\ UNCHANGED <<active, listed>>
    /\ step' \in Steps
    /\ known' = known \/ known' = {}
    /\ DOMAIN retired' \subseteq DOMAIN retired
    /\ \A l \in DOMAIN retired' : retired'[l] = retired[l]
    /\ DOMAIN imports' \subseteq DOMAIN imports
    /\ \A p \in DOMAIN imports' : imports'[p] = imports[p]
    /\ byNode' = byNode \/ DOMAIN byNode' = {}
    /\ claimed' = claimed \/ claimed' = {}
    /\ todo' \subseteq Leaves \cup Projects
    /\ at' = at \/ at' = <<None, None>>
    /\ faults' \in 0..MaxFaults
    /\ step' \in Promoting => step \in Promoting
    /\ step' \in {"adopt", "record"} => step' = step /\ UNCHANGED at
    /\ step' = "remove" =>
        UNCHANGED at /\ (step = "remove" \/ project'[at[2]].state = "gone")

\* The part of a step that writes no tag is the same for all of them.
LEMMA OnwardKeeps ==
    ASSUME ConstantsAssumption, TypeOK, Safe, Onward
    PROVE  /\ TypeOK' /\ BornFirst' /\ StatusesHold'
           /\ MarkedOnce' /\ MarkedStored' /\ DayKnown' /\ OthersMark' /\ AllManaged'
           /\ \A p \in Projects, l \in Leaves : Marked(p, l)' => Marked(p, l)
<1>1. TypeOK'
    BY DEF Onward, NodesGoOn, ProjectsGoOn, TypeOK
<1> USE DEF Onward
<1>2. BornFirst'
    <2>1. \A l \in Leaves :
            /\ node[l].external \in Projects \cup {None}
            /\ node'[l].external \in {None, node[l].external}
        BY DEF TypeOK, NodeRecords, NodesGoOn, Follows
    <2>2. DOMAIN listed \subseteq Projects /\ \A l \in DOMAIN byNode : byNode[l].id \in Projects
        BY DEF TypeOK
    <2>3. step = "record" => at[2] \in Projects
        BY DEF Safe, Placed
    <2>4. \A p \in Projects : Born(p) => Born(p)'
        BY DEF ProjectsGoOn
    <2>5. step' = "remove" => ~(There(at[2])')
        <3>1. step = "remove" => at[2] \in Projects /\ Born(at[2])
            BY DEF Safe, Placed, BornFirst, TypeOK, Finding
        <3>2. QED
            BY <3>1 DEF Safe, BornFirst, ProjectsGoOn, There
    <2>6. QED
        BY <2>1, <2>2, <2>3, <2>4, <2>5 DEF Safe, BornFirst, ProjectsGoOn
<1>3. StatusesHold'
    BY DEF NodesGoOn, Follows, TypeOK, Safe, StatusesHold, Promoting, ImportOf
<1>4. \A p \in Projects, l \in Leaves : Marked(p, l)' => Marked(p, l)
    BY ConstantsAssumption DEF Safe, BornFirst, Marked, ProjectsGoOn, TypeOK
<1>5. MarkedOnce' /\ MarkedStored'
    <2>1. MarkedOnce'
        BY <1>4 DEF Safe, MarkedOnce
    <2>2. MarkedStored'
        BY <1>4 DEF NodesGoOn, Follows, Safe, MarkedStored
    <2>3. QED
        BY <2>1, <2>2
<1>6. DayKnown'
    BY DEF Safe, DayKnown, BornFirst, ProjectsGoOn, TypeOK
<1>7. OthersMark'
    <2>1. \A p \in DOMAIN listed :
            /\ p \in Projects /\ (There(p)' => There(p))
            /\ project[p].tags.node \in Leaves \cup {None}
            /\ project'[p].tags.node \in {None, project[p].tags.node}
        BY DEF TypeOK, ProjectRecords, Tags, ProjectsGoOn, Safe, BornFirst
    <2>2. QED
        BY <2>1 DEF NodesGoOn, Follows, Safe, OthersMark
<1>8. AllManaged'
    <2>1. \A p \in Projects :
            /\ project'[p].tags.node # None =>
                project[p].tags.node # None /\ project'[p].tags.managed = project[p].tags.managed
            /\ There(p)' /\ Born(p) =>
                There(p) /\ project'[p].tags.managed = project[p].tags.managed
        BY DEF ProjectsGoOn
    <2>2. \A l \in Leaves :
            /\ node[l].external \in Projects \cup {None}
            /\ node'[l].external # None /\ node'[l].status # "imported" =>
                node'[l].external = node[l].external /\ node[l].status # "imported"
        BY DEF TypeOK, NodeRecords, NodesGoOn, Follows
    <2>3. step' \in {"adopt", "record"} =>
            /\ step = step' /\ at[2] \in Projects /\ Born(at[2]) /\ UNCHANGED at
        BY DEF Safe, Placed, BornFirst, TypeOK
    <2>4. QED
        BY <2>1, <2>2, <2>3 DEF Safe, AllManaged, BornFirst, TypeOK
<1>9. QED
    BY <1>1, <1>2, <1>3, <1>4, <1>5, <1>6, <1>7, <1>8

\* People and OpenStack go on between any two steps of a pass.
LEMMA MeanwhileKeeps ==
    ASSUME ConstantsAssumption, TypeOK, Safe, UseTree \/ UseOpenStack
    PROVE  TypeOK' /\ Safe'
<1>1. Onward /\ UNCHANGED pass
    BY UseTreeFollows, UseOpenStackGoesOn, SameGoOn DEF Safe, Onward, pass, loaded, maps, TypeOK
<1> USE <1>1 DEF pass, loaded, maps
<1>2. Placed'
    BY DEF Safe, Placed
<1>3. UnservedUnmarked'
    BY OnwardKeeps DEF Safe, UnservedUnmarked, Unserved, TypeOK, Placed, Serving
<1>4. ViewsHold' /\ RetiredListed'
    <2>1. ViewsHold'
        <3>1. \A l \in Leaves : node'[l].status = "imported" => node[l].status = "imported"
            BY DEF Onward, NodesGoOn, Follows
        <3>2. QED
            BY <3>1 DEF Onward, Safe, ViewsHold, BornFirst, ProjectsGoOn, TypeOK, Placed
    <2>2. RetiredListed'
        BY ConstantsAssumption DEF Onward, Safe, RetiredListed, BornFirst, ProjectsGoOn, TypeOK
    <2>3. QED
        BY <2>1, <2>2
<1>5. RecordKept'
    <2>1. \A l \in Unrecorded : l \in Leaves
        BY DEF Safe, Placed, TypeOK, Unrecorded, Unserved, Serving
    <2>2. \A l \in Leaves :
            /\ node[l].external \in Projects \cup {None}
            /\ node'[l].status # "deleted" =>
                node'[l].external = node[l].external /\ node[l].status # "deleted"
        BY DEF TypeOK, NodeRecords, Onward, NodesGoOn, Follows
    <2>3. \A p \in Projects : Born(p) /\ There(p)' => There(p)
        BY DEF Onward, ProjectsGoOn
    <2>4. QED
        BY <2>1, <2>2, <2>3 DEF Safe, BornFirst, RecordKept, Unrecorded, Unserved
<1>6. ImportsOnce'
    BY DEF Onward, NodesGoOn, Follows, Safe, ImportsOnce, ImportOf, ImportAt
<1>7. QED
    BY <1>2, <1>3, <1>4, <1>5, <1>6, OnwardKeeps DEF Safe

\* A pass that ends, fails or dies forgets what it had loaded (recover in Run).
LEMMA ForgottenKeeps ==
    ASSUME ConstantsAssumption, TypeOK, Safe, Forgotten, UNCHANGED <<node, project, faults>>
    PROVE  TypeOK' /\ Safe'
<1>1. NodesGoOn /\ DOMAIN Empty = {}
    BY DEF NodesGoOn, Follows, TypeOK, Empty
<1>2. TypeOK'
    BY <1>1 DEF Forgotten, TypeOK, Steps
<1>3. Placed' /\ BornFirst' /\ StatusesHold' /\ UnservedUnmarked'
    BY <1>1 DEF Forgotten, Safe, Placed, BornFirst, StatusesHold, UnservedUnmarked, Unserved,
           There, Born, Loading, Promoting, Serving, Finding
<1>4. MarkedOnce' /\ MarkedStored'
    BY <1>1 DEF Forgotten, Safe, MarkedOnce, MarkedStored, Marked, There
<1>5. AllManaged' /\ ViewsHold' /\ DayKnown' /\ OthersMark'
    BY <1>1 DEF Forgotten, Safe, AllManaged, ViewsHold, DayKnown, OthersMark, There, Promoting,
           Serving
<1>6. RetiredListed' /\ RecordKept' /\ ImportsOnce'
    BY <1>1 DEF Forgotten, Safe, RetiredListed, RecordKept, ImportsOnce, Unrecorded, Unserved,
           ImportOf, ImportAt, Promoting, Serving, Finding
<1>7. QED
    BY <1>2, <1>3, <1>4, <1>5, <1>6 DEF Safe

\* Steps of the pass that take it on in what it has loaded.
Continues ==
    \/ \E l \in Leaves :
        \/ SkipPromotion(l) \/ PromotionFails(l) \/ SkipLeaf(l)
        \/ RemoveStaleImport(l) \/ RemoveLost(l)
    \/ StartLeaves \/ RemoveShadow \/ StartProjects
    \/ \E p \in Projects : LeaveProject(p)
    \/ PurgeGoesOn \/ PurgeDeletes \/ RemovePurged \/ MarkArchived \/ KeepReleased
    \/ StartRemovals

\* A step of a pass that only goes on, or removes a node or a project.
LEMMA ContinuesOnward ==
    ASSUME ConstantsAssumption, TypeOK, Safe, Continues
    PROVE  Onward
<1>1. Placed
    BY DEF Safe
<1>2. (UNCHANGED node => NodesGoOn) /\ (UNCHANGED project => ProjectsGoOn)
    BY SameGoOn DEF Safe
<1>3. CASE \E l \in Leaves : SkipPromotion(l) \/ PromotionFails(l) \/ SkipLeaf(l)
    BY <1>2, <1>3 DEF SkipPromotion, PromotionFails, SkipLeaf, loaded, maps, Onward, TypeOK,
           Steps, Promoting
<1>4. CASE \E l \in Leaves : RemoveStaleImport(l) \/ RemoveLost(l)
    BY <1>2, <1>4, RemovedFollows DEF RemoveStaleImport, RemoveLost, loaded, maps, Onward, TypeOK,
           Steps, Promoting
<1>5. CASE StartLeaves \/ StartProjects
    BY <1>2, <1>5 DEF StartLeaves, StartProjects, Empty, loaded, maps, Onward, TypeOK, Steps,
           Promoting
<1>6. CASE RemoveShadow
    BY <1>1, <1>2, <1>6, RemovedFollows DEF RemoveShadow, Placed, loaded, maps, Onward, TypeOK,
           Steps, Promoting
<1>7. CASE \E p \in Projects : LeaveProject(p)
    BY <1>2, <1>7 DEF LeaveProject, loaded, maps, Onward, TypeOK, Steps, Promoting
<1>8. CASE RemovePurged
    BY <1>1, <1>2, <1>8, RemovedFollows DEF RemovePurged, Handled, Without, Restrict, Placed,
           maps, Onward, TypeOK, Steps, Promoting
<1>9. CASE MarkArchived
    <2>1. at[1] \in Leaves
        BY <1>1, <1>9 DEF MarkArchived, Placed, TypeOK
    <2>2. NodesGoOn
        <3>1. CASE UNCHANGED node
            BY <1>2, <3>1
        <3>2. CASE /\ node[at[1]].status = "released"
                   /\ node' = [node EXCEPT ![at[1]].status = "archived"]
            BY <2>1, <3>2, StatusWritten, OneFollows DEF Follows, Statuses
        <3>3. QED
            BY <1>9, <3>1, <3>2 DEF MarkArchived
    <2>3. QED
        BY <1>2, <1>9, <2>2 DEF MarkArchived, Handled, Without, Restrict, maps, Onward, TypeOK,
               Steps, Promoting
<1>10. CASE KeepReleased
    BY <1>2, <1>10 DEF KeepReleased, Handled, Without, Restrict, maps, Onward, TypeOK, Steps,
           Promoting
<1>11. CASE StartRemovals
    BY <1>2, <1>11 DEF StartRemovals, Empty, maps, Onward, TypeOK, Steps, Promoting
<1>12. CASE PurgeGoesOn
    <2>1. PICK p \in Projects : p = at[2]
        BY <1>1, <1>12 DEF PurgeGoesOn, Placed, TypeOK
    <2>2. project[p] \in ProjectRecords /\ project[p].tags \in Tags
        BY DEF TypeOK, ProjectRecords
    <2>3. CASE Update(p, project[p].tags, TRUE)
        <3>1. /\ project' \in [Projects -> ProjectRecords]
              /\ There(p) /\ There(p)' /\ project'[p].tags = project[p].tags
              /\ \A q \in Projects \ {p} : project'[q] = project[q]
            BY <2>2, <2>3, Updated
        <3>2. ASSUME NEW q \in Projects
              PROVE  /\ There(q)' = There(q) /\ Born(q)' = Born(q)
                     /\ project'[q].tags = project[q].tags
            BY <3>1 DEF There, Born
        <3>3. ProjectsGoOn
            BY <3>1, <3>2 DEF ProjectsGoOn, Safe, BornFirst
        <3>4. QED
            BY <1>2, <1>12, <3>3 DEF PurgeGoesOn, Handled, Without, Restrict, maps, Onward,
                   TypeOK, Steps, Promoting
    <2>4. CASE UNCHANGED project
        BY <1>2, <1>12, <2>4 DEF PurgeGoesOn, Handled, Without, Restrict, maps, Onward, TypeOK,
               Steps, Promoting
    <2>5. QED
        BY <1>12, <2>1, <2>3, <2>4 DEF PurgeGoesOn
<1>13. CASE PurgeDeletes
    <2>1. ProjectsGoOn /\ project'[at[2]].state = "gone"
        <3>1. at[2] \in Projects /\ There(at[2]) /\ project' = [project EXCEPT ![at[2]] = Gone]
            BY <1>1, <1>13 DEF PurgeDeletes, Placed, TypeOK
        <3>2. project'[at[2]].state = "gone"
            BY <3>1 DEF TypeOK, Gone, NoProject
        <3>3. QED
            BY <3>1, <3>2, DeletedProject DEF ProjectsGoOn, Safe, BornFirst, There, Born
    <2>2. QED
        BY <1>2, <1>13, <2>1 DEF PurgeDeletes, loaded, maps, Onward, TypeOK, Steps, Promoting
<1>14. QED
    BY <1>12, <1>13, <1>3, <1>4, <1>5, <1>6, <1>7, <1>8, <1>9, <1>10, <1>11 DEF Continues

\* How these steps go on to the next stage, and what they leave as it is.
Moves ==
    \/ step' = "promote" /\ step \in Promoting /\ todo' \subseteq todo
    \/ step' = "leaves" /\ step = "promote" /\ todo' = DOMAIN active
    \/ step' = "leaves" /\ step \in {"leaves", "shadow"} /\ todo' \subseteq todo
    \/ /\ step' = "found" /\ step = "leaves" /\ DOMAIN byNode' = {} /\ todo' = DOMAIN listed
       /\ UNCHANGED <<imports, known>>
    \/ /\ step' = "found" /\ step = "found"
       /\ \E p \in Projects : (Belongs(p) \/ Tracked(p)) /\ todo' = todo \ {p}
       /\ UNCHANGED <<imports, retired, known>>
    \/ /\ step' = "found" /\ step \in {"end", "remove"}
       /\ todo' = todo \ {at[2]} /\ DOMAIN retired' = DOMAIN retired \ {at[1]}
       /\ DOMAIN imports' = DOMAIN imports \ {at[2]} /\ UNCHANGED known
    \/ step' = "remove" /\ step = "end" /\ UNCHANGED <<todo, at, retired, imports, known>>
    \/ step' = "removals" /\ step = "found" /\ todo = {} /\ DOMAIN imports' = {}
    \/ step' = "removals" /\ step = "removals"

Kept ==
    /\ step' # "found" => UNCHANGED <<byNode, claimed>>
    /\ step' \notin {"found", "removals"} => UNCHANGED <<imports, retired, known>>

\* How such a step moves: to what comes next in syncAll, with the same lists or
\* one entry fewer.
LEMMA ContinuesMoves ==
    ASSUME Continues
    PROVE  Moves /\ Kept
<1>1. CASE \E l \in Leaves :
        \/ SkipPromotion(l) \/ PromotionFails(l) \/ SkipLeaf(l)
        \/ RemoveStaleImport(l) \/ RemoveLost(l)
    BY <1>1 DEF Moves, Kept, SkipPromotion, PromotionFails, SkipLeaf, RemoveStaleImport,
           RemoveLost, loaded, maps, Promoting
<1>2. CASE StartLeaves \/ RemoveShadow \/ StartProjects \/ StartRemovals
    BY <1>2 DEF Moves, Kept, StartLeaves, RemoveShadow, StartProjects, StartRemovals, Empty,
           loaded, maps, Promoting
<1>3. CASE \E p \in Projects : LeaveProject(p)
    BY <1>3 DEF Moves, Kept, LeaveProject, loaded, maps
<1>4. CASE PurgeGoesOn \/ PurgeDeletes \/ RemovePurged \/ MarkArchived \/ KeepReleased
    BY <1>4 DEF Moves, Kept, PurgeGoesOn, PurgeDeletes, RemovePurged, MarkArchived, KeepReleased,
           Handled, Without, Restrict, loaded, maps
<1>5. QED
    BY <1>1, <1>2, <1>3, <1>4 DEF Continues

\* The part of a pass that only goes on.
LEMMA ContinuesKeeps ==
    ASSUME ConstantsAssumption, TypeOK, Safe, Continues
    PROVE  TypeOK' /\ Safe'
<1>1. Onward
    BY ContinuesOnward
<1>2. TypeOK'
    BY <1>1, OnwardKeeps
<1>3. Moves /\ Kept
    BY ContinuesMoves
<1>4. Placed'
    BY <1>1, <1>2, <1>3 DEF Moves, Kept, Onward, Safe, Placed, TypeOK, Loading, Promoting,
           Serving, Finding
<1>5. UnservedUnmarked'
    <2>1. Unserved' \subseteq Unserved
        <3>1. CASE step' \in Promoting
            BY <1>1, <1>3, <3>1 DEF Unserved, Promoting, Serving, Moves, Kept, Onward
        <3>2. CASE step' \in Serving
            BY <1>1, <1>3, <3>2 DEF Unserved, Promoting, Serving, Moves, Kept, Onward
        <3>3. CASE step' \notin Promoting \cup Serving
            BY <3>3 DEF Unserved
        <3>4. QED
            BY <3>1, <3>2, <3>3
    <2>2. QED
        BY <1>1, <2>1, OnwardKeeps DEF Unserved, Safe, Placed, UnservedUnmarked, TypeOK,
               Promoting, Serving
<1>7. ViewsHold'
    <2>1. \A l \in Leaves : node'[l].status = "imported" => node[l].status = "imported"
        BY <1>1 DEF Onward, NodesGoOn, Follows
    <2>2. QED
        BY <1>1, <1>3, <2>1 DEF Onward, ProjectsGoOn, BornFirst, TypeOK, Moves, Kept, Safe,
               ViewsHold, Promoting, Serving
<1>8. RetiredListed'
    <2>1. \A p \in Projects, l \in Leaves :
            There(p)' /\ project'[p].tags.node = l => There(p) /\ project[p].tags.node = l
        BY <1>1, ConstantsAssumption DEF Onward, ProjectsGoOn, Safe, BornFirst
    <2>2. DOMAIN retired \subseteq Leaves
        BY DEF TypeOK
    <2>3. QED
        BY <1>1, <1>3, <2>1, <2>2 DEF Onward, Moves, Kept, Safe, RetiredListed, Promoting,
               Serving, Finding, Belongs, Tracked, Released, Tagged, Placed
<1>9. RecordKept'
    <2>1. Unrecorded' \subseteq Unrecorded /\ \A l \in Unrecorded : l \in Leaves
        BY <1>1, <1>3 DEF Unrecorded, Unserved, Promoting, Serving, Moves, Kept, Onward, Safe,
               Placed, TypeOK
    <2>2. \A l \in Leaves :
            /\ node[l].external \in Projects \cup {None}
            /\ node'[l].status # "deleted" =>
                node'[l].external = node[l].external /\ node[l].status # "deleted"
        BY <1>1 DEF TypeOK, NodeRecords, Onward, NodesGoOn, Follows
    <2>3. \A p \in Projects : Born(p) /\ There(p)' => There(p)
        BY <1>1 DEF Onward, ProjectsGoOn
    <2>4. step' \in Promoting \cup Serving => step \in Promoting \cup Serving /\ UNCHANGED byNode
        BY <1>3 DEF Moves, Kept, Promoting, Serving
    <2>5. QED
        BY <1>1, <2>1, <2>2, <2>3, <2>4 DEF Safe, BornFirst, RecordKept, Onward
<1>10. ImportsOnce'
    <2>1. \A l \in Leaves, p \in Projects : ImportOf(l, p)' => ImportOf(l, p)
        BY <1>1, ConstantsAssumption DEF Onward, NodesGoOn, Follows, ImportOf
    <2>2. DOMAIN listed \subseteq Projects
        BY DEF TypeOK
    <2>3. QED
        BY <1>1, <1>3, <2>1, <2>2 DEF Onward, Moves, Kept, Safe, Placed, ImportsOnce, ImportAt,
               Promoting, Serving, Finding
<1>11. QED
    BY <1>1, <1>2, <1>4, <1>5, <1>7, <1>8, <1>9, <1>10, OnwardKeeps DEF Safe

-----------------------------------------------------------------------------
(* The lists are loaded *)

\* ListNodes of phase 1.
LEMMA LoadKeeps ==
    ASSUME ConstantsAssumption, TypeOK, Safe, LoadActive \/ LoadKnown
    PROVE  TypeOK' /\ Safe'
<1>1. UNCHANGED <<node, project, imports, maps, todo, at, faults>>
    BY DEF LoadActive, LoadKnown
<1>2. /\ step \in {"idle", "known"} /\ step' \in {"known", "projects"}
      /\ step = "idle" <=> step' = "known"
    BY DEF LoadActive, LoadKnown
<1>3. /\ DOMAIN active' \subseteq Leaves
      /\ \A l \in DOMAIN active' : active'[l] \in NodeRecords
      /\ \/ UNCHANGED active /\ step = "known"
         \/ \A l \in DOMAIN active' : active'[l] = node[l] /\ node[l].status = "approved"
    BY <1>2 DEF LoadActive, LoadKnown, Having, TypeOK
<1>4. /\ known' \subseteq Leaves
      /\ UNCHANGED known \/ \A l \in known' : IsKnown(node[l].status)
      /\ DOMAIN retired' \subseteq Leaves
      /\ \A l \in DOMAIN retired' : retired'[l] \in NodeRecords
      /\ UNCHANGED retired \/ \A l \in DOMAIN retired' : IsRetired(node[l].status)
    BY DEF LoadActive, LoadKnown, Having, TypeOK
<1> USE <1>1, <1>2 DEF maps
<1>5. TypeOK'
    BY <1>3, <1>4 DEF TypeOK, Steps
<1>6. Placed' /\ BornFirst'
    BY DEF Safe, Placed, BornFirst, There, Born, Loading, Promoting, Serving, Finding
<1>7. StatusesHold'
    BY <1>3, <1>4 DEF Safe, StatusesHold, IsKnown, IsRetired, Promoting
<1>8. MarkedOnce' /\ MarkedStored' /\ UnservedUnmarked'
    BY DEF Safe, MarkedOnce, MarkedStored, UnservedUnmarked, Unserved, Marked, There, Promoting,
           Serving
<1>9. AllManaged' /\ ViewsHold' /\ DayKnown' /\ OthersMark'
    BY DEF Safe, AllManaged, ViewsHold, DayKnown, OthersMark, Placed, There, Loading, Promoting,
           Serving
<1>10. RetiredListed' /\ ImportsOnce'
    BY DEF Safe, RetiredListed, ImportsOnce, Placed, ImportOf, Loading, Promoting, Serving, Finding
<1>11. RecordKept'
    BY <1>3 DEF Safe, RecordKept, Unrecorded, Unserved, Promoting, Serving
<1>12. QED
    BY <1>5, <1>6, <1>7, <1>8, <1>9, <1>10, <1>11 DEF Safe

\* The listing of phase 2: the projects by the tag that finds them, and the
\* imports.
LEMMA LoadProjectsKeeps ==
    ASSUME ConstantsAssumption, TypeOK, Safe, LoadProjects
    PROVE  TypeOK' /\ Safe'
<1> DEFINE found == {l \in Leaves : node[l].status = "imported"}
           scope == {p \in Projects : InScope(p)}
<1>1. /\ step = "projects" /\ step' = "promote"
      /\ UNCHANGED <<node, project, active, known, retired, claimed, at, faults>>
      /\ todo' \subseteq Leaves
    BY DEF LoadProjects, Having
<1>2. /\ DOMAIN imports' = {node[l].external : l \in found}
      /\ \A p \in DOMAIN imports' : imports'[p] \in found /\ node[imports'[p]].external = p
    BY DEF LoadProjects, Having
<1>3. DOMAIN listed' = scope /\ \A p \in scope : listed'[p] = project[p].tags
    BY DEF LoadProjects
<1>4. /\ DOMAIN byNode' = {l \in Leaves : \E p \in scope : project[p].tags.node = l}
      /\ \A l \in DOMAIN byNode' :
            /\ byNode'[l].id \in scope /\ project[byNode'[l].id].tags.node = l
            /\ byNode'[l].tags = project[byNode'[l].id].tags
    <2> DEFINE of(l) == {p \in scope : project[p].tags.node = l}
               named == {l \in Leaves : of(l) # {}}
    <2>1. PICK f \in [named -> scope] :
            /\ \A l \in named : f[l] \in of(l)
            /\ byNode' = [l \in named |-> [id |-> f[l], tags |-> project[f[l]].tags]]
        BY DEF LoadProjects
    <2>2. QED
        BY <2>1
<1>5. \A p \in scope : p \in Projects /\ There(p) /\ Born(p)
    BY DEF InScope, There, Born
<1>6. \A p \in Projects : There(p) /\ project[p].tags.node # None => p \in scope
    BY DEF InScope, Safe, AllManaged
<1>7. \A l \in found : node[l].external \in Projects
    BY DEF TypeOK, NodeRecords, Safe, StatusesHold
<1>8. \A p \in Projects : project[p].tags \in Tags
    BY DEF TypeOK, ProjectRecords
<1>9. scope \subseteq Projects
    OBVIOUS
<1> HIDE DEF scope
<1>10. \A p \in Projects, l \in Leaves : Marked(p, l)' => Marked(p, l)
    BY <1>1, <1>3, <1>4 DEF Marked, There
<1>12. TypeOK'
    BY <1>1, <1>2, <1>3, <1>4, <1>7, <1>8, <1>9 DEF TypeOK, Steps
<1>13. Placed'
    BY <1>1, <1>3 DEF Safe, Placed, Loading, Promoting, Serving, Finding
<1>14. BornFirst'
    BY <1>1, <1>3, <1>4, <1>5 DEF Safe, BornFirst, There, Born
<1>15. StatusesHold'
    BY <1>1, <1>2 DEF Safe, StatusesHold, ImportOf
<1>16. MarkedOnce' /\ MarkedStored'
    <2>1. MarkedOnce'
        BY <1>10 DEF Safe, MarkedOnce
    <2>2. MarkedStored'
        BY <1>1, <1>10 DEF Safe, MarkedStored
    <2>3. QED
        BY <2>1, <2>2
<1>17. UnservedUnmarked'
    <2>1. Unserved' = DOMAIN active \ DOMAIN byNode'
        BY <1>1 DEF Unserved, Promoting
    <2>2. ASSUME NEW l \in DOMAIN active \ DOMAIN byNode', NEW p \in Projects, Marked(p, l)'
          PROVE  FALSE
        <3>1. l \in Leaves
            BY DEF TypeOK
        <3>2. There(p) /\ project[p].tags.node = l
            BY <1>1, <1>3, <1>4, <2>2, <3>1 DEF Marked, There
        <3>3. QED
            BY <1>4, <1>6, <3>1, <3>2, ConstantsAssumption
    <2>3. QED
        BY <2>1, <2>2 DEF UnservedUnmarked
<1>18. AllManaged'
    <2>1. \A p \in scope : Scoped \/ project[p].tags.managed
        BY DEF scope, InScope
    <2>2. QED
        BY <1>1, <1>3, <1>4, <2>1, ZenonT(40) DEF Safe, AllManaged, There
<1>19. ViewsHold'
    <2>1. \A p, q \in scope : project[p].tags.node = project[q].tags.node
            /\ project[p].tags.node # None => p = q
        <3>1. \A p \in scope :
                p \in Projects /\ There(p) /\ project[p].tags.node \in Leaves \cup {None}
            BY <1>5, <1>8 DEF Tags
        <3>2. QED
            BY <3>1 DEF Safe, MarkedOnce, Marked
    <2>2. \A p \in scope : project[p].tags.node \in Leaves \cup {None}
        BY <1>8, <1>9 DEF Tags
    <2>3. QED
        BY <1>1, <1>3, <1>4, <2>1, <2>2 DEF ViewsHold, Promoting, Serving
<1>20. DayKnown'
    <2>1. \A l, m \in DOMAIN byNode' : byNode'[l].id = byNode'[m].id => l = m
        BY <1>4
    <2>2. QED
        BY <1>1, <1>3, <1>4, <2>1 DEF DayKnown, There
<1>21. OthersMark'
    BY <1>1, <1>3 DEF OthersMark, There
<1>22. RetiredListed'
    <2>1. DOMAIN retired \subseteq Leaves
        BY DEF TypeOK
    <2>2. QED
        BY <1>1, <1>3, <1>6, <2>1, ConstantsAssumption
            DEF RetiredListed, There, Promoting, Serving, Finding
<1>23. RecordKept'
    <2>1. Unrecorded' \subseteq Unrecorded
        BY <1>1 DEF Unrecorded, Unserved, Promoting
    <2>2. \A l \in Unrecorded' : l \in DOMAIN active /\ l \in Leaves
        BY <1>1 DEF Unrecorded, Unserved, Promoting, TypeOK
    <2>3. ASSUME NEW l \in Unrecorded', node[l].external # None, There(node[l].external)
          PROVE  node[l].external \in scope
        <3>1. node[l].external \in Projects /\ node[l].status # "imported"
            BY <2>2, <2>3 DEF TypeOK, NodeRecords, Safe, StatusesHold
        <3>2. QED
            BY <2>2, <2>3, <3>1 DEF scope, InScope, Safe, AllManaged
    <2>4. QED
        BY <1>1, <1>3, <2>1, <2>3 DEF Safe, RecordKept, There
<1>24. ImportsOnce'
    <2>1. UNCHANGED node /\ \A l \in Leaves, p \in Projects : ImportOf(l, p)' = ImportOf(l, p)
        BY <1>1 DEF ImportOf
    <2>2. \A l \in Leaves, p \in Projects :
            ImportOf(l, p) => p \in DOMAIN imports' /\ imports'[p] = l
        BY <1>2 DEF Safe, ImportsOnce, ImportOf
    <2>3. QED
        BY <1>3, <1>9, <2>1, <2>2 DEF Safe, ImportsOnce, ImportAt
<1>25. QED
    BY <1>12, <1>13, <1>14, <1>15, <1>16, <1>17, <1>18, <1>19, <1>20, <1>21, <1>22, <1>23, <1>24
        DEF Safe

-----------------------------------------------------------------------------
(* Adopting an import *)

\* PromoteShadow tags the project before the node becomes pending.
LEMMA TagForPromotionKeeps ==
    ASSUME ConstantsAssumption, TypeOK, Safe, NEW l \in Leaves, NEW p \in Projects,
           TagForPromotion(l, p)
    PROVE  TypeOK' /\ Safe'
<1>1. /\ step = "promote" /\ step' = "adopt" /\ at' = <<l, p>> /\ l \in todo
      /\ p \in DOMAIN imports /\ imports[p] = l /\ p \in DOMAIN listed
      /\ UNCHANGED <<node, active, known, retired, imports, listed, byNode, claimed, todo, faults>>
    BY DEF TagForPromotion, ImportAt, loaded, maps
<1>2. /\ node[l].status = "imported" /\ node[l].external = p
    BY <1>1 DEF Safe, StatusesHold, ImportOf, Promoting
<1>3. /\ project' \in [Projects -> ProjectRecords] /\ There(p)
      /\ \A q \in Projects : There(q)' = There(q) /\ Born(q)' = Born(q)
      /\ \A q \in Projects \ {p} : project'[q] = project[q]
      /\ project'[p].tags.node = l /\ project'[p].tags.managed
      /\ project'[p].tags.deletion = listed[p].deletion
    <2>1. listed[p] \in Tags
        BY <1>1 DEF TypeOK
    <2>2. Retag(p, TagsFor(l, listed[p]))
        BY DEF TagForPromotion
    <2>3. QED
        BY <2>1, <2>2, TaggedFor, Retagged DEF There, Born
<1>4. \A q \in Projects, m \in Leaves : Marked(q, m)' => Marked(q, m) \/ (q = p /\ m = l)
    BY <1>1, <1>3, ConstantsAssumption DEF Marked, TypeOK
<1> USE <1>1, <1>3
<1>5. TypeOK' /\ Placed'
    <2>1. TypeOK'
        BY DEF TypeOK, Steps
    <2>2. Placed'
        BY DEF Safe, Placed, Loading, Promoting, Serving, Finding
    <2>3. QED
        BY <2>1, <2>2
<1>6. BornFirst' /\ StatusesHold'
    <2>1. BornFirst'
        BY DEF Safe, BornFirst, TypeOK, NodeRecords
    <2>2. StatusesHold'
        BY DEF Safe, StatusesHold, ImportOf, Promoting
    <2>3. QED
        BY <2>1, <2>2
<1>7. MarkedOnce' /\ MarkedStored' /\ UnservedUnmarked'
    <2>1. MarkedOnce'
        BY <1>2, <1>4 DEF Safe, MarkedOnce, MarkedStored
    <2>2. MarkedStored'
        BY <1>2, <1>4 DEF Safe, MarkedStored
    <2>3. UnservedUnmarked'
        BY <1>2, <1>4 DEF Safe, UnservedUnmarked, Unserved, Promoting, Serving, StatusesHold, TypeOK
    <2>4. QED
        BY <2>1, <2>2, <2>3
<1>8. AllManaged'
    <2>1. \A m \in Leaves : node[m].external \in Projects \cup {None}
        BY DEF TypeOK, NodeRecords
    <2>2. \A q \in Projects : project[q].tags.managed => project'[q].tags.managed
        OBVIOUS
    <2>3. QED
        BY <2>1, <2>2 DEF Safe, AllManaged, TypeOK
<1>9. ViewsHold' /\ DayKnown'
    <2>1. ViewsHold'
        BY DEF Safe, ViewsHold, TypeOK, Promoting, Serving
    <2>2. DayKnown'
        BY DEF Safe, ViewsHold, DayKnown, TypeOK
    <2>3. QED
        BY <2>1, <2>2
<1>10. OthersMark' /\ RetiredListed'
    <2>1. OthersMark'
        BY <1>2 DEF Safe, OthersMark, TypeOK
    <2>2. RetiredListed'
        BY <1>2 DEF Safe, RetiredListed, StatusesHold, TypeOK, Promoting, Serving, Finding
    <2>3. QED
        BY <2>1, <2>2
<1>11. RecordKept' /\ ImportsOnce'
    <2>1. RecordKept'
        BY DEF Safe, RecordKept, Unrecorded, Unserved, Promoting, Serving, TypeOK, NodeRecords
    <2>2. ImportsOnce'
        BY DEF Safe, ImportsOnce, ImportOf, ImportAt, Promoting, Serving, Finding
    <2>3. QED
        BY <2>1, <2>2
<1>12. QED
    BY <1>5, <1>6, <1>7, <1>8, <1>9, <1>10, <1>11 DEF Safe

\* The import takes the tag of its node.
LEMMA PromoteKeeps ==
    ASSUME ConstantsAssumption, TypeOK, Safe, NEW l \in Leaves, NEW p \in Projects, Promote(l, p)
    PROVE  TypeOK' /\ Safe'
<1>1. /\ step = "adopt" /\ step' = "promote" /\ at = <<l, p>> /\ at' = <<None, None>>
      /\ todo' = todo \ {l}
      /\ UNCHANGED <<project, active, known, retired, claimed, faults>>
    BY DEF Promote
<1>2. /\ node[l].status = "imported" /\ node[l].external = p
      /\ p \in DOMAIN listed /\ p \in DOMAIN imports /\ imports[p] = l /\ l \in todo
    BY <1>1 DEF Safe, Placed, StatusesHold, ImportOf, Promoting
<1>3. /\ node' \in [Leaves -> NodeRecords]
      /\ node'[l].status = "pending" /\ node'[l].external = p
      /\ \A m \in Leaves \ {l} : node'[m] = node[m]
    BY <1>2, PromotionWritten DEF Promote
<1>4. /\ DOMAIN listed' = DOMAIN listed \ {p} /\ \A q \in DOMAIN listed' : listed'[q] = listed[q]
      /\ DOMAIN imports' = DOMAIN imports \ {p}
      /\ \A q \in DOMAIN imports' : imports'[q] = imports[q]
    BY DEF Promote, Without, Restrict
<1>5. /\ DOMAIN byNode' = DOMAIN byNode \cup {l}
      /\ \A m \in DOMAIN byNode \ {l} : byNode'[m] = byNode[m]
      /\ byNode'[l].id = p /\ byNode'[l].tags = listed[p]
    BY DEF Promote, With
<1>6. l \notin DOMAIN active /\ l \notin DOMAIN retired /\ l \notin known
    BY <1>2 DEF Safe, StatusesHold
<1>7. \A q \in Projects, m \in Leaves : Marked(q, m)' => Marked(q, m)
    BY <1>1, <1>2, <1>4, <1>5 DEF Marked, There
<1> USE <1>1, <1>2, <1>3, <1>4, <1>5, <1>6
<1>8. TypeOK' /\ Placed'
    <2>1. TypeOK'
        BY DEF TypeOK, Steps
    <2>2. Placed'
        BY DEF Safe, Placed, Loading, Promoting, Serving, Finding
    <2>3. QED
        BY <2>1, <2>2
<1>9. BornFirst' /\ StatusesHold'
    <2>1. BornFirst'
        BY SMTT(30) DEF Safe, BornFirst, TypeOK, NodeRecords, There, Born
    <2>2. StatusesHold'
        BY DEF Safe, StatusesHold, ImportOf, Promoting, TypeOK
    <2>3. QED
        BY <2>1, <2>2
<1>10. MarkedOnce' /\ MarkedStored' /\ UnservedUnmarked'
    <2>1. MarkedOnce'
        BY <1>7 DEF Safe, MarkedOnce
    <2>2. MarkedStored'
        BY <1>7 DEF Safe, MarkedStored
    <2>3. UnservedUnmarked'
        BY <1>7 DEF Safe, UnservedUnmarked, Unserved, Promoting, Serving, TypeOK
    <2>4. QED
        BY <2>1, <2>2, <2>3
<1>11. AllManaged'
    BY DEF Safe, AllManaged, TypeOK, NodeRecords, There
<1>12. ViewsHold' /\ DayKnown'
    <2>1. ViewsHold'
        <3>1. \A q \in DOMAIN listed : There(q) /\ listed[q].node = l => q = p
            BY DEF Safe, MarkedStored, Marked, TypeOK
        <3>2. QED
            BY <3>1 DEF Safe, ViewsHold, TypeOK, Promoting, Serving, There
    <2>2. DayKnown'
        BY DEF Safe, ViewsHold, DayKnown, TypeOK, There
    <2>3. QED
        BY <2>1, <2>2
<1>13. OthersMark' /\ RetiredListed'
    <2>1. OthersMark'
        <3>1. \A q \in DOMAIN listed : There(q) /\ project[q].tags.node = l => q = p
            BY DEF Safe, MarkedStored, Marked, TypeOK
        <3>2. \A q \in DOMAIN listed : project[q].tags.node \in Leaves \cup {None}
            BY DEF TypeOK, ProjectRecords, Tags
        <3>3. QED
            BY <3>1, <3>2 DEF Safe, OthersMark, There
    <2>2. RetiredListed'
        BY ConstantsAssumption DEF Safe, RetiredListed, ViewsHold, TypeOK, Promoting, Serving,
               Finding, There
    <2>3. QED
        BY <2>1, <2>2
<1>14. RecordKept'
    <2>1. Unrecorded' \subseteq Unrecorded \ {l}
        BY DEF Unrecorded, Unserved, Promoting, Serving
    <2>2. \A m \in Unrecorded : m \in Leaves
        BY DEF Unrecorded, Unserved, Promoting, Serving, TypeOK
    <2>3. ASSUME NEW q, q \in DOMAIN listed \/ \E k \in DOMAIN byNode : byNode[k].id = q,
                 There(q)
          PROVE  q \in DOMAIN listed' \/ \E k \in DOMAIN byNode' : byNode'[k].id = q
        <3>1. l \in DOMAIN byNode /\ byNode[l].id = q => q = p
            BY <2>3 DEF Safe, ViewsHold, MarkedStored, Marked, TypeOK
        <3>2. QED
            BY <2>3, <3>1
    <2>4. QED
        BY <2>1, <2>2, <2>3 DEF Safe, RecordKept, Promoting, Serving, There
<1>15. ImportsOnce'
    BY DEF Safe, ImportsOnce, ImportOf, ImportAt, Promoting, Serving, Finding, TypeOK
<1>16. QED
    BY <1>8, <1>9, <1>10, <1>11, <1>12, <1>13, <1>14, <1>15 DEF Safe

-----------------------------------------------------------------------------
(* A project for every active node *)

\* A project found by what the node records is tagged anew (recoverProject).
LEMMA RecoverKeeps ==
    ASSUME ConstantsAssumption, TypeOK, Safe, NEW l \in Leaves, NEW p \in Projects, Recover(l, p)
    PROVE  TypeOK' /\ Safe'
<1>1. /\ step = "leaves" /\ l \in todo \ DOMAIN byNode
      /\ p = active[l].external /\ p \in DOMAIN listed /\ listed[p].node \in {None, l}
      /\ claimed' = claimed \cup {p}
      /\ step' \in {"leaves", "shadow"}
      /\ step' = "leaves" => at' = at
      /\ step' = "shadow" => p \in DOMAIN imports /\ at' = <<imports[p], p>>
      /\ UNCHANGED <<node, active, known, retired, todo, faults>>
    BY DEF Recover, Recoverable
<1>2. /\ DOMAIN listed' = DOMAIN listed \ {p} /\ \A q \in DOMAIN listed' : listed'[q] = listed[q]
      /\ DOMAIN imports' = DOMAIN imports \ {p}
      /\ \A q \in DOMAIN imports' : imports'[q] = imports[q]
    <2>1. listed' = Without(listed, {p}) /\ imports' = Without(imports, {p})
        BY DEF Recover
    <2>2. QED
        BY <2>1 DEF Without, Restrict
<1>3. /\ DOMAIN byNode' = DOMAIN byNode \cup {l}
      /\ \A m \in DOMAIN byNode : byNode'[m] = byNode[m]
    <2>1. PICK v : byNode' = With(byNode, l, v)
        BY DEF Recover
    <2>2. QED
        BY <1>1, <2>1 DEF With
<1>4. listed[p] \in Tags
    BY <1>1 DEF TypeOK
<1>5. /\ byNode'[l].id = p /\ byNode'[l].tags \in Tags
      /\ byNode'[l].tags.managed = listed[p].managed
      /\ byNode'[l].tags.deletion = listed[p].deletion
      /\ byNode'[l].tags.node \in {None, l}
    <2>1. CASE byNode' = With(byNode, l, [id |-> p, tags |-> [listed[p] EXCEPT !.node = l]])
        <3>1. byNode'[l] = [id |-> p, tags |-> [listed[p] EXCEPT !.node = l]]
            BY <2>1 DEF With
        <3>2. QED
            BY <3>1, <1>4 DEF Tags
    <2>2. CASE byNode' = With(byNode, l, [id |-> p, tags |-> listed[p]])
        <3>1. byNode'[l] = [id |-> p, tags |-> listed[p]]
            BY <2>2 DEF With
        <3>2. QED
            BY <3>1, <1>1, <1>4 DEF Tags
    <2>3. QED
        BY <2>1, <2>2 DEF Recover
<1>6. /\ project' \in [Projects -> ProjectRecords]
      /\ \A q \in Projects : project'[q].state = project[q].state
      /\ \A q \in Projects \ {p} : project'[q] = project[q]
      /\ \/ project'[p] = project[p]
         \/ /\ There(p) /\ project'[p].tags.managed
            /\ project'[p].tags.node = l /\ byNode'[l].tags.node = l
            /\ project'[p].tags.deletion = listed[p].deletion
    <2>1. CASE UNCHANGED project
        BY <2>1 DEF TypeOK
    <2>2. CASE /\ Retag(p, TagsFor(l, listed[p]))
               /\ byNode' = With(byNode, l, [id |-> p, tags |-> [listed[p] EXCEPT !.node = l]])
        <3>1. byNode'[l] = [id |-> p, tags |-> [listed[p] EXCEPT !.node = l]]
            BY <2>2 DEF With
        <3>2. byNode'[l].tags.node = l
            BY <1>4, <3>1 DEF Tags
        <3>3. QED
            BY <1>4, <2>2, <3>2, TaggedFor, Retagged DEF There
    <2>3. QED
        BY <2>1, <2>2 DEF Recover
<1>7. \A q \in Projects : There(q)' = There(q) /\ Born(q)' = Born(q)
    BY <1>6 DEF There, Born
<1> HIDE DEF There, Born
<1>8. TypeOK'
    BY <1>1, <1>2, <1>3, <1>5, <1>6 DEF TypeOK, Steps, Safe, Placed
<1>9. Placed'
    BY <1>1, <1>2, <1>3, <1>5, <1>8 DEF Safe, TypeOK, Placed, Loading, Promoting, Serving, Finding
<1>10. BornFirst'
    BY <1>1, <1>2, <1>3, <1>5, <1>6, <1>7 DEF Safe, TypeOK, BornFirst, NodeRecords, Tags,
           ProjectRecords
<1>11. StatusesHold'
    BY <1>1, <1>2 DEF Safe, TypeOK, StatusesHold, Loading, Promoting, Serving, Finding
<1>12. \A q \in Projects, m \in Leaves : Marked(q, m)' => Marked(q, m) \/ (q = p /\ m = l)
    BY <1>1, <1>2, <1>3, <1>5, <1>6, <1>7, ConstantsAssumption DEF Marked, TypeOK
<1>13. \A q \in Projects : ~Marked(q, l)
    BY <1>1 DEF Safe, UnservedUnmarked, Unserved, Promoting, Serving
<1>14. MarkedOnce' /\ MarkedStored'
    <2>1. MarkedOnce'
       BY <1>12, <1>13 DEF Safe, MarkedOnce
    <2>2. MarkedStored'
       BY <1>1, <1>12 DEF Safe, MarkedStored, StatusesHold, Placed, Serving
    <2>3. QED
        BY <2>1, <2>2
<1>15. UnservedUnmarked'
    BY <1>1, <1>3, <1>12 DEF Safe, UnservedUnmarked, Unserved, Promoting, Serving, TypeOK, Placed
<1>16. AllManaged'
    <2>1. \A m \in Leaves : node[m].external \in Projects \cup {None}
        BY DEF TypeOK, NodeRecords
    <2>2. \A q \in Projects :
            /\ project[q].tags.managed /\ q # p => project'[q].tags.managed
            /\ project'[p].tags = project[p].tags \/ project'[p].tags.managed
        BY <1>6
    <2>3. SUFFICES ASSUME ~Scoped
                   PROVE  AllManaged'
        BY DEF AllManaged
    <2>4. listed[p].managed
        BY <1>1, <2>3 DEF Safe, AllManaged
    <2>5. \A q \in Projects : project'[q].tags.node # None => project'[q].tags.managed
        BY <1>6, <2>3 DEF Safe, AllManaged
    <2>6. \A q \in DOMAIN listed' :
            listed'[q].managed /\ (There(q)' => project'[q].tags.managed)
        BY <1>2, <1>7, <2>2, <2>3, <1>6 DEF Safe, AllManaged, TypeOK
    <2>7. \A m \in DOMAIN byNode' : /\ byNode'[m].tags.managed
                                    /\ (There(byNode[m].id))'
                                        => project'[byNode'[m].id].tags.managed
      <3>1. There(p) => project'[p].tags.managed
          BY <1>1, <1>6, <1>7, <2>2, <2>3 DEF Safe, AllManaged
      <3>2. ASSUME NEW m \in DOMAIN byNode, m # l, project'[byNode[m].id].state = "there"
            PROVE  byNode[m].tags.managed /\ project'[byNode[m].id].tags.managed
          BY <1>6, <2>2, <2>3, <3>2 DEF Safe, AllManaged, TypeOK, There
      <3>3. \A m \in DOMAIN byNode : byNode[m].tags.managed
          BY <2>3 DEF Safe, AllManaged
      <3>4. project'[p].state = "there" => There(p)
          BY <1>6 DEF There
      <3>5. QED
          BY <1>1, <1>3, <1>5, <2>4, <3>1, <3>2, <3>3, <3>4 DEF There
    <2>8. \A m \in Leaves : node'[m].status # "imported" /\ node'[m].external # None
            => ((There(node[m].external))' => project'[node'[m].external].tags.managed)
        BY <1>1, <1>6, <1>7, <2>1, <2>2, <2>3 DEF Safe, AllManaged
    <2>9. QED
        BY <1>1, <2>5, <2>6, <2>7, <2>8 DEF AllManaged
<1>17. ViewsHold'
    <2>1. node[l].status # "imported"
        BY <1>1 DEF Safe, StatusesHold, Placed, Serving
    <2>2. QED
        BY <1>1, <1>2, <1>3, <1>5, <1>7, <2>1 DEF Safe, ViewsHold, TypeOK, Promoting, Serving
<1>18. DayKnown'
    BY <1>1, <1>2, <1>3, <1>5, <1>6, <1>7 DEF Safe, DayKnown, TypeOK, ViewsHold
<1>19. OthersMark'
    BY <1>1, <1>2,  <1>6, <1>7 DEF Safe, OthersMark, TypeOK
<1>20. RetiredListed'
    BY <1>1, <1>2, <1>6, <1>7, ConstantsAssumption
        DEF Safe, RetiredListed, TypeOK, Placed, Loading, Promoting, Serving, Finding
<1>21. RecordKept'
    <2>1. Unrecorded' \subseteq Unrecorded
        BY <1>1, <1>3 DEF Unrecorded, Unserved, Promoting, Serving
    <2>2. ASSUME NEW m \in Unrecorded', node[m].external \in DOMAIN listed
          PROVE  \/ node[m].external \in DOMAIN listed'
                 \/ \E k \in DOMAIN byNode' : byNode'[k].id = node[m].external
        BY <1>2, <1>3, <1>5, <2>2
    <2>3. ASSUME NEW k \in DOMAIN byNode
          PROVE  k \in DOMAIN byNode' /\ byNode'[k].id = byNode[k].id
        BY <1>3
    <2>4. \A m \in Unrecorded' : m \in Leaves /\ node[m].external \in Projects \cup {None}
        BY <2>1, <1>1 DEF Unrecorded, Unserved, Promoting, Serving, TypeOK, Safe, Placed,
               NodeRecords
    <2>5. QED
        BY <1>1, <2>1, <2>2, <2>3, <2>4, <1>7 DEF Safe, RecordKept, Promoting, Serving
<1>22. ImportsOnce'
    BY <1>1, <1>2 DEF Safe, ImportsOnce, ImportOf, ImportAt, Promoting, Serving, Finding, TypeOK
<1>23. QED
    BY <1>8, <1>9, <1>10, <1>11, <1>14, <1>15, <1>16, <1>17, <1>18, <1>19, <1>20, <1>21,
           <1>22 DEF Safe

\* No other project can be marked for the node, as it was unserved.
LEMMA CreateProjectKeeps ==
    ASSUME ConstantsAssumption, TypeOK, Safe, NEW l \in Leaves, NEW p \in Projects,
           CreateProject(l, p)
    PROVE  TypeOK' /\ Safe'
<1>1. /\ step = "leaves" /\ step' = "record" /\ at' = <<l, p>>
      /\ l \in todo \ DOMAIN byNode
      /\ UNCHANGED <<node, active, known, retired, imports, listed, byNode, claimed, todo, faults>>
    BY DEF CreateProject, loaded, maps
<1>2. /\ project' \in [Projects -> ProjectRecords]
      /\ ~Born(p) /\ Born(p)' /\ There(p)'
      /\ project'[p].tags.node = l /\ project'[p].tags.managed
      /\ project'[p].tags.deletion = "none"
      /\ \A q \in Projects \ {p} :
            project'[q] = project[q] /\ There(q)' = There(q) /\ Born(q)' = Born(q)
    <2>1. NoTags \in Tags /\ NoTags.deletion = "none"
        BY DEF NoTags, Tags
    <2>2. QED
        BY <2>1, Created, TaggedFor DEF CreateProject, There, Born
<1>3. /\ p \notin DOMAIN listed
      /\ \A m \in DOMAIN byNode : byNode[m].id # p
      /\ \A m \in Leaves : node[m].external # p
    BY <1>2, ConstantsAssumption DEF Safe, BornFirst
<1>4. \A q \in Projects, m \in Leaves : Marked(q, m)' => Marked(q, m) \/ (q = p /\ m = l)
    BY <1>1, <1>2, <1>3 DEF Marked
<1>5. \A q \in Projects : ~Marked(q, l)
    BY <1>1 DEF Safe, UnservedUnmarked, Unserved, Promoting, Serving
<1>6. node[l].status \in {"approved", "released", "archived", "deleted"}
    BY <1>1 DEF Safe, Placed, StatusesHold, Serving
<1> USE <1>1, <1>2, <1>3
<1>7. TypeOK' /\ Placed'
    <2>1. TypeOK'
        BY DEF TypeOK, Steps
    <2>2. Placed'
        BY DEF Safe, Placed, Loading, Promoting, Serving, Finding
    <2>3. QED
        BY <2>1, <2>2
<1>8. BornFirst' /\ StatusesHold'
    <2>1. BornFirst'
        BY DEF Safe, BornFirst, TypeOK, NodeRecords
    <2>2. StatusesHold'
        BY DEF Safe, StatusesHold, Promoting
    <2>3. QED
        BY <2>1, <2>2
<1>9. MarkedOnce' /\ MarkedStored' /\ UnservedUnmarked'
    <2>1. MarkedOnce'
        BY <1>4, <1>5 DEF Safe, MarkedOnce
    <2>2. MarkedStored'
        BY <1>4, <1>6 DEF Safe, MarkedStored
    <2>3. UnservedUnmarked'
        BY <1>4 DEF Safe, UnservedUnmarked, Unserved, Promoting, Serving, Placed, TypeOK
    <2>4. QED
        BY <2>1, <2>2, <2>3
<1>10. AllManaged'
    <2>1. \A m \in Leaves : node[m].external \in Projects \cup {None}
        BY DEF TypeOK, NodeRecords
    <2>2. QED
        BY <2>1 DEF Safe, AllManaged, TypeOK
<1>11. ViewsHold' /\ DayKnown' /\ OthersMark'
    BY DEF Safe, ViewsHold, DayKnown, OthersMark, TypeOK, Promoting, Serving
<1>12. RetiredListed'
    BY DEF Safe, RetiredListed, Placed, TypeOK, Promoting, Serving, Finding
<1>13. RecordKept'
    BY DEF Safe, RecordKept, Unrecorded, Unserved, Promoting, Serving, Placed, TypeOK, NodeRecords
<1>14. ImportsOnce'
    BY DEF Safe, ImportsOnce, ImportOf, ImportAt, Promoting, Serving, Finding
<1>15. QED
    BY <1>7, <1>8, <1>9, <1>10, <1>11, <1>12, <1>13, <1>14 DEF Safe

\* The node remembers the project that was created for it.
LEMMA RecordExternalIDKeeps ==
    ASSUME ConstantsAssumption, TypeOK, Safe, RecordExternalID
    PROVE  TypeOK' /\ Safe'
<1>1. PICK l \in Leaves, p \in Projects :
        /\ l = at[1] /\ p = at[2] /\ l \in todo /\ l \in DOMAIN active
    BY DEF RecordExternalID, Safe, Placed, Serving, TypeOK
<1>2. /\ step \in {"record", "observe"} /\ step' = "leaves" /\ at' = <<None, None>>
      /\ todo' = todo \ {l}
      /\ UNCHANGED <<project, active, known, retired, imports, listed, byNode, claimed, faults>>
    BY <1>1 DEF RecordExternalID, loaded, maps
<1>3. /\ node' \in [Leaves -> NodeRecords]
      /\ node'[l].status = node[l].status
      /\ node'[l].external = node[l].external \/ (Stored(l) /\ node'[l].external = p)
      /\ \A m \in Leaves \ {l} : node'[m] = node[m]
    <2>1. CASE UNCHANGED node
        BY <2>1 DEF TypeOK
    <2>2. CASE Stored(l) /\ node' = [node EXCEPT ![l].external = p]
        BY <2>2, ExternalWritten
    <2>3. QED
        BY <1>1, <2>1, <2>2 DEF RecordExternalID, Recorded
<1>4. node[l].status \in {"approved", "released", "archived", "deleted"}
    BY <1>1 DEF Safe, StatusesHold
<1>5. Born(p) /\ (Scoped \/ (There(p) => project[p].tags.managed))
    BY <1>1, <1>2 DEF Safe, Placed, BornFirst, AllManaged
<1>6. \A q \in Projects, m \in Leaves : Marked(q, m)' = Marked(q, m)
    BY <1>2 DEF Marked, There
<1>7. \A m \in Leaves, q \in Projects : ImportOf(m, q)' = ImportOf(m, q)
    BY <1>3, <1>4 DEF ImportOf
<1>8. Unserved' \subseteq Unserved \ {l}
    BY <1>1, <1>2 DEF Unserved, Promoting, Serving
<1> USE <1>2, <1>3
<1>9. TypeOK' /\ Placed'
    <2>1. TypeOK'
        BY DEF TypeOK, Steps
    <2>2. Placed'
        BY DEF Safe, Placed, Loading, Promoting, Serving, Finding
    <2>3. QED
        BY <2>1, <2>2
<1>10. BornFirst' /\ StatusesHold'
    <2>1. BornFirst'
        BY <1>5, ConstantsAssumption DEF Safe, BornFirst, TypeOK, NodeRecords, There, Born
    <2>2. StatusesHold'
        BY <1>4, ConstantsAssumption DEF Safe, StatusesHold, Promoting, Stored, TypeOK
    <2>3. QED
        BY <2>1, <2>2
<1>11. MarkedOnce' /\ MarkedStored' /\ UnservedUnmarked'
    <2>1. MarkedOnce'
        BY <1>6 DEF Safe, MarkedOnce
    <2>2. MarkedStored'
        BY <1>4, <1>6 DEF Safe, MarkedStored
    <2>3. UnservedUnmarked'
        BY <1>6, <1>8 DEF Safe, UnservedUnmarked, Unserved, Placed, TypeOK, Promoting, Serving
    <2>4. QED
        BY <2>1, <2>2, <2>3
<1>12. AllManaged'
    BY <1>5 DEF Safe, AllManaged, There
<1>13. ViewsHold' /\ DayKnown' /\ OthersMark'
    <2>1. \A m \in Leaves : node'[m].status = node[m].status
        OBVIOUS
    <2>2. \A q \in DOMAIN listed : project[q].tags.node \in Leaves \cup {None}
        BY DEF TypeOK, ProjectRecords, Tags
    <2>3. ViewsHold'
        BY <2>1 DEF Safe, ViewsHold, There, Promoting, Serving, TypeOK
    <2>4. DayKnown' /\ OthersMark'
        BY <2>1, <2>2 DEF Safe, DayKnown, OthersMark, There, TypeOK
    <2>5. QED
        BY <2>3, <2>4
<1>14. RetiredListed'
    BY DEF Safe, RetiredListed, Promoting, Serving, Finding, There
<1>15. RecordKept'
    BY <1>8 DEF Safe, RecordKept, Unrecorded, Unserved, Promoting, Serving, Placed, TypeOK, There
<1>16. ImportsOnce'
    BY <1>7 DEF Safe, ImportsOnce, ImportAt, Promoting, Serving, Finding, TypeOK
<1>17. QED
    BY <1>9, <1>10, <1>11, <1>12, <1>13, <1>14, <1>15, <1>16 DEF Safe

\* updateProject writes the tags it believes in, and those of the node.
LEMMA SyncProjectKeeps ==
    ASSUME ConstantsAssumption, TypeOK, Safe, NEW l \in Leaves, SyncProject(l)
    PROVE  TypeOK' /\ Safe'
<1>1. PICK p \in Projects : p = byNode[l].id
    BY DEF SyncProject, TypeOK
<1>2. /\ step = "leaves" /\ step' = "observe" /\ at' = <<l, p>>
      /\ l \in todo /\ l \in DOMAIN byNode
      /\ UNCHANGED <<node, active, known, retired, imports, listed, byNode, claimed, todo, faults>>
    BY <1>1 DEF SyncProject, loaded, maps
<1>3. l \in DOMAIN active /\ byNode[l].tags \in Tags /\ byNode[l].tags.node \in {None, l}
    BY <1>2 DEF Safe, Placed, ViewsHold, Serving, TypeOK
<1>4. /\ project' \in [Projects -> ProjectRecords] /\ There(p)
      /\ \A q \in Projects : There(q)' = There(q) /\ Born(q)' = Born(q)
      /\ \A q \in Projects \ {p} : project'[q] = project[q]
      /\ project'[p].tags = byNode[l].tags \/ project'[p] = project[p]
    <2>1. There(p)
        BY <1>1 DEF SyncProject
    <2>2. CASE UNCHANGED project
        BY <2>1, <2>2 DEF TypeOK, There, Born
    <2>3. CASE Retag(p, byNode[l].tags)
        BY <1>3, <2>3, Retagged DEF There, Born
    <2>4. QED
        BY <1>1, <2>2, <2>3 DEF SyncProject
<1>5. \A q \in Projects, m \in Leaves : Marked(q, m)' => Marked(q, m)
    BY <1>1, <1>2, <1>4 DEF Marked
<1> USE <1>2, <1>4
<1>6. TypeOK' /\ Placed'
    <2>1. TypeOK'
        BY DEF TypeOK, Steps
    <2>2. Placed'
        BY <1>1 DEF Safe, Placed, Loading, Promoting, Serving, Finding
    <2>3. QED
        BY <2>1, <2>2
<1>7. BornFirst' /\ StatusesHold'
    <2>1. BornFirst'
        BY DEF Safe, BornFirst, TypeOK, NodeRecords
    <2>2. StatusesHold'
        BY DEF Safe, StatusesHold, Promoting
    <2>3. QED
        BY <2>1, <2>2
<1>8. MarkedOnce' /\ MarkedStored' /\ UnservedUnmarked'
    <2>1. MarkedOnce'
        BY <1>5 DEF Safe, MarkedOnce
    <2>2. MarkedStored'
        BY <1>5 DEF Safe, MarkedStored
    <2>3. UnservedUnmarked'
        BY <1>5 DEF Safe, UnservedUnmarked, Unserved, Promoting, Serving, Placed, TypeOK
    <2>4. QED
        BY <2>1, <2>2, <2>3
<1>9. AllManaged'
    <2>1. \A m \in Leaves : node[m].external \in Projects \cup {None}
        BY DEF TypeOK, NodeRecords
    <2>2. QED
        BY <1>1, <2>1 DEF Safe, AllManaged, TypeOK
<1>10. ViewsHold'
    BY DEF Safe, ViewsHold, TypeOK, Promoting, Serving
<1>11. DayKnown'
    BY <1>1 DEF Safe, DayKnown, ViewsHold, TypeOK
<1>12. OthersMark'
    BY <1>1 DEF Safe, OthersMark, ViewsHold, TypeOK
<1>13. RetiredListed'
    BY <1>1, <1>3, ConstantsAssumption DEF Safe, RetiredListed, TypeOK, Promoting, Serving,
           Finding
<1>14. RecordKept' /\ ImportsOnce'
    <2>1. RecordKept'
        BY DEF Safe, RecordKept, Unrecorded, Unserved, Promoting, Serving, Placed, TypeOK,
               NodeRecords
    <2>2. ImportsOnce'
        BY DEF Safe, ImportsOnce, ImportOf, ImportAt, Promoting, Serving, Finding
    <2>3. QED
        BY <2>1, <2>2
<1>15. QED
    BY <1>6, <1>7, <1>8, <1>9, <1>10, <1>11, <1>12, <1>13, <1>14 DEF Safe

-----------------------------------------------------------------------------
(* What becomes of every other project *)

\* Phase 5 imports what belongs to no node.
LEMMA ImportKeeps ==
    ASSUME ConstantsAssumption, TypeOK, Safe, NEW p \in Projects, Import(p)
    PROVE  TypeOK' /\ Safe'
<1>1. /\ step = "found" /\ p \in todo /\ step' = "found" /\ todo' = todo \ {p}
      /\ ~Belongs(p) /\ ~Released(p) /\ ~Tracked(p)
      /\ UNCHANGED <<project, active, known, retired, listed, byNode, claimed, at, faults>>
    BY DEF Import, maps
<1>2. /\ DOMAIN imports' = DOMAIN imports \ {p}
      /\ \A q \in DOMAIN imports' : imports'[q] = imports[q]
    BY DEF Import, Without, Restrict
<1>3. PICK l \in Leaves \cup {None} :
        /\ node' \in [Leaves -> NodeRecords]
        /\ \A m \in Leaves \ {l} : node'[m] = node[m]
        /\ l # None =>
            /\ p \notin DOMAIN imports /\ node[l].status = "new"
            /\ node'[l].status = "imported" /\ node'[l].external = p
    <2>1. CASE UNCHANGED node
        BY <2>1, ConstantsAssumption DEF TypeOK
    <2>2. CASE ~UNCHANGED node
        <3>1. PICK l \in Leaves :
                /\ p \notin DOMAIN imports /\ node[l].status = "new"
                /\ node' = [node EXCEPT ![l].status = "imported", ![l].external = p]
            BY <2>2 DEF Import
        <3>2. QED
            BY <3>1, ImportWritten
    <2>3. QED
        BY <2>1, <2>2
<1>4. p \in DOMAIN listed /\ Born(p) /\ DOMAIN byNode = {}
    BY <1>1 DEF Safe, Placed, BornFirst, Finding
<1>5. \A q \in Projects, m \in Leaves : Marked(q, m)' = Marked(q, m)
    BY <1>1 DEF Marked, There
<1>6. \A q \in Projects : l # None => ~Marked(q, l)
    BY <1>3 DEF Safe, MarkedStored
<1>7. \A m \in Leaves \ {l} :
        node'[m].status = node[m].status /\ node'[m].external = node[m].external
    BY <1>3
<1> USE <1>1, <1>2, <1>4
<1>8. TypeOK' /\ Placed'
    <2>1. TypeOK'
        BY <1>3 DEF TypeOK, Steps
    <2>2. Placed'
        BY DEF Safe, Placed, Loading, Promoting, Serving, Finding
    <2>3. QED
        BY <2>1, <2>2
<1>9. BornFirst' /\ StatusesHold'
    <2>1. BornFirst'
        BY <1>3, <1>7 DEF Safe, BornFirst, There, Born
    <2>2. StatusesHold'
        BY <1>3, <1>7, ConstantsAssumption DEF Safe, StatusesHold, Promoting, TypeOK
    <2>3. QED
        BY <2>1, <2>2
<1>10. MarkedOnce' /\ MarkedStored' /\ UnservedUnmarked'
    <2>1. MarkedOnce'
        BY <1>5 DEF Safe, MarkedOnce
    <2>2. MarkedStored'
        BY <1>5, <1>6, <1>7 DEF Safe, MarkedStored
    <2>3. UnservedUnmarked'
        BY DEF UnservedUnmarked, Unserved, Promoting, Serving
    <2>4. QED
        BY <2>1, <2>2, <2>3
<1>11. AllManaged'
    BY <1>3, <1>7 DEF Safe, AllManaged, There
<1>12. ViewsHold' /\ DayKnown'
    BY DEF Safe, ViewsHold, DayKnown, There, Promoting, Serving
<1>13. OthersMark'
    <2>1. ASSUME NEW q \in DOMAIN listed, There(q), project[q].tags.node \notin {None,
    listed[q].node}
          PROVE  project[q].tags.node # l /\ project[q].tags.node \in Leaves
        <3>1. q \in Projects /\ project[q].tags.node \in Leaves
            BY <2>1 DEF TypeOK, ProjectRecords, Tags
        <3>2. QED
            BY <1>6, <2>1, <3>1 DEF Marked
    <2>2. QED
        BY <1>7, <2>1 DEF Safe, OthersMark, There
<1>14. RetiredListed'
    <2>1. ASSUME NEW m \in DOMAIN retired \ DOMAIN active, There(p), project[p].tags.node = m
          PROVE  FALSE
        <3>1. listed[p].node = m
            BY <2>1 DEF Safe, RetiredListed, Finding
        <3>2. QED
            BY <2>1, <3>1 DEF Belongs, Released, Tagged
    <2>2. QED
        BY <2>1 DEF Safe, RetiredListed, There, Promoting, Serving, Finding
<1>15. RecordKept'
    BY DEF RecordKept, Unrecorded, Unserved, Promoting, Serving
<1>16. ImportsOnce'
    <2>1. ASSUME NEW m \in Leaves \ {l}, NEW q \in Projects, ImportOf(m, q)'
          PROVE  ImportOf(m, q)
        BY <1>7, <2>1 DEF ImportOf
    <2>2. l # None => \A m \in Leaves : ~ImportOf(m, p)
        BY <1>3 DEF Safe, ImportsOnce, ImportAt, Finding
    <2>3. ASSUME NEW q \in Projects, l # None, ImportOf(l, q)'
          PROVE  q = p
        BY <1>3, <2>3 DEF ImportOf
    <2>4. \A m, n \in Leaves, q \in Projects : ImportOf(m, q)' /\ ImportOf(n, q)' => m = n
        BY <2>1, <2>2, <2>3, ConstantsAssumption DEF Safe, ImportsOnce
    <2>5. ASSUME NEW m \in Leaves, NEW q \in DOMAIN listed, ImportOf(m, q)', q \in todo'
          PROVE  ImportAt(m, q)'
        <3>1. q \in Projects /\ q # p /\ q \in todo
            BY <2>5 DEF TypeOK
        <3>2. m # l
            BY <2>3, <2>5, <3>1, ConstantsAssumption
        <3>3. QED
            BY <2>1, <2>5, <3>1, <3>2 DEF Safe, ImportsOnce, ImportAt, Finding
    <2>6. QED
        BY <2>4, <2>5 DEF ImportsOnce, Promoting, Serving
<1>17. QED
    BY <1>8, <1>9, <1>10, <1>11, <1>12, <1>13, <1>14, <1>15, <1>16 DEF Safe

\* handleReleasedProject writes tags that name the node the listed ones named.
LEMMA TagsOfRetiredKeep ==
    ASSUME ConstantsAssumption, TypeOK, Safe, NEW p \in Projects,
           TagReleased(p) \/ (ArchiveProject /\ p = at[2])
    PROVE  TypeOK' /\ Safe'
<1>1. /\ step \in Finding /\ p \in todo /\ p \in DOMAIN listed
      /\ step' = "end" /\ at' = <<listed[p].node, p>>
      /\ listed[p].node \in DOMAIN retired \ DOMAIN active
      /\ UNCHANGED <<node, active, known, retired, imports, byNode, claimed, todo, faults>>
    <2>1. CASE TagReleased(p)
        BY <2>1 DEF TagReleased, Released, Belongs, Tagged, loaded, Safe, Placed, Finding
    <2>2. CASE ArchiveProject /\ p = at[2]
        BY <2>2 DEF ArchiveProject, loaded, Safe, Placed, Finding, TypeOK
    <2>3. QED
        BY <2>1, <2>2
<1>2. PICK tags \in Tags :
        /\ DOMAIN listed' = DOMAIN listed
        /\ listed'[p] = tags /\ \A q \in DOMAIN listed \ {p} : listed'[q] = listed[q]
        /\ tags.node = listed[p].node /\ tags.managed = listed[p].managed
        /\ listed[p].deletion # "none" => tags.deletion # "none"
        /\ project' \in [Projects -> ProjectRecords]
        /\ \A q \in Projects : There(q)' = There(q) /\ Born(q)' = Born(q)
        /\ \A q \in Projects \ {p} : project'[q] = project[q]
        /\ project'[p] = project[p] \/ (There(p) /\ project'[p].tags = tags)
        /\ tags = listed[p] \/ project'[p].tags = tags
    <2>1. listed[p] \in Tags
        BY <1>1 DEF TypeOK
    <2>2. CASE UNCHANGED <<project, listed>>
        BY <1>1, <2>1, <2>2 DEF TypeOK, There, Born
    <2>3. CASE /\ Retag(p, TagsOfReleased(listed[p]))
               /\ listed' = [listed EXCEPT ![p] = TagsOfReleased(listed[p])]
        BY <1>1, <2>1, <2>3, OfReleased, Retagged DEF There, Born
    <2>4. CASE /\ Update(p, [listed[p] EXCEPT !.archived = TRUE], FALSE)
               /\ listed' = [listed EXCEPT ![p] = [listed[p] EXCEPT !.archived = TRUE]]
        <3>1. /\ [listed[p] EXCEPT !.archived = TRUE] \in Tags
              /\ [listed[p] EXCEPT !.archived = TRUE].node = listed[p].node
              /\ [listed[p] EXCEPT !.archived = TRUE].managed = listed[p].managed
              /\ [listed[p] EXCEPT !.archived = TRUE].deletion = listed[p].deletion
            BY <2>1 DEF Tags
        <3>2. QED
            BY <1>1, <2>4, <3>1, Updated DEF There, Born
    <2>5. QED
        BY <2>2, <2>3, <2>4 DEF TagReleased, ArchiveProject
<1>3. DOMAIN byNode = {} /\ p \in DOMAIN listed
    BY <1>1 DEF Safe, Placed
<1>4. \A q \in Projects, m \in Leaves : Marked(q, m)' => Marked(q, m)
    BY <1>1, <1>2, <1>3 DEF Marked
<1> USE <1>1, <1>2, <1>3
<1>5. TypeOK' /\ Placed'
    <2>1. TypeOK'
        BY DEF TypeOK, Steps
    <2>2. Placed'
        BY DEF Safe, Placed, Loading, Promoting, Serving, Finding
    <2>3. QED
        BY <2>1, <2>2
<1>6. BornFirst' /\ StatusesHold'
    <2>1. \A m \in Leaves : node[m].external \in Projects \cup {None}
        BY DEF TypeOK, NodeRecords
    <2>2. BornFirst'
        BY <2>1 DEF Safe, BornFirst, TypeOK
    <2>3. StatusesHold'
        BY DEF Safe, StatusesHold, Promoting
    <2>4. QED
        BY <2>2, <2>3
<1>7. MarkedOnce' /\ MarkedStored' /\ UnservedUnmarked'
    BY <1>4 DEF Safe, MarkedOnce, MarkedStored, UnservedUnmarked, Unserved, Promoting, Serving
<1>8. AllManaged'
    <2>1. \A m \in Leaves : node[m].external \in Projects \cup {None}
        BY DEF TypeOK, NodeRecords
    <2>2. QED
        BY <2>1 DEF Safe, AllManaged, TypeOK
<1>9. ViewsHold' /\ DayKnown'
    <2>1. ViewsHold'
        BY DEF Safe, ViewsHold, TypeOK, Promoting, Serving
    <2>2. DayKnown'
        BY DEF Safe, DayKnown, TypeOK
    <2>3. QED
        BY <2>1, <2>2
<1>10. OthersMark' /\ RetiredListed'
    <2>1. OthersMark'
        BY DEF Safe, OthersMark, TypeOK
    <2>2. RetiredListed'
        BY DEF Safe, RetiredListed, TypeOK, Promoting, Serving, Finding
    <2>3. QED
        BY <2>1, <2>2
<1>11. RecordKept' /\ ImportsOnce'
    BY DEF Safe, RecordKept, Unrecorded, Unserved, ImportsOnce, ImportOf, ImportAt, Promoting,
           Serving, Finding
<1>12. QED
    BY <1>5, <1>6, <1>7, <1>8, <1>9, <1>10, <1>11 DEF Safe

-----------------------------------------------------------------------------
(* The invariant *)

\* No node, no project, and no pass.
LEMMA InitSafe ==
    ASSUME ConstantsAssumption, Init
    PROVE  TypeOK /\ Safe
<1>1. DOMAIN Empty = {}
    BY DEF Empty
<1>2. \A l \in Leaves : node[l].status = "new" /\ node[l].external = None
    BY DEF Init, NoNode
<1>3. \A p \in Projects : ~There(p) /\ project[p].tags.node = None
            /\ project[p].tags.deletion = "none"
    BY DEF Init, NoProject, NoTags, There
<1>4. TypeOK
    <2>1. NoNode \in NodeRecords /\ NoProject \in ProjectRecords
        BY DEF NoNode, NodeRecords, Statuses, NoProject, ProjectRecords, NoTags, Tags
    <2>2. QED
        BY <1>1, <2>1, ConstantsAssumption DEF Init, TypeOK, Steps
<1>5. Placed /\ BornFirst /\ StatusesHold
    BY <1>1, <1>2, <1>3 DEF Init, Placed, BornFirst, StatusesHold, Loading, Promoting, Serving,
           Finding
<1>6. MarkedOnce /\ MarkedStored /\ UnservedUnmarked
    BY <1>3 DEF Init, MarkedOnce, MarkedStored, UnservedUnmarked, Unserved, Marked, Promoting,
           Serving
<1>7. AllManaged /\ ViewsHold /\ DayKnown /\ OthersMark
    BY <1>1, <1>2, <1>3 DEF Init, AllManaged, ViewsHold, DayKnown, OthersMark, Promoting, Serving
<1>8. RetiredListed /\ RecordKept /\ ImportsOnce
    BY <1>1, <1>2 DEF Init, RetiredListed, RecordKept, Unrecorded, Unserved, ImportsOnce,
           ImportOf, Promoting, Serving
<1>9. QED
    BY <1>4, <1>5, <1>6, <1>7, <1>8 DEF Safe

\* One step per action.
LEMMA NextSafe ==
    ASSUME ConstantsAssumption, TypeOK, Safe, [Next]_vars
    PROVE  TypeOK' /\ Safe'
<1>1. CASE UNCHANGED vars
    <2>1. UNCHANGED <<node, project, step, active, retired, known, listed, byNode, imports, claimed,
                      todo, at, faults>>
        BY <1>1 DEF vars, pass, loaded, maps
    <2>2. TypeOK'
        BY <1>1 DEF vars, pass, loaded, maps, TypeOK
    <2>3. Placed' /\ BornFirst' /\ StatusesHold'
        BY <2>1 DEF Safe, Placed, BornFirst, StatusesHold, There, Born, ImportOf
    <2>4. MarkedOnce' /\ MarkedStored' /\ UnservedUnmarked'
        BY <2>1 DEF Safe, MarkedOnce, MarkedStored, UnservedUnmarked, Marked, Unserved, There
    <2>5. AllManaged'
        BY <2>1, ZenonT(40) DEF Safe, AllManaged, There
    <2>6. ViewsHold' /\ DayKnown' /\ OthersMark'
        BY <2>1 DEF Safe, ViewsHold, DayKnown, OthersMark, There
    <2>7. RetiredListed' /\ RecordKept' /\ ImportsOnce'
        BY <2>1 DEF Safe, RetiredListed, RecordKept, ImportsOnce, Unrecorded, Unserved, ImportOf,
               ImportAt, There
    <2>8. QED
        BY <2>2, <2>3, <2>4, <2>5, <2>6, <2>7 DEF Safe
<1>2. CASE UseTree \/ UseOpenStack
    BY <1>2, MeanwhileKeeps
<1>3. CASE Crash \/ LoadFails \/ EndPass
    BY <1>3, ForgottenKeeps DEF Crash, LoadFails, EndPass
<1>4. CASE LoadActive \/ LoadKnown \/ LoadProjects
    BY <1>4, LoadKeeps, LoadProjectsKeeps
<1>5. CASE PromoteStep
    BY <1>5, TagForPromotionKeeps, PromoteKeeps, ContinuesKeeps DEF PromoteStep, Continues
<1>6. CASE LeafStep
    BY <1>6, SyncProjectKeeps, RecoverKeeps, CreateProjectKeeps, RecordExternalIDKeeps,
       ContinuesKeeps DEF LeafStep, Continues
<1>7. CASE ProjectStep
    <2>1. ArchiveProject => at[2] \in Projects
        BY DEF ArchiveProject, Safe, Placed, TypeOK
    <2>2. QED
        BY <1>7, <2>1, ImportKeeps, TagsOfRetiredKeep, ContinuesKeeps DEF ProjectStep, Continues
<1>8. CASE RemovalStep
    BY <1>3, <1>8, ContinuesKeeps DEF RemovalStep, Continues
<1>9. QED
    BY <1>1, <1>2, <1>3, <1>4, <1>5, <1>6, <1>7, <1>8 DEF Next, PassStep, LoadStep

\* What the theorems below are read off from.
LEMMA AlwaysSafe ==
    ASSUME ConstantsAssumption
    PROVE  Spec => [](TypeOK /\ Safe)
<1>1. Init => TypeOK /\ Safe
    BY InitSafe
<1>2. TypeOK /\ Safe /\ [Next]_vars => (TypeOK /\ Safe)'
    BY NextSafe
<1>3. QED
    BY <1>1, <1>2, PTL DEF Spec

\* What the runs check of types holds for every instance: the program writes
\* no record, tag, list or position that the model has no room for.
THEOREM TypeCorrect == ASSUME ConstantsAssumption PROVE Spec => []TypeOK
BY AlwaysSafe, PTL

\* The tag finds one project at most (projectByResourceID): whatever fails,
\* crashes or is tampered with, no pass ever gives two projects the tag of one
\* node.
THEOREM OneProject == ASSUME ConstantsAssumption PROVE Spec => []OneProjectPerNode
<1>1. TypeOK /\ Safe => OneProjectPerNode
    <2>1. ASSUME TypeOK, Safe, NEW p \in Projects, NEW q \in Projects,
                 There(p), There(q), project[p].tags.node # None,
                 project[p].tags.node = project[q].tags.node
          PROVE  p = q
        <3>1. project[p].tags.node \in Leaves
            BY <2>1 DEF TypeOK, ProjectRecords, Tags
        <3>2. QED
            BY <2>1, <3>1 DEF Safe, MarkedOnce, Marked
    <2>2. QED
        BY <2>1 DEF OneProjectPerNode
<1>2. QED
    BY <1>1, AlwaysSafe, PTL

\* What a step can do to a project.
Spared(p) ==
    /\ There(p)' = There(p) /\ Born(p)' = Born(p)
    /\ project[p].enabled => project'[p].enabled
    /\ project[p].tags.deletion # "none" => project'[p].tags.deletion # "none"

\* It comes into being, without a tag or as the project of a node.
Appears(p) ==
    /\ ~Born(p) /\ ~There(p) /\ project[p].tags.deletion = "none"
    /\ \/ project'[p].tags.node = None
       \/ \E l \in Leaves : CreateProject(l, p) /\ project'[p].tags.node = l

\* archiveProject switches it off; the day of its deletion stays.
Archived(p) ==
    /\ ArchiveProject /\ p = at[2]
    /\ There(p) /\ Born(p)' = Born(p)
    /\ project[p].tags.deletion # "none" => project'[p].tags.deletion # "none"

\* It ends: by a purge, or by tampering.
Goes(p) ==
    /\ There(p) /\ ~There(p)'
    /\ (PurgeDeletes /\ p = at[2]) \/ faults' # faults

\* Every step does one of these to a project: only a purge or tampering ends one.
LEMMA ProjectsChange ==
    ASSUME ConstantsAssumption, TypeOK, Safe, [Next]_vars, NEW p \in Projects
    PROVE  Spared(p) \/ Appears(p) \/ Archived(p) \/ Goes(p)
<1>1. CASE UNCHANGED project
    BY <1>1 DEF Spared, There, Born
<1>2. ASSUME NEW q \in Projects, NEW tags \in Tags,
             Retag(q, tags),
             There(q) /\ project[q].tags.deletion # "none" => tags.deletion # "none"
      PROVE  Spared(p)
    BY <1>2, Retagged DEF Spared, There, Born
<1>3. CASE UseOpenStack
    <2>1. PICK q \in Projects : AppearProject(q) \/ GraceEnds(q) \/ DropTag(q) \/ DeleteProject(q)
        BY <1>3 DEF UseOpenStack
    <2>2. project[q] \in ProjectRecords /\ project[q].tags \in Tags /\ faults \in Nat
        BY ConstantsAssumption DEF TypeOK, ProjectRecords
    <2>3. CASE p # q
        BY <2>1, <2>3 DEF AppearProject, GraceEnds, DropTag, DeleteProject, Spared, There, Born,
               TypeOK
    <2>4. CASE p = q /\ AppearProject(q)
        BY <2>2, <2>4 DEF AppearProject, Appears, There, Born, TypeOK, ProjectRecords, Safe,
               BornFirst
    <2>5. CASE p = q /\ GraceEnds(q)
        <3>1. project' = [project EXCEPT ![q] =
                [project[q] EXCEPT !.tags = [project[q].tags EXCEPT !.deletion = "due"]]]
            BY <2>5 DEF GraceEnds
        <3>2. QED
            BY <2>2, <2>5, <3>1 DEF Spared, There, Born, TypeOK, ProjectRecords, Tags
    <2>6. CASE p = q /\ DropTag(q)
        BY <2>2, <2>6, Dropped DEF DropTag, Spared, There, Born
    <2>7. CASE p = q /\ DeleteProject(q)
        <3>1. faults' # faults
            BY <2>2, <2>7 DEF DeleteProject, Fault
        <3>2. QED
            BY <2>7, <3>1, DeletedProject DEF DeleteProject, Goes
    <2>8. QED
        BY <2>1, <2>3, <2>4, <2>5, <2>6, <2>7
<1>4. CASE \E l \in Leaves, q \in Projects : TagForPromotion(l, q) \/ Recover(l, q)
    <2>1. PICK l \in Leaves, q \in Projects : TagForPromotion(l, q) \/ Recover(l, q)
        BY <1>4
    <2>2. q \in DOMAIN listed /\ listed[q] \in Tags
        BY <2>1 DEF TagForPromotion, Recover, Recoverable, TypeOK
    <2>3. UNCHANGED project \/ Retag(q, TagsFor(l, listed[q]))
        BY <2>1 DEF TagForPromotion, Recover
    <2>4. QED
        BY <1>1, <1>2, <2>2, <2>3, TaggedFor DEF Safe, DayKnown
<1>5. CASE \E l \in Leaves : SyncProject(l)
    <2>1. PICK l \in Leaves : SyncProject(l)
        BY <1>5
    <2>2. byNode[l].id \in Projects /\ byNode[l].tags \in Tags /\ l \in DOMAIN byNode
        BY <2>1 DEF SyncProject, TypeOK
    <2>3. QED
        BY <1>1, <1>2, <2>1, <2>2 DEF SyncProject, Safe, DayKnown
<1>6. CASE \E l \in Leaves, q \in Projects : CreateProject(l, q)
    <2>1. PICK l \in Leaves, q \in Projects : CreateProject(l, q)
        BY <1>6
    <2>2. Create(q, l) /\ NoTags \in Tags
        BY <2>1 DEF CreateProject, NoTags, Tags
    <2>3. CASE p = q
        BY <2>1, <2>2, <2>3, Created, TaggedFor DEF Appears, Safe, BornFirst, There, Born
    <2>4. CASE p # q
        BY <2>2, <2>4, Created DEF Spared, There, Born
    <2>5. QED
        BY <2>3, <2>4
<1>7. CASE \E q \in Projects : TagReleased(q)
    <2>1. PICK q \in Projects : TagReleased(q)
        BY <1>7
    <2>2. q \in DOMAIN listed /\ listed[q] \in Tags
        BY <2>1 DEF TagReleased, Safe, Placed, Finding, TypeOK
    <2>3. UNCHANGED project \/ Retag(q, TagsOfReleased(listed[q]))
        BY <2>1 DEF TagReleased
    <2>4. QED
        BY <1>1, <1>2, <2>2, <2>3, OfReleased
<1>8. CASE PurgeGoesOn \/ PurgeDeletes \/ ArchiveProject
    <2>1. PICK q \in Projects : q = at[2] /\ q \in DOMAIN listed
        BY <1>8 DEF PurgeGoesOn, PurgeDeletes, ArchiveProject, Safe, Placed, Finding, TypeOK
    <2>2. listed[q] \in Tags /\ project[q].tags \in Tags
        BY <2>1 DEF TypeOK, ProjectRecords
    <2>3. CASE PurgeGoesOn
        <3>1. UNCHANGED project \/ Update(q, project[q].tags, TRUE)
            BY <2>1, <2>3 DEF PurgeGoesOn
        <3>2. ASSUME Update(q, project[q].tags, TRUE)
              PROVE  Spared(p)
            BY <2>2, <3>2, Updated DEF Spared, There, Born
        <3>3. QED
            BY <1>1, <3>1, <3>2
    <2>4. CASE PurgeDeletes
        BY <2>1, <2>4, DeletedProject DEF PurgeDeletes, Spared, Goes, There, Born
    <2>5. CASE ArchiveProject
        <3>1. /\ [listed[q] EXCEPT !.archived = TRUE] \in Tags
              /\ [listed[q] EXCEPT !.archived = TRUE].deletion = listed[q].deletion
            BY <2>2 DEF Tags
        <3>2. Update(q, [listed[q] EXCEPT !.archived = TRUE], FALSE)
            BY <2>1, <2>5 DEF ArchiveProject
        <3>3. /\ There(q) /\ There(q)' /\ project'[q].tags.deletion = listed[q].deletion
              /\ \A r \in Projects \ {q} : project'[r] = project[r]
            BY <3>1, <3>2, Updated
        <3>4. CASE p = q
            BY <2>1, <2>5, <3>3, <3>4 DEF Archived, Safe, DayKnown, There, Born
        <3>5. CASE p # q
            BY <3>3, <3>5 DEF Spared, There, Born
        <3>6. QED
            BY <3>4, <3>5
    <2>6. QED
        BY <1>8, <2>3, <2>4, <2>5
<1>9. QED
    <2>1. CASE UseTree \/ Crash \/ RemovalStep \/ LoadStep \/ UNCHANGED vars
        BY <1>1, <2>1, UseTreeFollows DEF Crash, RemovalStep, StartRemovals, EndPass,
               RemoveStaleImport, RemoveLost, LoadStep, LoadActive, LoadKnown, LoadProjects,
               LoadFails, vars
    <2>2. CASE PromoteStep \/ LeafStep
        BY <1>1, <1>4, <1>5, <1>6, <2>2 DEF PromoteStep, LeafStep, SkipPromotion, PromotionFails,
               Promote, StartLeaves, SkipLeaf, RemoveShadow, RecordExternalID, StartProjects
    <2>3. CASE ProjectStep
        BY <1>1, <1>7, <1>8, <2>3 DEF ProjectStep, LeaveProject, Import, RemovePurged,
               MarkArchived, KeepReleased
    <2>4. QED
        BY <1>3, <2>1, <2>2, <2>3 DEF Next, PassStep

\* The day of a deletion is set once (tagReleasedProject): no tag update, made
\* from whichever listing, takes it back.
THEOREM DayStays == ASSUME ConstantsAssumption PROVE Spec => DeletionDayStays
<1>1. TypeOK /\ Safe /\ [Next]_vars =>
        [\A p \in Projects :
            project[p].tags.deletion # "none" /\ There(p)'
                => project'[p].tags.deletion # "none"]_vars
    BY ProjectsChange DEF Spared, Appears, Archived, Goes
<1>2. QED
    BY <1>1, AlwaysSafe, PTL DEF Spec, DeletionDayStays

\* A second project is created for no node whose recorded one can be had
\* (recoverUntaggedProject), for any number of faults.
THEOREM NeverASecond == ASSUME ConstantsAssumption PROVE Spec => NoSecondProject
<1> DEFINE A == \A l \in Leaves, p, q \in Projects :
        CreatedFor(l, p) /\ node[l].external = q /\ There(q)
            => /\ project[q].tags.node # l
               /\ project[q].tags.node = None => GivenToAnother(l, q)
<1>1. ASSUME TypeOK, Safe, [Next]_vars, NEW l \in Leaves, NEW p \in Projects, NEW q \in Projects,
             CreatedFor(l, p), node[l].external = q, There(q)
      PROVE  /\ project[q].tags.node # l
             /\ project[q].tags.node = None => GivenToAnother(l, q)
    <2>1. CreateProject(l, p)
        <3>1. PICK m \in Leaves : CreateProject(m, p) /\ project'[p].tags.node = m
            BY <1>1, ProjectsChange, ConstantsAssumption
                DEF CreatedFor, Spared, Appears, Archived, Goes, There, Born
        <3>2. QED
            BY <1>1, <3>1 DEF CreatedFor
    <2>2. /\ step = "leaves" /\ l \in todo \ DOMAIN byNode /\ ~Recoverable(l, q)
        BY <2>1 DEF CreateProject
    <2>3. l \in Unserved /\ l \in Unrecorded
        BY <2>2 DEF Unserved, Unrecorded, Promoting, Serving
    <2>4. project[q].tags.node # l
        BY <1>1, <2>3 DEF Safe, UnservedUnmarked, Marked
    <2>5. q # None /\ node[l].status # "deleted"
        BY <1>1, ConstantsAssumption DEF Safe, StatusesHold
    <2>6. /\ active[l].external = q
          /\ q \in DOMAIN listed \/ \E m \in DOMAIN byNode : byNode[m].id = q
        BY <1>1, <2>2, <2>3, <2>5 DEF Safe, RecordKept, Serving
    <2>7. CASE \E m \in DOMAIN byNode : byNode[m].id = q
        BY <2>2, <2>4, <2>7 DEF GivenToAnother
    <2>8. CASE q \in DOMAIN listed
        <3>1. listed[q].node # None /\ listed[q].node # l
            BY <2>2, <2>6, <2>8, <1>1 DEF Recoverable, Safe, Placed
        <3>2. listed[q].node \in DOMAIN byNode \ {l} /\ byNode[listed[q].node].id = q
            BY <1>1, <2>2, <2>8, <3>1 DEF Safe, ViewsHold, Serving
        <3>3. QED
            BY <2>4, <3>2 DEF GivenToAnother
    <2>9. QED
        BY <2>6, <2>7, <2>8
<1>2. TypeOK /\ Safe /\ [Next]_vars => [A]_vars
    BY <1>1
<1>3. QED
    BY <1>2, AlwaysSafe, PTL DEF Spec, NoSecondProject

\* The record of a node is given up only without a project
\* (removeReleasedLeavesWithoutProject).
THEOREM RemovedWithoutProject ==
    ASSUME ConstantsAssumption PROVE Spec => RemovedOnlyWithoutProject
<1> DEFINE A == \A l \in Leaves, p \in Projects :
        Removes(l) /\ There(p) => project[p].tags.node # l
<1>1. ASSUME TypeOK, Safe, [Next]_vars, NEW l \in Leaves, NEW p \in Projects,
             Removes(l), There(p), project[p].tags.node = l
      PROVE  FALSE
    <2>1. /\ IsRetired(node[l].status) /\ node'[l].status = "deleted" /\ node'[l] # node[l]
          /\ step \in {"remove", "removals"} /\ todo' # todo
          /\ ~(l \in DOMAIN active /\ l \in DOMAIN retired)
        BY <1>1 DEF Removes, IsRetired, ReleasedWhileLoading
    <2>2. ~UNCHANGED node /\ ~UNCHANGED todo
        BY <2>1
    <2>3. \/ RemovePurged
          \/ \E m \in Leaves : RemoveLost(m) \/ RemoveStaleImport(m)
        <3>1. ~UseTree /\ ~UseOpenStack /\ ~Crash /\ ~UNCHANGED vars
            BY <1>1, <2>2, UseTreeFollows, UseOpenStackGoesOn DEF pass, Crash, vars, Safe
        <3>2. ~LoadStep /\ ~PromoteStep /\ ~LeafStep
            BY <2>1, <2>2 DEF LoadStep, LoadActive, LoadKnown, LoadProjects, LoadFails,
                   PromoteStep, SkipPromotion, PromotionFails, TagForPromotion, Promote,
                   StartLeaves, LeafStep, SyncProject, SkipLeaf, Recover, CreateProject,
                   RemoveShadow, RecordExternalID, StartProjects
        <3>3. ProjectStep => RemovePurged
            BY <2>1 DEF ProjectStep, LeaveProject, Import, TagReleased, PurgeGoesOn, PurgeDeletes,
                   ArchiveProject, MarkArchived, KeepReleased
        <3>4. RemovalStep => \E m \in Leaves : RemoveLost(m) \/ RemoveStaleImport(m)
            BY <2>2 DEF RemovalStep, StartRemovals, EndPass
        <3>5. QED
            BY <1>1, <3>1, <3>2, <3>3, <3>4 DEF Next, PassStep
    <2>4. CASE RemovePurged
        <3>1. /\ step = "remove" /\ l = at[1] /\ at[1] \in DOMAIN retired \ DOMAIN active
              /\ at[2] \in DOMAIN listed /\ listed[at[2]].node = l /\ ~There(at[2])
            BY <1>1, <2>1, <2>4 DEF RemovePurged, RemovedRetired, Safe, Placed, BornFirst,
                   Finding, TypeOK
        <3>2. p \in DOMAIN listed /\ listed[p].node = l
            BY <1>1, <3>1 DEF Safe, RetiredListed, Finding
        <3>3. p = at[2]
            BY <1>1, <3>1, <3>2, ConstantsAssumption DEF Safe, ViewsHold
        <3>4. QED
            BY <1>1, <3>1, <3>3
    <2>5. CASE \E m \in Leaves : RemoveLost(m) \/ RemoveStaleImport(m)
        <3>1. PICK m \in Leaves : RemoveLost(m) \/ RemoveStaleImport(m)
            BY <2>5
        <3>2. step = "removals" /\ m = l /\ RemoveLost(l)
            BY <1>1, <2>1, <3>1 DEF RemoveLost, RemoveStaleImport, RemovedRetired, RemovedImport,
                   IsRetired, TypeOK
        <3>3. l \in DOMAIN retired \ DOMAIN active
            BY <2>1, <3>2 DEF RemoveLost
        <3>4. QED
            BY <1>1, <3>2, <3>3 DEF Safe, RetiredListed
    <2>6. QED
        BY <2>3, <2>4, <2>5
<1>2. TypeOK /\ Safe /\ [Next]_vars => [A]_vars
    BY <1>1
<1>3. QED
    BY <1>2, AlwaysSafe, PTL DEF Spec, RemovedOnlyWithoutProject

-----------------------------------------------------------------------------
(* While nobody tampers with a project in OpenStack *)

Working == Promoting \cup Serving

\* What was listed is there, but for the project the pass has just deleted.
ListedThere ==
    /\ step \in Working =>
        (\A p \in DOMAIN listed : There(p)) /\ (\A l \in DOMAIN byNode : There(byNode[l].id))
    /\ step \in Finding => \A p \in todo : There(p) \/ (step = "remove" /\ p = at[2])

\* The project of an active node has its tag, and is no import.
ServedOwn ==
    step \in Working =>
        \A l \in DOMAIN byNode \cap DOMAIN active :
            /\ byNode[l].tags.node = l /\ project[byNode[l].id].tags.node = l
            /\ \A m \in Leaves : ~ImportOf(m, byNode[l].id)

\* An active node keeps the project it had when it was loaded; what it has none
\* for in phase 4 has lost it: there is nothing to recover.
LostUnserved ==
    step \in {"known", "projects"} \cup Working =>
        \A l \in DOMAIN active :
            active[l].external # None =>
                /\ Born(active[l].external)
                /\ There(active[l].external) => project[active[l].external].tags.node = l
                /\ step \in Working /\ l \notin DOMAIN byNode => ~There(active[l].external)

\* A project the pass has just created, or tagged for an import it adopts.
TaggedAnew ==
    /\ step \in {"record", "adopt"} => There(at[2]) /\ project[at[2]].tags.node = at[1]
    /\ step = "record" => \A l \in Leaves : node[l].external # at[2]

\* The recorded project of a node has its tag.
OwnerTagged ==
    \A l \in Leaves :
        /\ node[l].status # "imported" /\ node[l].external # None /\ There(node[l].external)
        => project[node[l].external].tags.node = l

\* No project is recorded on two nodes.
RecordedOnce ==
    \A l, m \in Leaves :
        node[l].external # None /\ node[l].external = node[m].external => l = m

\* The tag of an import names it, or a node that is gone; which was so when the
\* nodes were loaded.
ForeignGone ==
    \A l \in Leaves, p \in Projects, t \in Leaves :
        ImportOf(l, p) /\ There(p) /\ project[p].tags.node = t /\ t # l =>
            /\ node[t].status = "deleted"
            /\ step \in {"known", "projects"} => t \notin DOMAIN active
            /\ step = "projects" => t \notin DOMAIN retired

\* A tag names a node the pass knows, an import, or one that is gone.
OwnersKnown ==
    /\ step = "projects" =>
        \A p \in Projects, l \in Leaves :
            /\ There(p) /\ project[p].tags.node = l
            /\ node[l].status \notin {"imported", "deleted"}
            => l \in known
    /\ step \in Working \cup Finding =>
        \A p \in DOMAIN listed, l \in Leaves :
            /\ There(p) /\ listed[p].node = l
            /\ node[l].status \notin {"imported", "deleted"}
            => l \in known

\* A project listed as that of an active or a retired node is no import.
OwnersNoImports ==
    \A p \in DOMAIN listed :
        /\ step \in Working \/ (step \in Finding /\ p \in todo)
        /\ listed[p].node \in DOMAIN active \cup DOMAIN retired
        => \A l \in Leaves : ~ImportOf(l, p)

Undisturbed ==
    /\ ListedThere /\ ServedOwn /\ LostUnserved /\ TaggedAnew
    /\ OwnerTagged /\ RecordedOnce
    /\ ForeignGone /\ OwnersKnown /\ OwnersNoImports

\* A step that leaves the tags of nodes alone, and deletes a project only where
\* the pass does.
Steady ==
    \A p \in Projects :
        /\ There(p)' => project'[p].tags.node = project[p].tags.node
        /\ There(p) /\ ~(There(p)') =>
            step = "end" /\ step' = "remove" /\ p = at[2] /\ UNCHANGED at

\* A step that goes on with what was loaded, or with less of it.
Progress ==
    /\ step' \in {"known", "projects"} => step' = step /\ UNCHANGED known
    /\ step' \in Working => step \in Working /\ UNCHANGED <<byNode, known>>
    /\ step' \in Finding =>
        /\ UNCHANGED known
        /\ \/ step = "leaves" /\ todo' = DOMAIN listed
           \/ step \in Finding /\ todo' \subseteq todo
        /\ step = "remove" => at[2] \notin todo' \/ (step' = "remove" /\ UNCHANGED at)

\* What people, the tree and OpenStack do beside a pass, as long as nobody tampers.
LEMMA MeanwhileSteady ==
    ASSUME ConstantsAssumption, TypeOK, Safe, UseTree \/ UseOpenStack, faults' = faults
    PROVE  Onward /\ Steady /\ Progress
<1>1. Onward /\ UNCHANGED pass
    BY UseTreeFollows, UseOpenStackGoesOn, SameGoOn DEF Safe, Onward, pass, loaded, maps, TypeOK
<1>2. Steady
    <2>1. CASE UseTree
        BY <2>1, UseTreeFollows DEF Steady, There
    <2>2. CASE UseOpenStack
        <3>1. PICK p \in Projects : AppearProject(p) \/ GraceEnds(p)
            <4>1. faults \in Nat
                BY ConstantsAssumption DEF TypeOK
            <4>2. QED
                BY <2>2, <4>1 DEF UseOpenStack, DropTag, DeleteProject, Fault
        <3>2. project[p] \in ProjectRecords /\ project[p].tags \in Tags
            BY DEF TypeOK, ProjectRecords
        <3>3. CASE AppearProject(p)
            BY <3>2, <3>3 DEF AppearProject, Steady, There, TypeOK, ProjectRecords
        <3>4. CASE GraceEnds(p)
            <4>1. project' = [project EXCEPT ![p] =
                    [project[p] EXCEPT !.tags = [project[p].tags EXCEPT !.deletion = "due"]]]
                BY <3>4 DEF GraceEnds
            <4>2. QED
                BY <3>2, <4>1 DEF Steady, There, TypeOK, ProjectRecords, Tags
        <3>5. QED
            BY <3>1, <3>3, <3>4
    <2>3. QED
        BY <2>1, <2>2
<1>3. Progress
    BY <1>1 DEF Progress, pass, loaded, maps, Working, Finding, Promoting, Serving
<1>4. QED
    BY <1>1, <1>2, <1>3

\* The part of a pass that only goes on.
LEMMA ContinuesSteady ==
    ASSUME ConstantsAssumption, TypeOK, Safe, Continues
    PROVE  Onward /\ Steady /\ Progress
<1>1. Onward /\ Moves /\ Kept
    BY ContinuesOnward, ContinuesMoves
<1>2. Steady
    <2>1. CASE UNCHANGED project
        BY <2>1 DEF Steady, There
    <2>2. CASE PurgeGoesOn /\ ~UNCHANGED project
        <3>1. PICK p \in Projects : p = at[2]
            BY <2>2 DEF PurgeGoesOn, Safe, Placed, TypeOK
        <3>2. project[p].tags \in Tags /\ Update(p, project[p].tags, TRUE)
            BY <2>2, <3>1 DEF PurgeGoesOn, TypeOK, ProjectRecords
        <3>3. /\ There(p) /\ There(p)' /\ project'[p].tags = project[p].tags
              /\ \A q \in Projects \ {p} : project'[q] = project[q]
            BY <3>2, Updated
        <3>4. QED
            BY <3>3 DEF Steady, There
    <2>3. CASE PurgeDeletes
        <3>1. PICK p \in Projects : p = at[2]
            BY <2>3 DEF PurgeDeletes, Safe, Placed, TypeOK
        <3>2. /\ project' = [project EXCEPT ![p] = Gone]
              /\ step = "end" /\ step' = "remove" /\ UNCHANGED at
            BY <2>3, <3>1 DEF PurgeDeletes
        <3>3. QED
            BY <3>1, <3>2, DeletedProject DEF Steady, There
    <2>4. QED
        BY <2>1, <2>2, <2>3 DEF Continues, SkipPromotion, PromotionFails, SkipLeaf,
               RemoveStaleImport, RemoveLost, StartLeaves, RemoveShadow, StartProjects,
               LeaveProject, RemovePurged, MarkArchived, KeepReleased, StartRemovals
<1>3. Progress
    <2>1. step' \notin {"known", "projects"}
        BY <1>1 DEF Moves, Promoting
    <2>2. step' \in Working => step \in Working /\ UNCHANGED <<byNode, known>>
        BY <1>1 DEF Moves, Kept, Working, Promoting, Serving
    <2>3. step' \in Finding =>
            /\ UNCHANGED known
            /\ \/ step = "leaves" /\ todo' = DOMAIN listed
               \/ step \in Finding /\ todo' \subseteq todo
            /\ step = "remove" => at[2] \notin todo'
        BY <1>1 DEF Moves, Finding, Promoting
    <2>4. QED
        BY <2>1, <2>2, <2>3 DEF Progress
<1>4. QED
    BY <1>1, <1>2, <1>3

\* A step that keeps its lists and writes no tag keeps what holds undisturbed.
LEMMA SteadyUndisturbed ==
    ASSUME ConstantsAssumption, TypeOK, Safe, Undisturbed, Onward, Steady, Progress
    PROVE  Undisturbed'
<1>1. \A l \in Leaves :
        /\ node[l].external \in Projects \cup {None}
        /\ node'[l].external \in {None, node[l].external}
        /\ node'[l].external # None /\ node'[l].status # "imported" =>
            node[l].status # "imported"
        /\ node'[l].status \notin {"imported", "deleted"} /\ node[l].status # "new" =>
            node[l].status \notin {"imported", "deleted"}
        /\ node[l].status = "deleted" => node'[l].status = "deleted"
    BY DEF TypeOK, NodeRecords, Onward, NodesGoOn, Follows
<1>2. \A l \in Leaves, p \in Projects : ImportOf(l, p)' => ImportOf(l, p)
    BY ConstantsAssumption DEF Onward, NodesGoOn, Follows, ImportOf
<1>3. \A p \in Projects :
        /\ Born(p) => Born(p)'
        /\ There(p)' /\ (Born(p) \/ project'[p].tags.node # None) =>
            There(p) /\ project'[p].tags.node = project[p].tags.node
        /\ There(p) /\ step # "end" => There(p)'
    BY DEF Onward, ProjectsGoOn, Steady, Safe, BornFirst
<1>4. /\ DOMAIN active \subseteq Leaves /\ DOMAIN listed \subseteq Projects
      /\ DOMAIN byNode \subseteq Leaves
      /\ \A l \in DOMAIN byNode : byNode[l].id \in Projects
      /\ \A l \in DOMAIN active : active[l].external \in Projects \cup {None}
    BY DEF TypeOK, NodeRecords
<1>5. /\ UNCHANGED <<active, listed>> /\ DOMAIN retired' \subseteq DOMAIN retired
    BY DEF Onward
<1>6. \A p \in DOMAIN listed : Born(p)
    BY DEF Safe, BornFirst
<1>7. ListedThere'
    <2>1. ASSUME step' \in Working
          PROVE  /\ \A p \in DOMAIN listed' : There(p)'
                 /\ \A l \in DOMAIN byNode' : (There(byNode[l].id))'
        <3>1. step \in Working /\ step # "end" /\ UNCHANGED byNode
            BY <2>1 DEF Progress, Working, Promoting, Serving
        <3>2. \A p \in Projects : There(p) => There(p)'
            BY <1>3, <3>1
        <3>3. QED
            BY <1>4, <1>5, <3>1, <3>2 DEF Undisturbed, ListedThere, There
    <2>2. ASSUME step' \in Finding, NEW p \in todo'
          PROVE  There(p)' \/ (step' = "remove" /\ p = at'[2])
        <3>1. p \in Projects
            BY <1>4, <1>5, <2>2 DEF Progress, Safe, Placed, Finding
        <3>2. CASE step = "leaves"
            BY <1>3, <1>4, <2>2, <3>1, <3>2 DEF Progress, Undisturbed, ListedThere, Working,
                   Serving, Finding
        <3>3. CASE step \in Finding
            BY <1>3, <2>2, <3>1, <3>3 DEF Progress, Steady, Undisturbed, ListedThere, Finding
        <3>4. QED
            BY <2>2, <3>2, <3>3 DEF Progress
    <2>3. QED
        BY <2>1, <2>2 DEF ListedThere
<1>8. ServedOwn'
    <2>1. CASE step' \in Working
        <3>1. step \in Working /\ UNCHANGED byNode
            BY <2>1 DEF Progress
        <3>2. \A l \in DOMAIN byNode :
                /\ There(byNode[l].id)
                /\ project'[byNode[l].id].tags.node = project[byNode[l].id].tags.node
            BY <1>3, <1>4, <3>1 DEF Undisturbed, ListedThere, Steady, Working, Promoting, Serving
        <3>3. \A l \in DOMAIN byNode, m \in Leaves :
                ~ImportOf(m, byNode[l].id) =>
                    ~(node'[m].status = "imported" /\ node'[m].external = byNode[l].id)
            BY <1>2, <1>4 DEF ImportOf
        <3>4. QED
            BY <1>5, <3>1, <3>2, <3>3 DEF Undisturbed, ServedOwn, ImportOf
    <2>2. QED
        BY <2>1 DEF ServedOwn
<1>9. LostUnserved'
    <2>1. CASE step' \in {"known", "projects"} \cup Working
        <3>1. /\ step \in {"known", "projects"} \cup Working
              /\ step' \in Working => step \in Working /\ UNCHANGED byNode
            BY <2>1 DEF Progress
        <3>2. \A l \in DOMAIN active : active[l].external # None =>
                /\ active[l].external \in Projects
                /\ Born(active[l].external)
                /\ There(active[l].external) => project[active[l].external].tags.node = l
                /\ step \in Working /\ l \notin DOMAIN byNode => ~There(active[l].external)
            BY <1>4, <3>1 DEF Undisturbed, LostUnserved
        <3>3. \A l \in DOMAIN active : active[l].external # None =>
                /\ project'[active[l].external].state # "unborn"
                /\ project'[active[l].external].state = "there" =>
                    /\ project[active[l].external].state = "there"
                    /\ project'[active[l].external].tags.node = l
            BY <1>3, <3>2 DEF There, Born
        <3>4. QED
            BY <1>5, <3>1, <3>2, <3>3 DEF LostUnserved, There, Born
    <2>2. QED
        BY <2>1 DEF LostUnserved
<1>10. TaggedAnew'
    <2>1. CASE step' \in {"record", "adopt"}
        <3>1. step = step' /\ UNCHANGED at
            BY <2>1 DEF Onward
        <3>2. PICK p \in Projects : p = at[2]
            BY <2>1, <3>1 DEF Safe, Placed, TypeOK
        <3>3. There(p) /\ project[p].tags.node = at[1]
            BY <2>1, <3>1, <3>2 DEF Undisturbed, TaggedAnew
        <3>4. There(p)' /\ project'[p].tags.node = at[1]
            BY <1>3, <2>1, <3>1, <3>3 DEF Steady
        <3>5. step' = "record" => \A l \in Leaves : node'[l].external # p
            BY <1>1, <3>1, <3>2, ConstantsAssumption DEF Undisturbed, TaggedAnew
        <3>6. QED
            BY <3>1, <3>2, <3>4, <3>5 DEF TaggedAnew, There
    <2>2. QED
        BY <2>1 DEF TaggedAnew
<1>11. OwnerTagged' /\ RecordedOnce'
    <2>1. \A l \in Leaves : node'[l].external # None =>
            /\ node'[l].external = node[l].external
            /\ Born(node[l].external) /\ node[l].external \in Projects
        BY <1>1 DEF Safe, BornFirst
    <2>2. OwnerTagged'
        BY <1>1, <1>3, <2>1 DEF Undisturbed, OwnerTagged, There, Born
    <2>3. RecordedOnce'
        BY <2>1 DEF Undisturbed, RecordedOnce
    <2>4. QED
        BY <2>2, <2>3
<1>12. ForeignGone'
    <2>1. ASSUME NEW l \in Leaves, NEW p \in Projects, NEW t \in Leaves,
                 ImportOf(l, p)', There(p)', project'[p].tags.node = t, t # l
          PROVE  /\ node'[t].status = "deleted"
                 /\ step' \in {"known", "projects"} => t \notin DOMAIN active'
                 /\ step' = "projects" => t \notin DOMAIN retired'
        <3>1. ImportOf(l, p) /\ There(p) /\ project[p].tags.node = t
            BY <1>2, <1>3, <2>1, ConstantsAssumption
        <3>2. QED
            BY <1>1, <1>5, <2>1, <3>1 DEF Undisturbed, ForeignGone, Progress
    <2>2. QED
        BY <2>1 DEF ForeignGone
<1>13. OwnersKnown'
    <2>1. ASSUME NEW p \in Projects, NEW l \in Leaves, step' = "projects",
                 There(p)', project'[p].tags.node = l,
                 node'[l].status \notin {"imported", "deleted"}
          PROVE  l \in known'
        <3>1. There(p) /\ project[p].tags.node = l
            BY <1>3, <2>1, ConstantsAssumption
        <3>2. node[l].status # "new"
            BY <3>1 DEF Safe, MarkedStored, Marked
        <3>3. QED
            BY <1>1, <2>1, <3>1, <3>2 DEF Undisturbed, OwnersKnown, Progress
    <2>2. ASSUME NEW p \in DOMAIN listed, NEW l \in Leaves, step' \in Working \cup Finding,
                 There(p)', listed[p].node = l, node'[l].status \notin {"imported", "deleted"}
          PROVE  l \in known'
        <3>1. There(p)
            BY <1>3, <1>4, <1>6, <2>2
        <3>2. node[l].status # "new"
            BY <1>4, <2>2, <3>1 DEF Safe, MarkedStored, Marked
        <3>3. step \in Working \cup Finding /\ UNCHANGED known
            BY <2>2 DEF Progress, Working, Serving
        <3>4. QED
            BY <1>1, <2>2, <3>1, <3>2, <3>3 DEF Undisturbed, OwnersKnown
    <2>3. QED
        BY <1>5, <2>1, <2>2 DEF OwnersKnown
<1>14. OwnersNoImports'
    <2>1. ASSUME NEW p \in DOMAIN listed, NEW l \in Leaves,
                 step' \in Working \/ (step' \in Finding /\ p \in todo'),
                 listed[p].node \in DOMAIN active \cup DOMAIN retired', ImportOf(l, p)'
          PROVE  FALSE
        <3>1. step \in Working \/ (step \in Finding /\ p \in todo)
            BY <2>1 DEF Progress, Working, Serving
        <3>2. ImportOf(l, p) /\ listed[p].node \in DOMAIN active \cup DOMAIN retired
            BY <1>2, <1>4, <1>5, <2>1
        <3>3. QED
            BY <3>1, <3>2 DEF Undisturbed, OwnersNoImports
    <2>2. QED
        BY <1>5, <2>1 DEF OwnersNoImports
<1>15. QED
    BY <1>7, <1>8, <1>9, <1>10, <1>11, <1>12, <1>13, <1>14 DEF Undisturbed

\* A pass that is over, or crashed, believes nothing.
LEMMA ForgottenUndisturbed ==
    ASSUME Undisturbed, Forgotten, UNCHANGED <<node, project, faults>>
    PROVE  Undisturbed'
<1>1. ListedThere' /\ ServedOwn' /\ LostUnserved' /\ TaggedAnew'
    BY DEF Forgotten, ListedThere, ServedOwn, LostUnserved, TaggedAnew, Working, Promoting,
           Serving, Finding
<1>2. OwnerTagged' /\ RecordedOnce'
    BY DEF Undisturbed, OwnerTagged, RecordedOnce, There
<1>3. ForeignGone' /\ OwnersKnown' /\ OwnersNoImports'
    BY DEF Forgotten, Undisturbed, ForeignGone, OwnersKnown, OwnersNoImports, ImportOf, There,
           Working, Promoting, Serving, Finding
<1>4. QED
    BY <1>1, <1>2, <1>3 DEF Undisturbed

\* Phases 1 and 2, when nobody has tampered.
LEMMA LoadUndisturbed ==
    ASSUME ConstantsAssumption, TypeOK, Safe, Undisturbed, LoadActive \/ LoadKnown
    PROVE  Undisturbed'
<1>1. /\ UNCHANGED <<node, project, listed, byNode, todo, at>>
      /\ step' \in {"known", "projects"}
    BY DEF LoadActive, LoadKnown, maps
<1>2. \/ /\ step = "idle" /\ step' = "known"
         /\ DOMAIN active' = {l \in Leaves : node[l].status = "approved"}
         /\ \A l \in DOMAIN active' : active'[l] = node[l]
      \/ /\ step = "known" /\ step' = "projects" /\ UNCHANGED active
         /\ known' = {l \in Leaves : IsKnown(node[l].status)}
         /\ DOMAIN retired' = {l \in Leaves : IsRetired(node[l].status)}
    BY DEF LoadActive, LoadKnown, Having
<1>3. ListedThere' /\ ServedOwn' /\ TaggedAnew'
    BY <1>1 DEF ListedThere, ServedOwn, TaggedAnew, Working, Promoting, Serving, Finding
<1>4. LostUnserved'
    <2>1. CASE step = "idle"
        <3>1. \A l \in DOMAIN active' : active'[l].external # None =>
                /\ Born(active'[l].external)
                /\ There(active'[l].external) => project[active'[l].external].tags.node = l
            BY <1>2, <2>1 DEF Undisturbed, OwnerTagged, Safe, BornFirst
        <3>2. QED
            BY <1>1, <3>1 DEF LostUnserved, Working, Promoting, Serving, There, Born
    <2>2. CASE step = "known"
        BY <1>1, <1>2, <2>2 DEF Undisturbed, LostUnserved, Working, Promoting, Serving, There, Born
    <2>3. QED
        BY <1>2, <2>1, <2>2
<1>5. OwnerTagged' /\ RecordedOnce'
    BY <1>1 DEF Undisturbed, OwnerTagged, RecordedOnce, There
<1>6. ForeignGone'
    <2>1. ASSUME NEW l \in Leaves, NEW p \in Projects, NEW t \in Leaves,
                 ImportOf(l, p), There(p), project[p].tags.node = t, t # l
          PROVE  /\ node[t].status = "deleted"
                 /\ t \notin DOMAIN active'
                 /\ step' = "projects" => t \notin DOMAIN retired'
        <3>1. /\ node[t].status = "deleted"
              /\ step = "known" => t \notin DOMAIN active
            BY <2>1 DEF Undisturbed, ForeignGone
        <3>2. QED
            BY <1>2, <3>1 DEF IsRetired
    <2>2. QED
        BY <1>1, <2>1 DEF ForeignGone, ImportOf, There
<1>7. OwnersKnown'
    <2>1. ASSUME NEW p \in Projects, NEW l \in Leaves, step' = "projects",
                 There(p), project[p].tags.node = l, node[l].status \notin {"imported", "deleted"}
          PROVE  l \in known'
        <3>1. node[l].status # "new"
            BY <2>1 DEF Safe, MarkedStored, Marked
        <3>2. node[l].status \in Statuses
            BY DEF TypeOK, NodeRecords
        <3>3. QED
            BY <1>2, <2>1, <3>1, <3>2 DEF IsKnown, Statuses
    <2>2. QED
        BY <1>1, <2>1 DEF OwnersKnown, There, Working, Promoting, Serving, Finding
<1>8. OwnersNoImports'
    BY <1>1 DEF OwnersNoImports, Working, Promoting, Serving, Finding
<1>9. QED
    BY <1>3, <1>4, <1>5, <1>6, <1>7, <1>8 DEF Undisturbed

\* What was listed is what is there.
LEMMA LoadProjectsUndisturbed ==
    ASSUME ConstantsAssumption, TypeOK, Safe, Undisturbed, LoadProjects
    PROVE  Undisturbed'
<1> DEFINE scope == {p \in Projects : InScope(p)}
<1>1. /\ step = "projects" /\ step' = "promote"
      /\ UNCHANGED <<node, project, active, known, retired, at>>
    BY DEF LoadProjects
<1>2. /\ DOMAIN listed' = scope /\ \A p \in scope : listed'[p] = project[p].tags
    BY DEF LoadProjects
<1>3. /\ DOMAIN byNode' = {l \in Leaves : \E p \in scope : project[p].tags.node = l}
      /\ \A l \in DOMAIN byNode' :
            /\ byNode'[l].id \in scope /\ project[byNode'[l].id].tags.node = l
            /\ byNode'[l].tags = project[byNode'[l].id].tags
    <2> DEFINE of(l) == {p \in scope : project[p].tags.node = l}
               named == {l \in Leaves : of(l) # {}}
    <2>1. PICK f \in [named -> scope] :
            /\ \A l \in named : f[l] \in of(l)
            /\ byNode' = [l \in named |-> [id |-> f[l], tags |-> project[f[l]].tags]]
        BY DEF LoadProjects
    <2>2. QED
        BY <2>1
<1>4. \A p \in scope : p \in Projects /\ There(p)
    BY DEF InScope
<1>5. \A p \in Projects : There(p) /\ project[p].tags.node # None => p \in scope
    BY DEF InScope, Safe, AllManaged
<1>6. DOMAIN active \subseteq Leaves /\ DOMAIN retired \subseteq Leaves
    BY DEF TypeOK
\* An import that is tagged for an active or a retired node would have been
\* tagged for it when that was loaded.
<1>7. ASSUME NEW m \in Leaves, NEW p \in Projects, ImportOf(m, p), There(p),
             project[p].tags.node \in DOMAIN active \cup DOMAIN retired
      PROVE  FALSE
    <2>1. project[p].tags.node \in Leaves /\ project[p].tags.node # m
        BY <1>6, <1>7 DEF Safe, StatusesHold, ImportOf
    <2>2. QED
        BY <1>1, <1>7, <2>1 DEF Undisturbed, ForeignGone
<1> HIDE DEF scope
<1>8. ListedThere'
    BY <1>1, <1>2, <1>3, <1>4 DEF ListedThere, There, Finding
<1>9. ServedOwn'
    <2>1. ASSUME NEW l \in DOMAIN byNode' \cap DOMAIN active
          PROVE  /\ byNode'[l].tags.node = l /\ project[byNode'[l].id].tags.node = l
                 /\ \A m \in Leaves : ~ImportOf(m, byNode'[l].id)
        BY <1>3, <1>4, <1>7, <2>1
    <2>2. QED
        BY <1>1, <2>1 DEF ServedOwn, ImportOf
<1>10. LostUnserved'
    <2>1. ASSUME NEW l \in DOMAIN active, active[l].external # None
          PROVE  /\ Born(active[l].external)
                 /\ There(active[l].external) => project[active[l].external].tags.node = l
                 /\ l \notin DOMAIN byNode' => ~There(active[l].external)
        <3>1. PICK p \in Projects : p = active[l].external
            BY <2>1 DEF TypeOK, NodeRecords
        <3>2. Born(p) /\ (There(p) => project[p].tags.node = l)
            BY <1>1, <2>1, <3>1 DEF Undisturbed, LostUnserved
        <3>3. There(p) => l \in DOMAIN byNode'
            BY <1>3, <1>5, <1>6, <3>2, ConstantsAssumption
        <3>4. QED
            BY <3>1, <3>2, <3>3
    <2>2. QED
        BY <1>1, <2>1 DEF LostUnserved, There, Born
<1>11. TaggedAnew' /\ OwnerTagged' /\ RecordedOnce' /\ ForeignGone'
    BY <1>1 DEF Undisturbed, TaggedAnew, OwnerTagged, RecordedOnce, ForeignGone, ImportOf, There
<1>12. OwnersKnown'
    <2>1. ASSUME NEW p \in DOMAIN listed', NEW l \in Leaves, There(p), listed'[p].node = l,
                 node[l].status \notin {"imported", "deleted"}
          PROVE  l \in known
        BY <1>1, <1>2, <1>4, <2>1 DEF Undisturbed, OwnersKnown
    <2>2. QED
        BY <1>1, <2>1 DEF OwnersKnown, There
<1>13. OwnersNoImports'
    <2>1. ASSUME NEW p \in DOMAIN listed', NEW l \in Leaves, ImportOf(l, p),
                 listed'[p].node \in DOMAIN active \cup DOMAIN retired
          PROVE  FALSE
        BY <1>2, <1>4, <1>7, <2>1
    <2>2. QED
        BY <1>1, <2>1 DEF OwnersNoImports, ImportOf
<1>14. QED
    BY <1>8, <1>9, <1>10, <1>11, <1>12, <1>13 DEF Undisturbed

\* The writes of phases 3 and 4, when nobody has tampered.
LEMMA TagForPromotionUndisturbed ==
    ASSUME ConstantsAssumption, TypeOK, Safe, Undisturbed, NEW l \in Leaves, NEW p \in Projects,
           TagForPromotion(l, p)
    PROVE  Undisturbed'
<1>1. /\ step = "promote" /\ step' = "adopt" /\ at' = <<l, p>>
      /\ p \in DOMAIN imports /\ imports[p] = l /\ p \in DOMAIN listed
      /\ UNCHANGED <<node, active, known, retired, imports, listed, byNode, todo>>
    BY DEF TagForPromotion, ImportAt, loaded, maps
<1>2. ImportOf(l, p)
    BY <1>1 DEF Safe, StatusesHold, Promoting
<1>3. /\ There(p) /\ project'[p].tags.node = l
      /\ \A q \in Projects : There(q)' = There(q) /\ Born(q)' = Born(q)
      /\ \A q \in Projects \ {p} : project'[q] = project[q]
    <2>1. listed[p] \in Tags /\ Retag(p, TagsFor(l, listed[p]))
        BY <1>1 DEF TagForPromotion, TypeOK
    <2>2. QED
        BY <2>1, TaggedFor, Retagged DEF There, Born
<1>4. \A m \in Leaves : node[m].external = p => m = l
    BY <1>2, ConstantsAssumption DEF Undisturbed, RecordedOnce, ImportOf
<1>5. l \notin DOMAIN active /\ l \notin DOMAIN retired
    BY <1>2 DEF Safe, StatusesHold, ImportOf
\* The project recorded on an active node is not the one of the import.
<1>6. \A m \in DOMAIN active : active[m].external = p => FALSE
    <2>1. ASSUME NEW m \in DOMAIN active, active[m].external = p
          PROVE  FALSE
        <3>1. m \in Leaves /\ p # None
            BY ConstantsAssumption DEF TypeOK
        <3>2. project[p].tags.node = m /\ m \in DOMAIN byNode
            BY <1>1, <1>3, <2>1, <3>1 DEF Undisturbed, LostUnserved, Working, Promoting
        <3>3. There(byNode[m].id) /\ byNode[m].tags.node = m /\ byNode[m].id \in Projects
            BY <1>1, <3>2 DEF Undisturbed, ListedThere, ServedOwn, Working, Promoting, TypeOK
        <3>4. byNode[m].id = p
            BY <1>3, <3>1, <3>2, <3>3 DEF Safe, MarkedOnce, Marked
        <3>5. QED
            BY <1>1, <1>2, <3>2, <3>4 DEF Undisturbed, ServedOwn, Working, Promoting
    <2>2. QED
        BY <2>1
<1> USE <1>1, <1>3
<1>7. ListedThere'
    <2>1. \A q \in DOMAIN listed : q \in Projects
        BY DEF TypeOK
    <2>2. \A m \in DOMAIN byNode : byNode[m].id \in Projects
        BY DEF TypeOK
    <2>3. \A q \in DOMAIN listed : project'[q].state = "there"
        BY <2>1 DEF Undisturbed, ListedThere, There, Working, Promoting
    <2>4. \A m \in DOMAIN byNode : project'[byNode[m].id].state = "there"
        BY <2>2 DEF Undisturbed, ListedThere, There, Working, Promoting
    <2>5. QED
        BY <2>3, <2>4 DEF ListedThere, There, Finding
<1>8. ServedOwn'
    <2>1. \A m \in DOMAIN byNode \cap DOMAIN active :
            byNode[m].id \in Projects \ {p}
        BY <1>2 DEF TypeOK, Undisturbed, ServedOwn, Working, Promoting
    <2>2. QED
        BY <2>1 DEF Undisturbed, ServedOwn, ImportOf, Working, Promoting
<1>9. LostUnserved'
    <2>1. \A m \in DOMAIN active : active[m].external # None =>
            active[m].external \in Projects \ {p}
        BY <1>6 DEF TypeOK, NodeRecords
    <2>2. QED
        BY <2>1 DEF Undisturbed, LostUnserved, There, Born, Working, Promoting
<1>10. TaggedAnew'
    BY DEF TaggedAnew, There
<1>11. OwnerTagged' /\ RecordedOnce'
    <2>1. \A m \in Leaves : node[m].external \in Projects \cup {None}
        BY DEF TypeOK, NodeRecords
    <2>2. \A m \in Leaves : node[m].external = p => node[m].status = "imported"
        BY <1>2, <1>4 DEF ImportOf
    <2>3. OwnerTagged'
        BY <2>1, <2>2 DEF Undisturbed, OwnerTagged, There
    <2>4. RecordedOnce'
        BY DEF Undisturbed, RecordedOnce
    <2>5. QED
        BY <2>3, <2>4
<1>12. ForeignGone'
    <2>1. ASSUME NEW m \in Leaves, NEW q \in Projects, NEW t \in Leaves,
                 ImportOf(m, q), There(q), project'[q].tags.node = t, t # m
          PROVE  node[t].status = "deleted"
        <3>1. q # p
            BY <1>4, <2>1 DEF ImportOf
        <3>2. QED
            BY <2>1, <3>1 DEF Undisturbed, ForeignGone
    <2>2. QED
        BY <2>1 DEF ForeignGone, ImportOf
<1>13. OwnersKnown' /\ OwnersNoImports'
    <2>1. OwnersKnown'
        BY DEF Undisturbed, OwnersKnown, TypeOK, Working, Promoting
    <2>2. OwnersNoImports'
        BY DEF Undisturbed, OwnersNoImports, ImportOf, Working, Promoting
    <2>3. QED
        BY <2>1, <2>2
<1>14. QED
    BY <1>7, <1>8, <1>9, <1>10, <1>11, <1>12, <1>13 DEF Undisturbed

\* The import takes the tag of its node.
LEMMA PromoteUndisturbed ==
    ASSUME ConstantsAssumption, TypeOK, Safe, Undisturbed, NEW l \in Leaves, NEW p \in Projects,
           Promote(l, p)
    PROVE  Undisturbed'
<1>1. /\ step = "adopt" /\ step' = "promote" /\ at = <<l, p>>
      /\ UNCHANGED <<project, active, known, retired>>
    BY DEF Promote
<1>2. ImportOf(l, p) /\ p \in DOMAIN listed
    BY <1>1 DEF Safe, Placed, StatusesHold, Promoting
<1>3. /\ node'[l].status = "pending" /\ node'[l].external = p
      /\ \A m \in Leaves \ {l} : node'[m] = node[m]
    BY <1>2, PromotionWritten DEF Promote, ImportOf
<1>4. DOMAIN listed' = DOMAIN listed \ {p} /\ \A q \in DOMAIN listed' : listed'[q] = listed[q]
    BY DEF Promote, Without, Restrict
<1>5. /\ DOMAIN byNode' = DOMAIN byNode \cup {l}
      /\ \A m \in DOMAIN byNode \ {l} : byNode'[m] = byNode[m]
      /\ byNode'[l].id = p
    BY DEF Promote, With
<1>6. l \notin DOMAIN active /\ l \notin DOMAIN retired
    BY <1>2 DEF Safe, StatusesHold, ImportOf
<1>7. There(p) /\ project[p].tags.node = l
    BY <1>1 DEF Undisturbed, TaggedAnew
<1>8. \A m \in Leaves, q \in Projects : ImportOf(m, q)' => ImportOf(m, q)
    BY <1>3 DEF ImportOf
<1>9. \A m \in Leaves : node'[m].external = node[m].external
    BY <1>2, <1>3 DEF ImportOf
<1> USE <1>1
<1>10. ListedThere'
    BY <1>4, <1>5, <1>7 DEF Undisturbed, ListedThere, There, Working, Promoting, Serving, Finding
<1>11. ServedOwn'
    <2>1. ASSUME NEW m \in DOMAIN byNode' \cap DOMAIN active
          PROVE  /\ byNode'[m].tags.node = m /\ project[byNode'[m].id].tags.node = m
                 /\ \A n \in Leaves : ~ImportOf(n, byNode'[m].id)
        BY <1>5, <1>6, <2>1 DEF Undisturbed, ServedOwn, Working, Promoting
    <2>2. \A m \in DOMAIN byNode' \cap DOMAIN active : byNode'[m].id \in Projects
        BY <1>5, <1>6 DEF TypeOK
    <2>3. QED
        BY <1>8, <2>1, <2>2 DEF ServedOwn, ImportOf
<1>12. LostUnserved'
    BY <1>5, <1>6 DEF Undisturbed, LostUnserved, There, Born, Working, Promoting
<1>13. TaggedAnew' /\ OwnerTagged' /\ RecordedOnce'
    <2>1. TaggedAnew'
        BY DEF TaggedAnew
    <2>2. OwnerTagged'
        BY <1>3, <1>7, <1>9 DEF Undisturbed, OwnerTagged, There
    <2>3. RecordedOnce'
        BY <1>9 DEF Undisturbed, RecordedOnce
    <2>4. QED
        BY <2>1, <2>2, <2>3
<1>14. ForeignGone'
    <2>1. ASSUME NEW m \in Leaves, NEW q \in Projects, NEW t \in Leaves,
                 ImportOf(m, q)', There(q), project[q].tags.node = t, t # m
          PROVE  node'[t].status = "deleted"
        <3>1. node[t].status = "deleted"
            BY <1>8, <2>1 DEF Undisturbed, ForeignGone
        <3>2. QED
            BY <1>2, <1>3, <3>1 DEF ImportOf
    <2>2. QED
        BY <2>1 DEF ForeignGone, There
<1>15. OwnersKnown'
    <2>1. ASSUME NEW q \in DOMAIN listed', NEW m \in Leaves, There(q), listed'[q].node = m,
                 node'[m].status \notin {"imported", "deleted"}
          PROVE  m \in known
        <3>1. q \in DOMAIN listed /\ q \in Projects /\ q # p /\ listed[q].node = m
            BY <1>4, <2>1 DEF TypeOK
        <3>2. m # l
            BY <1>2, <2>1, <3>1 DEF Safe, MarkedStored, Marked, ImportOf
        <3>3. QED
            BY <1>3, <2>1, <3>1, <3>2 DEF Undisturbed, OwnersKnown, Working, Promoting
    <2>2. QED
        BY <2>1 DEF OwnersKnown, There
<1>16. OwnersNoImports'
    <2>1. ASSUME NEW q \in DOMAIN listed', NEW m \in Leaves, ImportOf(m, q)',
                 listed'[q].node \in DOMAIN active \cup DOMAIN retired
          PROVE  FALSE
        <3>1. q \in DOMAIN listed /\ q \in Projects /\ listed'[q] = listed[q]
            BY <1>4, <2>1 DEF TypeOK
        <3>2. QED
            BY <1>8, <2>1, <3>1 DEF Undisturbed, OwnersNoImports, Working, Promoting
    <2>2. QED
        BY <2>1 DEF OwnersNoImports
<1>17. QED
    BY <1>10, <1>11, <1>12, <1>13, <1>14, <1>15, <1>16 DEF Undisturbed

\* There is nothing to recover.
LEMMA NothingToRecover ==
    ASSUME ConstantsAssumption, TypeOK, Safe, Undisturbed, NEW l \in Leaves, NEW p \in Projects
    PROVE  ~Recover(l, p)
<1>1. ASSUME Recover(l, p)
      PROVE  FALSE
    <2>1. /\ step = "leaves" /\ l \in todo /\ l \notin DOMAIN byNode
          /\ p = active[l].external /\ p \in DOMAIN listed
        BY <1>1 DEF Recover, Recoverable
    <2>2. l \in DOMAIN active /\ There(p) /\ p # None
        BY <2>1, ConstantsAssumption DEF Safe, Placed, Undisturbed, ListedThere, Working, Serving
    <2>3. QED
        BY <2>1, <2>2 DEF Undisturbed, LostUnserved, Working, Serving
<1>2. QED
    BY <1>1

\* The created project is nobody's record yet.
LEMMA CreateProjectUndisturbed ==
    ASSUME ConstantsAssumption, TypeOK, Safe, Undisturbed, NEW l \in Leaves, NEW p \in Projects,
           CreateProject(l, p)
    PROVE  Undisturbed'
<1>1. /\ step = "leaves" /\ step' = "record" /\ at' = <<l, p>>
      /\ UNCHANGED <<node, active, known, retired, listed, byNode, todo>>
    BY DEF CreateProject, loaded, maps
<1>2. /\ ~Born(p) /\ There(p)' /\ project'[p].tags.node = l
      /\ \A q \in Projects \ {p} : project'[q] = project[q]
    <2>1. NoTags \in Tags
        BY DEF NoTags, Tags
    <2>2. QED
        BY <2>1, Created, TaggedFor DEF CreateProject, There, Born
<1>3. /\ p \notin DOMAIN listed
      /\ \A m \in DOMAIN byNode : byNode[m].id # p
      /\ \A m \in Leaves : node[m].external # p
      /\ \A m \in DOMAIN active : active[m].external # p
    <2>1. \A m \in DOMAIN active : active[m].external # None => Born(active[m].external)
        BY <1>1 DEF Undisturbed, LostUnserved, Working, Serving
    <2>2. QED
        BY <1>2, <2>1, ConstantsAssumption DEF Safe, BornFirst
<1>4. /\ \A q \in DOMAIN listed : q \in Projects \ {p}
      /\ \A m \in DOMAIN byNode : byNode[m].id \in Projects \ {p}
      /\ \A m \in Leaves : node[m].external \in (Projects \ {p}) \cup {None}
      /\ \A m \in DOMAIN active : active[m].external \in (Projects \ {p}) \cup {None}
    BY <1>3 DEF TypeOK, NodeRecords
<1>5. \A m \in Leaves : ~ImportOf(m, p)
    BY <1>3 DEF ImportOf
<1> USE <1>1, <1>2, <1>4
<1>6. ListedThere' /\ ServedOwn'
    <2>1. ListedThere'
        BY DEF Undisturbed, ListedThere, There, Working, Promoting, Serving, Finding
    <2>2. ServedOwn'
        BY DEF Undisturbed, ServedOwn, ImportOf, Working, Serving
    <2>3. QED
        BY <2>1, <2>2
<1>7. LostUnserved'
    BY DEF Undisturbed, LostUnserved, There, Born, Working, Serving
<1>8. TaggedAnew'
    BY <1>3 DEF TaggedAnew, There
<1>9. OwnerTagged' /\ RecordedOnce'
    BY DEF Undisturbed, OwnerTagged, RecordedOnce, There
<1>10. ForeignGone'
    BY <1>5 DEF Undisturbed, ForeignGone, ImportOf, There
<1>11. OwnersKnown' /\ OwnersNoImports'
    <2>1. OwnersKnown'
        BY DEF Undisturbed, OwnersKnown, There, Working, Serving
    <2>2. OwnersNoImports'
        BY DEF Undisturbed, OwnersNoImports, ImportOf, Working, Serving
    <2>3. QED
        BY <2>1, <2>2
<1>12. QED
    BY <1>6, <1>7, <1>8, <1>9, <1>10, <1>11 DEF Undisturbed

\* From here on the node has it on record.
LEMMA RecordExternalIDUndisturbed ==
    ASSUME ConstantsAssumption, TypeOK, Safe, Undisturbed, RecordExternalID
    PROVE  Undisturbed'
<1>1. PICK l \in Leaves, p \in Projects :
        /\ l = at[1] /\ p = at[2] /\ l \in todo /\ l \in DOMAIN active
    BY DEF RecordExternalID, Safe, Placed, Serving, TypeOK
<1>2. /\ step \in {"record", "observe"} /\ step' = "leaves"
      /\ UNCHANGED <<project, active, known, retired, listed, byNode>>
    BY <1>1 DEF RecordExternalID, loaded, maps
<1>3. /\ node'[l].status = node[l].status
      /\ node'[l].external \in {node[l].external, p}
      /\ \A m \in Leaves \ {l} : node'[m] = node[m]
    <2>1. CASE UNCHANGED node
        BY <2>1
    <2>2. CASE node' = [node EXCEPT ![l].external = p]
        BY <2>2, ExternalWritten
    <2>3. QED
        BY <1>1, <2>1, <2>2 DEF RecordExternalID, Recorded
<1>4. node[l].status # "imported"
    BY <1>1 DEF Safe, StatusesHold
<1>5. \A m \in Leaves, q \in Projects : ImportOf(m, q)' = ImportOf(m, q)
    BY <1>3, <1>4 DEF ImportOf
\* The project has the tag of the node, and is recorded on no other.
<1>6. /\ project[p].tags.node = l /\ There(p)
      /\ \A m \in Leaves \ {l} : node[m].external # p
    <2>1. CASE step = "record"
        BY <1>1, <2>1 DEF Undisturbed, TaggedAnew
    <2>2. CASE step = "observe"
        <3>1. l \in DOMAIN byNode /\ byNode[l].id = p
            BY <1>1, <2>2 DEF Safe, Placed
        <3>2. /\ project[p].tags.node = l /\ There(p)
              /\ \A m \in Leaves : ~ImportOf(m, p)
            BY <1>1, <2>2, <3>1 DEF Undisturbed, ServedOwn, ListedThere, Working, Serving
        <3>3. p # None
            BY ConstantsAssumption
        <3>4. QED
            BY <3>2, <3>3 DEF Undisturbed, OwnerTagged, ImportOf
    <2>3. QED
        BY <1>2, <2>1, <2>2
<1> USE <1>2
<1>7. ListedThere' /\ ServedOwn' /\ LostUnserved' /\ TaggedAnew'
    <2>1. ListedThere' /\ TaggedAnew'
        BY DEF Undisturbed, ListedThere, TaggedAnew, There, Working, Serving, Finding
    <2>2. ServedOwn'
        <3>1. \A m \in DOMAIN byNode : byNode[m].id \in Projects
            BY DEF TypeOK
        <3>2. QED
            BY <1>5, <3>1 DEF Undisturbed, ServedOwn, ImportOf, Working, Serving
    <2>3. LostUnserved'
        BY DEF Undisturbed, LostUnserved, There, Born, Working, Serving
    <2>4. QED
        BY <2>1, <2>2, <2>3
<1>8. OwnerTagged' /\ RecordedOnce'
    <2>1. OwnerTagged'
        BY <1>3, <1>4, <1>6 DEF Undisturbed, OwnerTagged, There
    <2>2. RecordedOnce'
        BY <1>3, <1>6 DEF Undisturbed, RecordedOnce
    <2>3. QED
        BY <2>1, <2>2
<1>9. ForeignGone'
    BY <1>3, <1>5 DEF Undisturbed, ForeignGone, There
<1>10. OwnersKnown' /\ OwnersNoImports'
    <2>1. \A m \in Leaves : node'[m].status = node[m].status
        BY <1>3
    <2>2. OwnersKnown'
        BY <2>1 DEF Undisturbed, OwnersKnown, There, Working, Serving
    <2>3. DOMAIN listed \subseteq Projects
        BY DEF TypeOK
    <2>4. OwnersNoImports'
        BY <1>5, <2>3 DEF Undisturbed, OwnersNoImports, Working, Serving
    <2>5. QED
        BY <2>2, <2>4
<1>11. QED
    BY <1>7, <1>8, <1>9, <1>10 DEF Undisturbed

\* The project of an active node is tagged for it again.
LEMMA SyncProjectUndisturbed ==
    ASSUME ConstantsAssumption, TypeOK, Safe, Undisturbed, NEW l \in Leaves, SyncProject(l)
    PROVE  Undisturbed'
<1>1. /\ step = "leaves" /\ step' = "observe" /\ l \in todo /\ l \in DOMAIN byNode
      /\ UNCHANGED <<node, active, known, retired, listed, byNode, todo>>
    BY DEF SyncProject, loaded, maps
<1>2. PICK p \in Projects : p = byNode[l].id
    BY <1>1 DEF TypeOK
<1>3. byNode[l].tags \in Tags /\ byNode[l].tags.node = l /\ project[p].tags.node = l
    BY <1>1, <1>2 DEF Safe, Placed, Undisturbed, ServedOwn, Working, Serving, TypeOK
<1>4. \A q \in Projects :
        /\ There(q)' = There(q) /\ Born(q)' = Born(q)
        /\ project'[q].tags.node = project[q].tags.node
    <2>1. CASE UNCHANGED project
        BY <2>1 DEF There, Born
    <2>2. CASE Retag(p, byNode[l].tags)
        BY <1>3, <2>2, Retagged DEF There, Born
    <2>3. QED
        BY <1>2, <2>1, <2>2 DEF SyncProject
<1>5. /\ DOMAIN listed \subseteq Projects
      /\ \A m \in DOMAIN byNode : byNode[m].id \in Projects
      /\ \A m \in Leaves : node[m].external \in Projects \cup {None}
      /\ \A m \in DOMAIN active : active[m].external \in Projects \cup {None}
    BY DEF TypeOK, NodeRecords
<1> USE <1>1, <1>4, <1>5
<1>6. ListedThere' /\ TaggedAnew'
    BY DEF Undisturbed, ListedThere, TaggedAnew, There, Working, Serving, Finding
<1>7. ServedOwn' /\ LostUnserved'
    <2>1. ServedOwn'
        BY DEF Undisturbed, ServedOwn, ImportOf, Working, Serving
    <2>2. LostUnserved'
        BY DEF Undisturbed, LostUnserved, There, Born, Working, Serving
    <2>3. QED
        BY <2>1, <2>2
<1>8. OwnerTagged' /\ RecordedOnce' /\ ForeignGone'
    BY DEF Undisturbed, OwnerTagged, RecordedOnce, ForeignGone, ImportOf, There
<1>9. OwnersKnown' /\ OwnersNoImports'
    <2>1. OwnersKnown'
        BY DEF Undisturbed, OwnersKnown, There, Working, Serving
    <2>2. OwnersNoImports'
        BY DEF Undisturbed, OwnersNoImports, ImportOf, Working, Serving
    <2>3. QED
        BY <2>1, <2>2
<1>10. QED
    BY <1>6, <1>7, <1>8, <1>9 DEF Undisturbed

\* Phase 5, when nobody has tampered.
LEMMA ImportUndisturbed ==
    ASSUME ConstantsAssumption, TypeOK, Safe, Undisturbed, NEW p \in Projects, Import(p)
    PROVE  Undisturbed'
<1>1. /\ step = "found" /\ step' = "found" /\ p \in todo /\ todo' = todo \ {p}
      /\ ~Belongs(p) /\ ~Released(p) /\ ~Tracked(p)
      /\ UNCHANGED <<project, active, known, retired, listed, byNode>>
    BY DEF Import, maps
<1>2. PICK l \in Leaves \cup {None} :
        /\ \A m \in Leaves \ {l} : node'[m] = node[m]
        /\ l # None =>
            /\ p \notin DOMAIN imports /\ node[l].status = "new"
            /\ node'[l].status = "imported" /\ node'[l].external = p
    <2>1. CASE UNCHANGED node
        BY <2>1, ConstantsAssumption
    <2>2. CASE ~UNCHANGED node
        <3>1. PICK l \in Leaves :
                /\ p \notin DOMAIN imports /\ node[l].status = "new"
                /\ node' = [node EXCEPT ![l].status = "imported", ![l].external = p]
            BY <2>2 DEF Import
        <3>2. QED
            BY <3>1, ImportWritten
    <2>3. QED
        BY <2>1, <2>2
<1>3. p \in DOMAIN listed /\ There(p)
    BY <1>1 DEF Safe, Placed, Undisturbed, ListedThere, Finding
<1>4. p \notin DOMAIN imports => \A m \in Leaves : ~ImportOf(m, p)
    BY <1>1, <1>3 DEF Safe, ImportsOnce, ImportAt, Finding
<1>5. Tagged(p) \notin known /\ Tagged(p) \notin DOMAIN active /\ Tagged(p) \notin DOMAIN retired
    BY <1>1 DEF Belongs, Released, Tracked
\* Whoever the tag of the project names is gone.
<1>6. ASSUME NEW t \in Leaves, project[p].tags.node = t, p \notin DOMAIN imports
      PROVE  node[t].status = "deleted"
    <2>1. node[t].status = "imported" => ImportOf(t, p)
        BY <1>3, <1>6 DEF Safe, MarkedStored, Marked, ImportOf
    <2>2. node[t].status \in {"imported", "deleted"}
        <3>1. CASE t = Tagged(p)
            BY <1>1, <1>3, <1>5, <3>1 DEF Undisturbed, OwnersKnown, Tagged, Finding
        <3>2. CASE t # Tagged(p)
            BY <1>3, <1>6, <3>2, ConstantsAssumption DEF Safe, OthersMark, Tagged
        <3>3. QED
            BY <3>1, <3>2
    <2>3. QED
        BY <1>4, <1>6, <2>1, <2>2
<1>7. l # None => \A m \in Leaves : node[m].external # p
    <2>1. ASSUME NEW m \in Leaves, node[m].external = p, l # None
          PROVE  FALSE
        <3>1. node[m].status # "imported" /\ p # None
            BY <1>2, <1>4, <2>1, ConstantsAssumption DEF ImportOf
        <3>2. project[p].tags.node = m
            BY <1>3, <2>1, <3>1 DEF Undisturbed, OwnerTagged
        <3>3. node[m].status = "deleted"
            BY <1>2, <1>6, <2>1, <3>2
        <3>4. QED
            BY <2>1, <3>1, <3>3 DEF Safe, StatusesHold
    <2>2. QED
        BY <2>1
<1>8. \A m \in Leaves, q \in Projects :
        ImportOf(m, q)' => ImportOf(m, q) \/ (m = l /\ q = p)
    BY <1>2, ConstantsAssumption DEF ImportOf
<1> USE <1>1
<1>9. ListedThere' /\ ServedOwn' /\ LostUnserved' /\ TaggedAnew'
    BY DEF Undisturbed, ListedThere, ServedOwn, LostUnserved, TaggedAnew, There, Working,
           Promoting, Serving, Finding
<1>10. OwnerTagged' /\ RecordedOnce'
    <2>1. OwnerTagged'
        BY <1>2 DEF Undisturbed, OwnerTagged, There
    <2>2. RecordedOnce'
        BY <1>2, <1>7 DEF Undisturbed, RecordedOnce
    <2>3. QED
        BY <2>1, <2>2
<1>11. ForeignGone'
    <2>1. ASSUME NEW m \in Leaves, NEW q \in Projects, NEW t \in Leaves,
                 ImportOf(m, q)', There(q), project[q].tags.node = t, t # m
          PROVE  node'[t].status = "deleted"
        <3>1. node[t].status = "deleted"
            <4>1. CASE ImportOf(m, q)
                BY <2>1, <4>1 DEF Undisturbed, ForeignGone
            <4>2. CASE ~ImportOf(m, q)
                BY <1>2, <1>6, <1>8, <2>1, <4>2, ConstantsAssumption
            <4>3. QED
                BY <4>1, <4>2
        <3>2. QED
            BY <1>2, <3>1, ConstantsAssumption
    <2>2. QED
        BY <2>1 DEF ForeignGone, There
<1>12. OwnersKnown'
    BY <1>2, ConstantsAssumption DEF Undisturbed, OwnersKnown, There, Working, Promoting, Serving,
           Finding
<1>13. OwnersNoImports'
    <2>1. ASSUME NEW q \in DOMAIN listed, NEW m \in Leaves, ImportOf(m, q)', q \in todo \ {p},
                 listed[q].node \in DOMAIN active \cup DOMAIN retired
          PROVE  FALSE
        <3>1. q \in Projects
            BY DEF TypeOK
        <3>2. ImportOf(m, q)
            BY <1>8, <2>1, <3>1
        <3>3. QED
            BY <2>1, <3>2 DEF Undisturbed, OwnersNoImports, Finding
    <2>2. QED
        BY <2>1 DEF OwnersNoImports, Working, Promoting, Serving
<1>14. QED
    BY <1>9, <1>10, <1>11, <1>12, <1>13 DEF Undisturbed

\* Projects of retired nodes keep the node in their tags.
LEMMA TagsOfRetiredUndisturbed ==
    ASSUME ConstantsAssumption, TypeOK, Safe, Undisturbed, NEW p \in Projects,
           TagReleased(p) \/ (ArchiveProject /\ p = at[2])
    PROVE  Undisturbed'
<1>1. /\ step \in Finding /\ p \in todo /\ p \in DOMAIN listed /\ step' = "end"
      /\ step = "remove" => FALSE
      /\ listed[p].node \in DOMAIN retired \ DOMAIN active
      /\ UNCHANGED <<node, active, known, retired, byNode, todo>>
    <2>1. CASE TagReleased(p)
        BY <2>1 DEF TagReleased, Released, Belongs, Tagged, loaded, Safe, Placed, Finding
    <2>2. CASE ArchiveProject /\ p = at[2]
        BY <2>2 DEF ArchiveProject, loaded, Safe, Placed, Finding
    <2>3. QED
        BY <2>1, <2>2
<1>2. /\ DOMAIN listed' = DOMAIN listed
      /\ \A q \in DOMAIN listed : listed'[q].node = listed[q].node
      /\ \A q \in Projects : There(q)' = There(q) /\ Born(q)' = Born(q)
      /\ \A q \in Projects \ {p} : project'[q] = project[q]
      /\ project'[p].tags.node \in {project[p].tags.node, listed[p].node}
    <2>1. listed[p] \in Tags
        BY <1>1 DEF TypeOK
    <2>2. CASE UNCHANGED <<project, listed>>
        BY <2>2 DEF There, Born
    <2>3. CASE /\ Retag(p, TagsOfReleased(listed[p]))
               /\ listed' = [listed EXCEPT ![p] = TagsOfReleased(listed[p])]
        BY <2>1, <2>3, OfReleased, Retagged DEF There, Born
    <2>4. CASE /\ Update(p, [listed[p] EXCEPT !.archived = TRUE], FALSE)
               /\ listed' = [listed EXCEPT ![p] = [listed[p] EXCEPT !.archived = TRUE]]
        <3>1. /\ [listed[p] EXCEPT !.archived = TRUE] \in Tags
              /\ [listed[p] EXCEPT !.archived = TRUE].node = listed[p].node
            BY <2>1 DEF Tags
        <3>2. QED
            BY <2>4, <3>1, Updated DEF There, Born
    <2>5. QED
        BY <2>2, <2>3, <2>4 DEF TagReleased, ArchiveProject
\* Nobody but the retired node has the project.
<1>3. \A m \in Leaves : ~ImportOf(m, p)
    BY <1>1 DEF Undisturbed, OwnersNoImports
<1>4. ASSUME NEW m \in Leaves, node[m].external = p, There(p)
      PROVE  project[p].tags.node = m /\ listed[p].node = m
    <2>1. node[m].status \notin {"imported", "deleted"} /\ p # None
        BY <1>3, <1>4, ConstantsAssumption DEF ImportOf, Safe, StatusesHold
    <2>2. project[p].tags.node = m /\ m # None
        BY <1>4, <2>1, ConstantsAssumption DEF Undisturbed, OwnerTagged
    <2>3. QED
        BY <1>1, <1>4, <2>1, <2>2 DEF Safe, OthersMark
<1>5. /\ DOMAIN listed \subseteq Projects /\ todo \subseteq DOMAIN listed
      /\ \A m \in Leaves : node[m].external \in Projects \cup {None}
    BY <1>1 DEF TypeOK, NodeRecords, Safe, Placed
<1> USE <1>1, <1>2, <1>5
<1>6. ListedThere' /\ ServedOwn' /\ LostUnserved' /\ TaggedAnew'
    <2>1. ListedThere'
        BY DEF Undisturbed, ListedThere, Working, Promoting, Serving, Finding
    <2>2. ServedOwn' /\ LostUnserved' /\ TaggedAnew'
        BY DEF ServedOwn, LostUnserved, TaggedAnew, Working, Promoting, Serving
    <2>3. QED
        BY <2>1, <2>2
<1>7. OwnerTagged' /\ RecordedOnce'
    <2>1. OwnerTagged'
        BY <1>4 DEF Undisturbed, OwnerTagged, There
    <2>2. RecordedOnce'
        BY DEF Undisturbed, RecordedOnce
    <2>3. QED
        BY <2>1, <2>2
<1>8. ForeignGone'
    <2>1. ASSUME NEW m \in Leaves, NEW q \in Projects, NEW t \in Leaves,
                 ImportOf(m, q), There(q), project'[q].tags.node = t, t # m
          PROVE  node[t].status = "deleted"
        BY <1>3, <2>1 DEF Undisturbed, ForeignGone
    <2>2. QED
        BY <2>1 DEF ForeignGone, ImportOf
<1>9. OwnersKnown' /\ OwnersNoImports'
    <2>1. OwnersKnown'
        BY DEF Undisturbed, OwnersKnown, Working, Promoting, Serving, Finding
    <2>2. OwnersNoImports'
        BY DEF Undisturbed, OwnersNoImports, ImportOf, Working, Promoting, Serving, Finding
    <2>3. QED
        BY <2>1, <2>2
<1>10. QED
    BY <1>6, <1>7, <1>8, <1>9 DEF Undisturbed

\* No node, no project, and no pass.
LEMMA InitUndisturbed ==
    ASSUME ConstantsAssumption, Init
    PROVE  Undisturbed
<1>1. /\ step = "idle" /\ DOMAIN listed = {}
      /\ \A l \in Leaves : node[l].status = "new" /\ node[l].external = None
    BY DEF Init, Empty, NoNode
<1>2. ListedThere /\ ServedOwn /\ LostUnserved /\ TaggedAnew
    BY <1>1 DEF ListedThere, ServedOwn, LostUnserved, TaggedAnew, Working, Promoting, Serving,
           Finding
<1>3. OwnerTagged /\ RecordedOnce /\ ForeignGone
    BY <1>1 DEF OwnerTagged, RecordedOnce, ForeignGone, ImportOf
<1>4. OwnersKnown /\ OwnersNoImports
    BY <1>1 DEF OwnersKnown, OwnersNoImports, Working, Promoting, Serving, Finding
<1>5. QED
    BY <1>2, <1>3, <1>4 DEF Undisturbed

\* One step per action but those of somebody who tampers.
LEMMA NextUndisturbed ==
    ASSUME ConstantsAssumption, TypeOK, Safe, Undisturbed, [Next]_vars, faults' = faults
    PROVE  Undisturbed'
<1>1. CASE UNCHANGED vars
    BY <1>1 DEF vars, pass, loaded, maps, Undisturbed, ListedThere, ServedOwn, LostUnserved,
           TaggedAnew, OwnerTagged, RecordedOnce, ForeignGone, OwnersKnown, OwnersNoImports,
           There, Born, ImportOf
<1>2. CASE UseTree \/ UseOpenStack
    BY <1>2, MeanwhileSteady, SteadyUndisturbed
<1>3. CASE Crash \/ LoadFails \/ EndPass
    BY <1>3, ForgottenUndisturbed DEF Crash, LoadFails, EndPass
<1>4. CASE LoadActive \/ LoadKnown \/ LoadProjects
    BY <1>4, LoadUndisturbed, LoadProjectsUndisturbed
<1>5. CASE Continues
    BY <1>5, ContinuesSteady, SteadyUndisturbed
<1>6. CASE PromoteStep
    BY <1>5, <1>6, TagForPromotionUndisturbed, PromoteUndisturbed DEF PromoteStep, Continues
<1>7. CASE LeafStep
    BY <1>5, <1>7, NothingToRecover, SyncProjectUndisturbed, CreateProjectUndisturbed,
       RecordExternalIDUndisturbed DEF LeafStep, Continues
<1>8. CASE ProjectStep
    <2>1. ArchiveProject => at[2] \in Projects
        BY DEF ArchiveProject, Safe, Placed, TypeOK
    <2>2. QED
        BY <1>5, <1>8, <2>1, ImportUndisturbed, TagsOfRetiredUndisturbed DEF ProjectStep, Continues
<1>9. CASE RemovalStep
    BY <1>3, <1>5, <1>9 DEF RemovalStep, Continues
<1>10. QED
    BY <1>1, <1>2, <1>3, <1>4, <1>6, <1>7, <1>8, <1>9 DEF Next, PassStep, LoadStep

\* As long as there was no fault, there has been none.
LEMMA FaultsStay ==
    ASSUME ConstantsAssumption, TypeOK, Safe, [Next]_vars, faults' = 0
    PROVE  faults = 0
<1>1. faults \in Nat /\ faults' \in {faults, faults + 1}
    <2>1. faults \in Nat
        BY ConstantsAssumption DEF TypeOK
    <2>2. CASE UseOpenStack
        BY <2>1, <2>2, UseOpenStackGoesOn DEF Safe
    <2>3. CASE UseTree \/ Crash \/ LoadStep \/ UNCHANGED vars
        BY <2>1, <2>3, UseTreeFollows DEF Crash, LoadStep, LoadActive, LoadKnown, LoadProjects,
               LoadFails, vars
    <2>4. CASE PromoteStep \/ LeafStep
        BY <2>1, <2>4 DEF PromoteStep, SkipPromotion, PromotionFails, TagForPromotion, Promote,
               StartLeaves, LeafStep, SyncProject, SkipLeaf, Recover, CreateProject, RemoveShadow,
               RecordExternalID, StartProjects
    <2>5. CASE ProjectStep \/ RemovalStep
        BY <2>1, <2>5 DEF ProjectStep, LeaveProject, Import, TagReleased, PurgeGoesOn,
               PurgeDeletes, RemovePurged, ArchiveProject, MarkArchived, KeepReleased, Handled,
               RemovalStep, StartRemovals, EndPass, RemoveStaleImport, RemoveLost
    <2>6. QED
        BY <2>1, <2>2, <2>3, <2>4, <2>5 DEF Next, PassStep
<1>2. QED
    BY <1>1

\* Both invariants, the second until somebody tampers.
LEMMA AlwaysUndisturbed ==
    ASSUME ConstantsAssumption
    PROVE  Spec => [](TypeOK /\ Safe /\ (faults = 0 => Undisturbed))
<1>1. Init => TypeOK /\ Safe /\ (faults = 0 => Undisturbed)
    BY InitSafe, InitUndisturbed
<1>2. TypeOK /\ Safe /\ (faults = 0 => Undisturbed) /\ [Next]_vars
      => (TypeOK /\ Safe /\ (faults = 0 => Undisturbed))'
    BY NextSafe, NextUndisturbed, FaultsStay
<1>3. QED
    BY <1>1, <1>2, PTL DEF Spec

\* An OpenStack project is recorded on one node (upsertImported,
\* persistOSProjectID), unless people change tags or delete projects; and it is
\* shown as one import whatever they do.
THEOREM OneNode == ASSUME ConstantsAssumption PROVE Spec => []OneNodePerProject
<1>1. TypeOK /\ Safe /\ (faults = 0 => Undisturbed) => OneNodePerProject
    <2>1. ASSUME TypeOK, Safe, faults = 0 => Undisturbed,
                 NEW l \in Leaves, NEW m \in Leaves,
                 node[l].external # None, node[l].external = node[m].external,
                 faults = 0 \/ {node[l].status, node[m].status} = {"imported"}
          PROVE  l = m
        <3>1. CASE faults = 0
            BY <2>1, <3>1 DEF Undisturbed, RecordedOnce
        <3>2. CASE {node[l].status, node[m].status} = {"imported"}
            <4>1. node[l].status = "imported" /\ node[m].status = "imported"
                BY <3>2
            <4>2. node[l].external \in Projects
                BY <2>1 DEF TypeOK, NodeRecords
            <4>3. QED
                BY <2>1, <4>1, <4>2 DEF Safe, ImportsOnce, ImportOf
        <3>3. QED
            BY <2>1, <3>1, <3>2
    <2>2. QED
        BY <2>1 DEF OneNodePerProject
<1>2. QED
    BY <1>1, AlwaysUndisturbed, PTL

\* A project is archived or deleted by an old list and by a tag, but never that
\* of a node in force (handleReleasedProject).
THEOREM OnlyRetiredEnd == ASSUME ConstantsAssumption PROVE Spec => EndsOnlyRetired
<1> DEFINE A == \A p \in Projects, l \in Leaves :
        Ends(p) /\ node[l].status = "approved"
            => project[p].tags.node # l /\ (faults = 0 => node[l].external # p)
<1>1. ASSUME TypeOK, Safe, faults = 0 => Undisturbed, [Next]_vars,
             NEW p \in Projects, NEW l \in Leaves, Ends(p), node[l].status = "approved"
      PROVE  project[p].tags.node # l /\ (faults = 0 => node[l].external # p)
    <2>1. There(p) /\ p = at[2] /\ (PurgeDeletes \/ ArchiveProject)
        BY <1>1, ProjectsChange DEF Ends, Spared, Appears, Archived, Goes
    <2>2. p \in DOMAIN listed /\ listed[p].node \in DOMAIN retired
        BY <1>1, <2>1 DEF PurgeDeletes, ArchiveProject, Safe, Placed, Finding
    <2>3. node[listed[p].node].status # "approved"
        BY <1>1, <2>2 DEF Safe, StatusesHold
    <2>4. project[p].tags.node # l
        BY <1>1, <2>1, <2>2, <2>3, ConstantsAssumption DEF Safe, OthersMark
    <2>5. ASSUME faults = 0
          PROVE  node[l].external # p
        BY <1>1, <2>1, <2>4, <2>5, ConstantsAssumption DEF Undisturbed, OwnerTagged
    <2>6. QED
        BY <2>4, <2>5
<1>2. TypeOK /\ Safe /\ (faults = 0 => Undisturbed) /\ [Next]_vars => [A]_vars
    BY <1>1
<1>3. QED
    BY <1>2, AlwaysUndisturbed, PTL DEF Spec, EndsOnlyRetired

=============================================================================
