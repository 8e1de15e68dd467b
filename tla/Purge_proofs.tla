----------------------------- MODULE Purge_proofs -----------------------------
(***************************************************************************)
(* Proofs about Purge, for any project: whatever is in it, makes and holds *)
(* each other, and whoever has a role in it.                               *)
(*                                                                         *)
(* LockedOut is about the deletions, and is decided long before, when the  *)
(* members were listed. Outside carries along what the lists have shown.   *)
(* Nobody gets in meanwhile, and a dry run has nothing to delete but what  *)
(* p.do leaves alone (DryRunSparesBuckets).                                *)
(***************************************************************************)
EXTENDS Purge, TLAPS

PurgeSpec == PurgeInit /\ [][PurgeNext]_purgeVars

\* What an empty list of members, and then of groups, says of the project.
Outside ==
    /\ inside \subseteq Users \cup Groups
    /\ phase \in {"users", "groups"} /\ ready => inside \cap Users = {}
    /\ phase \in {"grouproles", "self", "enable", "open"} /\ ready => inside = {}
    /\ phase \in {"list", "ask"} => dryRun \/ inside = {}

\* buckets deletes without p.do; but a dry run does not come there.
DryRunSparesBuckets == dryRun /\ phase = "ask" => asked \cap Buckets = {}

IInv == Outside /\ DryRunSparesBuckets

\* Before the first pass nothing has been listed.
LEMMA InvInit == PurgeInit => IInv
BY DEF PurgeInit, IInv, Outside, DryRunSparesBuckets

\* A pass that begins, ends or starts anew knows nothing, and lets nobody in.
LEMMA InvOutsideAPass ==
    ASSUME IInv, inside' \subseteq inside, phase' \in {"idle", "identity", "members", "default"}
    PROVE  IInv'
BY DEF IInv, Outside, DryRunSparesBuckets

\* access: each list takes over from the one before, if it showed nobody.
LEMMA InvAccess ==
    ASSUME IInv, AccessStep
    PROVE  IInv'
<1> USE DEF IInv, Outside, DryRunSparesBuckets, cloud, options, purger
<1>1. CASE Begin \/ FindSelf \/ WaitForAccess \/ AccessFails
    <2>1. inside' = inside /\ phase' \in {"idle", "identity", "members"}
        BY <1>1 DEF Begin, FindSelf, WaitForAccess, AccessFails, Waits, WaitsBlocked, Fresh
    <2>2. QED
        BY <2>1, InvOutsideAPass
<1>2. CASE ListMembers
    BY <1>2 DEF ListMembers
<1>3. CASE ListGroupRoles
    BY <1>3 DEF ListGroupRoles
<1>4. ASSUME NEW who \in Users \cup Groups, RemoveRole(who)
      PROVE  IInv'
    <2>1. /\ inside' \subseteq inside /\ UNCHANGED <<dryRun, phase, ready>>
          /\ phase \in {"users", "grouproles"}
        BY <1>4 DEF RemoveRole
    <2>2. QED
        BY <2>1
<1>5. CASE RolesRemoved
    BY <1>5 DEF RolesRemoved
<1>6. CASE AddSelf
    BY <1>6 DEF AddSelf
<1>7. CASE Enable
    BY <1>7 DEF Enable
<1>8. CASE OpenSession
    BY <1>8 DEF OpenSession, HasAccess
<1>9. QED
    BY <1>1, <1>2, <1>3, <1>4, <1>5, <1>6, <1>7, <1>8 DEF AccessStep

\* A stage of a dry run lists no buckets: there is no session to list them.
LEMMA InvListStage ==
    ASSUME IInv, ListStage
    PROVE  IInv'
<1>1. /\ phase = "list" /\ phase' = "ask"
      /\ UNCHANGED <<dryRun, inside>> /\ asked' = ToDelete(StageName)
    BY DEF ListStage, InStage, options
<1>2. Outside'
    BY <1>1 DEF IInv, Outside
<1>3. ASSUME dryRun
      PROVE  ToDelete(StageName) \cap Buckets = {}
    <2>1. StageName \notin SessionStages
        BY <1>3 DEF ListStage, PassedOver
    <2>2. \A i \in ToDelete(StageName) : Kind[i] \in {StageName, "ports"}
        BY DEF ToDelete, Counted, Owned, ListedItems, Interfaces
    <2>3. \A i \in Buckets : Kind[i] = "object-storage"
        BY DEF Buckets
    <2>4. QED
        BY <2>1, <2>2, <2>3 DEF SessionStages
<1>4. DryRunSparesBuckets'
    BY <1>1, <1>3 DEF DryRunSparesBuckets, Buckets
<1>5. QED
    BY <1>2, <1>4 DEF IInv

\* The stages let nobody in, and ask for nothing they did not list.
LEMMA InvStage ==
    ASSUME IInv, StageStep
    PROVE  IInv'
<1> USE DEF IInv, Outside, DryRunSparesBuckets, Buckets, cloud, options, purger
<1>1. CASE ListFails \/ WaitForSwitch \/ WaitForStage \/ WouldDelete \/ DeleteProject
            \/ DeleteProjectFails \/ RemoveDefaults
    <2>1. inside' = inside /\ phase' \in {"idle", "default"}
        BY <1>1 DEF ListFails, WaitForSwitch, WaitForStage, WouldDelete, DeleteProject,
                    DeleteProjectFails, RemoveDefaults, Waits, WaitsBlocked, Fresh
    <2>2. QED
        BY <2>1, InvOutsideAPass
<1>2. CASE PassOver
    BY <1>2 DEF PassOver, InStage
<1>3. CASE ListStage
    BY <1>3, InvListStage
<1>4. ASSUME NEW i \in Items, DeleteItem(i)
      PROVE  IInv'
    <2>1. asked' \subseteq asked /\ UNCHANGED <<dryRun, inside, phase, ready>> /\ phase = "ask"
        BY <1>4 DEF DeleteItem
    <2>2. QED
        BY <2>1
<1>5. ASSUME NEW b \in Buckets, EmptyBucket(b)
      PROVE  IInv'
    <2>1. asked' \subseteq asked /\ UNCHANGED <<dryRun, inside, phase, ready>> /\ phase = "ask"
        BY <1>5 DEF EmptyBucket
    <2>2. QED
        BY <2>1
<1>6. CASE StageEmpty
    BY <1>6 DEF StageEmpty
<1>7. QED
    BY <1>1, <1>2, <1>3, <1>4, <1>5, <1>6 DEF StageStep

\* Nothing of what goes on in the background concerns the pass.
LEMMA InvBackground ==
    ASSUME IInv, Background \/ PurgeCrash \/ UNCHANGED purgeVars
    PROVE  IInv'
<1>1. CASE PurgeCrash
    <2>1. inside' = inside /\ phase' = "idle"
        BY <1>1 DEF PurgeCrash, Fresh, cloud
    <2>2. QED
        BY <2>1, InvOutsideAPass
<1>2. CASE Background \/ UNCHANGED purgeVars
    <2>1. UNCHANGED <<inside, phase, dryRun, ready, asked>>
        BY <1>2 DEF Background, OpenStackDeletes, WorkInside, Remake, options, purger, purgeVars,
                    cloud
    <2>2. QED
        BY <2>1 DEF IInv, Outside, DryRunSparesBuckets, Buckets
<1>3. QED
    BY <1>1, <1>2

\* Each group of steps has its lemma above.
LEMMA InvStep == IInv /\ [PurgeNext]_purgeVars => IInv'
BY InvAccess, InvStage, InvBackground DEF PurgeNext, PurgeStep

\* A deletion is a step of a stage on what it asked for.
DeletesInside == phase = "ask" /\ asked' # asked /\ item' # item

\* Whoever deletes comes from a list of the members that was empty.
LEMMA DeletionsLockedOut ==
    ASSUME IInv, PurgeNext, DeletesInside
    PROVE  inside = {}
<1>1. ~(PurgeCrash \/ Background)
    BY DEF DeletesInside, PurgeCrash, Background, OpenStackDeletes, WorkInside, Remake, cloud,
           purger
<1>2. ~AccessStep
    BY DEF DeletesInside, AccessStep, Begin, FindSelf, ListMembers, ListGroupRoles, RemoveRole,
           RolesRemoved, AddSelf, Enable, WaitForAccess, AccessFails, OpenSession, cloud
<1>3. \/ \E i \in Items : DeleteItem(i)
      \/ \E b \in Buckets : EmptyBucket(b)
    <2>1. ~(PassOver \/ ListFails \/ WaitForSwitch \/ ListStage \/ WouldDelete \/ DeleteProject
            \/ DeleteProjectFails \/ RemoveDefaults \/ StageEmpty \/ WaitForStage)
        BY DEF DeletesInside, PassOver, ListFails, WaitForSwitch, ListStage, WouldDelete,
               DeleteProject, DeleteProjectFails, RemoveDefaults, StageEmpty, WaitForStage,
               InStage, AllEmpty, cloud
    <2>2. QED
        BY <1>1, <1>2, <2>1 DEF PurgeNext, PurgeStep, StageStep
<1>4. ~dryRun
    <2>1. ASSUME NEW i \in Items, DeleteItem(i), dryRun
          PROVE  FALSE
        BY <2>1 DEF DeleteItem, DeletesInside
    <2>2. ASSUME NEW b \in Buckets, EmptyBucket(b), dryRun
          PROVE  FALSE
        BY <2>2 DEF EmptyBucket, IInv, DryRunSparesBuckets
    <2>3. QED
        BY <1>3, <2>1, <2>2
<1>5. QED
    BY <1>4 DEF IInv, Outside, DeletesInside

\* purgeRetiredProject, access: "from here on nobody but the service user gets in",
\* for any number of members and groups, whichever calls fail, and wherever the
\* process ended.
THEOREM DeletedOnlyLockedOut == PurgeSpec => LockedOut
<1>1. PurgeInit => IInv
    BY InvInit
<1>2. IInv /\ [PurgeNext]_purgeVars => IInv'
    BY InvStep
<1>3. IInv /\ [PurgeNext]_purgeVars => [DeletesInside => inside = {}]_purgeVars
    BY DeletionsLockedOut
<1>4. QED
    BY <1>1, <1>2, <1>3, PTL DEF PurgeSpec, LockedOut, DeletesInside
=============================================================================
