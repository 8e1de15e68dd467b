---------------------------- MODULE MCOpenStack ----------------------------
(***************************************************************************)
(* What a pass at OpenStack works with beside projects and nodes, for TLC: *)
(* four components side by side in one state, one of which, chosen by the  *)
(* initial state, takes its steps. They share nothing but this module.     *)
(* What does not run satisfies its properties in its initial state, and    *)
(* where it does not, they name the part that runs.                        *)
(* login_account.cfg and static_quota.cfg choose one for a finding.        *)
(*                                                                         *)
(* Fairness: a pass that runs goes on, a loop or timer that is due is      *)
(* served, and OpenStack does what it accepted. People need do nothing.    *)
(***************************************************************************)
EXTENDS Purge, Passes, Quotas

CONSTANTS
    Parts,          \* the components that may be chosen
    User, Group,    \* a person and a group, in projects
    AccessMaxEdits, AccessMaxMishaps    \* bounds of Access

-----------------------------------------------------------------------------
(* What the components work on *)

PurgedItems == {"cluster", "server", "bucket", "default", "foreign", "router", "interface"}

KindOf ==
    [i \in PurgedItems |->
        CASE i = "cluster" -> "clusters"
          [] i \in {"server", "foreign"} -> "servers"
          [] i = "bucket" -> "object-storage"
          [] i = "default" -> "security-groups"
          [] i = "router" -> "routers"
          [] i = "interface" -> "ports"]

\* A cluster brings back its server, the interface holds the router.
MakesOf == [i \in PurgedItems |-> IF i = "cluster" THEN {"server"} ELSE {}]
HoldsOf == [i \in PurgedItems |-> IF i = "interface" THEN {"router"} ELSE {}]

\* What a node names: the owner, the roles of a user and of a group.
Naming(owner, user, group) ==
    [owner |-> owner, may |-> [h \in {User, Group} |-> IF h = User THEN user ELSE group]]

Namings == {Naming(User, "none", "member"), Naming("none", "reader", "admin")}

Services == [ram |-> "compute", storage |-> "block"]
Multipliers == [ram |-> 2, storage |-> 1]
GrantTypes == [net |-> "network", image |-> "image"]
Limit(ram, storage, holds) == [limit |-> [ram |-> ram, storage |-> storage], holds |-> holds]
Limits == {Limit(1, 0, {}), Limit(2, -1, {"net", "image"})}
UseOf(ram, storage, net, image) ==
    [ram |-> ram, storage |-> storage, net |-> net, image |-> image]
UsesSeen == {UseOf(0, 0, 0, 0), UseOf(3, 1, 1, 0)}
QuotaProjects == 1..2

-----------------------------------------------------------------------------
VARIABLES
    part,       \* the component that was chosen
    accessFederated, accessTree, accessProvided, accessAccounts, accessRoles, accessElsewhere,
    accessGroup, accessMembers, accessAt, accessLeaf, accessTodo, accessResolved, accessSyncing,
    accessFound, accessListed, accessEdits, accessMishaps

accessAll ==
    <<accessFederated, accessTree, accessProvided, accessAccounts, accessRoles,
      accessElsewhere, accessGroup, accessMembers, accessAt, accessLeaf, accessTodo,
      accessResolved, accessSyncing, accessFound, accessListed, accessEdits, accessMishaps>>

vars == <<part, purgeVars, passesVars, accessAll, quotasVars>>

\* Its names are those of Quotas, in part.
Access == INSTANCE Access WITH
    People <- {User}, Groups <- {Group},
    Offered <- {"member", "reader"}, OwnerRole <- "member", OldRoles <- {"admin"},
    NoRole <- "none", Starts <- Namings, MaxEdits <- AccessMaxEdits,
    MaxMishaps <- AccessMaxMishaps, federated <- accessFederated, tree <- accessTree,
    provided <- accessProvided, accounts <- accessAccounts, roles <- accessRoles,
    elsewhere <- accessElsewhere, group <- accessGroup, members <- accessMembers,
    at <- accessAt, leaf <- accessLeaf, todo <- accessTodo, resolved <- accessResolved,
    syncing <- accessSyncing, found <- accessFound, listed <- accessListed,
    edits <- accessEdits, mishaps <- accessMishaps

ASSUME Assumptions ==
    /\ Parts \subseteq {"Purge", "Passes", "Access", "Quotas"}
    /\ PurgeAssumption /\ PassesAssumption /\ Access!AccessAssumption /\ QuotasAssumption

\* The components that were not chosen stay in one initial state.
Aside ==
    /\ part # "Purge" =>
        /\ dryRun = FALSE /\ switchedOn = FALSE /\ enabled = FALSE
        /\ item = [i \in Items |-> "there"] /\ objects = [i \in Buckets |-> 0]
    /\ part # "Passes" => up = FALSE
    /\ part # "Access" =>
        /\ accessFederated = FALSE
        /\ accessTree = Naming(User, "none", "member")
        /\ accessProvided = [g \in {Group} |-> {}]
        /\ accessAccounts = {}
        /\ accessGroup = [g \in {Group} |-> "none"]
        /\ accessElsewhere = {}
        /\ accessRoles = Access!NoRoles
    /\ part # "Quotas" => want = Limit(1, 0, {}) /\ used = UseOf(0, 0, 0, 0)

Init ==
    /\ part \in Parts
    /\ Aside
    /\ PurgeInit /\ PassesInit /\ Access!AccessInit /\ QuotasInit

OnlyPurge ==
    /\ part = "Purge"
    /\ UNCHANGED <<part, passesVars, accessAll, quotasVars>>

OnlyPasses ==
    /\ part = "Passes"
    /\ UNCHANGED <<part, purgeVars, accessAll, quotasVars>>

OnlyAccess ==
    /\ part = "Access"
    /\ UNCHANGED <<part, purgeVars, passesVars, quotasVars>>

OnlyQuotas ==
    /\ part = "Quotas"
    /\ UNCHANGED <<part, purgeVars, passesVars, accessAll>>

Next ==
    \/ OnlyPurge /\ PurgeNext
    \/ OnlyPasses /\ PassesNext
    \/ OnlyAccess /\ Access!AccessNext
    \/ OnlyQuotas /\ QuotasNext

\* One component runs, so these are fair if the step of that one is.
GoesOn ==
    \/ OnlyPurge /\ PurgeStep
    \/ OnlyAccess /\ Access!AccessStep
    \/ OnlyQuotas /\ QuotasStep

Spec ==
    /\ Init /\ [][Next]_vars
    /\ WF_vars(GoesOn)
    /\ \A x \in Items : WF_vars(OnlyPurge /\ OpenStackDeletes(x))
    /\ \A p \in Providers : WF_vars(OnlyPasses /\ LoopStep(p))
    /\ WF_vars(OnlyPasses /\ SignalChange)
    /\ WF_vars(OnlyPasses /\ FollowUpTimer)

-----------------------------------------------------------------------------
\* Every variable of every component keeps its type.
TypeOK == PurgeTypeOK /\ PassesTypeOK /\ Access!AccessTypeOK /\ QuotasTypeOK

\* Trigger, signalChange: no change of the tree is lost, however it arrives;
\* scheduleFollowUp: left alone, the loop comes to rest.
PassesComeAndEnd == ChangesCarriedOut /\ FollowUpsEnd

\* syncQuota, syncGrants, sweepOrphanedGrants: the quotas and availabilities of the limit
\* are reached, and no network stays shared with a project that is gone.
QuotasCarriedOut == <>[](part = "Quotas" => CarriedOut /\ NoneShared)

\* syncMembers, syncGroups: a pass never takes from somebody the role the node names for
\* him, but with an account that his login has replaced.
RoleKept == Access!RoleKept

\* syncMembers, syncGroups: in the end everybody has the role the node names, and
\* nobody else has one.
MembersReached == <>[](part = "Access" => Access!Reached)

\* federated.go:42-44: "Should a login nevertheless spawn its own shadow account, the
\* next sync notices"; ensureMembers passes over whom it finds by his address.
LoginReached == <>[](part = "Access" => Access!LoginsReached)

=============================================================================
