----------------------------- MODULE BudgetTree -----------------------------
(***************************************************************************)
(* The tree of budgets and projects of internal/core/tree: the lifecycle   *)
(* of its nodes, the limits budgets hand down, the accounting that charges *)
(* projects to the budgets above them, and every operation of the tree     *)
(* service and of the reconciler's view (ProviderSync) that changes one of *)
(* these.                                                                  *)
(*                                                                         *)
(* One action is one operation. The tree service runs its operations one   *)
(* at a time under approvalMu, and each ProviderSync write is one atomic   *)
(* update of a node as it is stored, so a step here is a whole operation.  *)
(*                                                                         *)
(* A limit is one number: the quantities of a quota are checked one by one *)
(* and alike, so one stands for each of them (a storage quantity, the only *)
(* kind an archived project still costs). Availabilities, end dates, who   *)
(* the caller is, and attributes are not part of this module; where one of *)
(* them decides between two outcomes, both are possible here.              *)
(***************************************************************************)
EXTENDS Integers, FiniteSets, Functions

CONSTANTS
    Budgets,        \* ids of budgets
    Projects,       \* ids of projects
    Imports,        \* the projects that arrive as reconciler imports; the others are requested
    Root,           \* the structural budget "root"
    Unassigned,     \* the structural budget "unassigned", where imports are collected
    NoParent,       \* the parent of the root and of a node that does not exist
    Unlimited,      \* common.UnlimitedQuota
    NoProposal,     \* no limit is proposed: no pending changes, or only an end date or members
    NotMeasured     \* OpenStack reported no use of the resource

CONSTANTS
    BudgetLimits,   \* bound: the limits asked for budgets
    LeafLimits,     \* bound: the limits asked for projects
    AllocLimits,    \* bound: the amounts of allocations, 0 takes one back
    ImportLimits,   \* bound: the quotas of the projects found in OpenStack
    InUseLevels,    \* bound: the measurements of OpenStack
    Changeable,     \* bound: the nodes change requests are made for
    Movable         \* bound: the nodes that are moved

CONSTANTS ChargeInUse, ChargeReleased, ChargeArchived   \* tree.Accounting

ASSUME BudgetsAssumption ==
    /\ Root \in Budgets
    /\ Budgets \cap Projects = {}
    /\ NoParent \notin Budgets \cup Projects
    /\ Unassigned \notin Projects \cup {Root}
    /\ IsFiniteSet(Budgets)
    /\ IsFiniteSet(Projects)
    /\ Imports \subseteq Projects
    /\ Imports # {} => Unassigned \in Budgets

ASSUME LimitsAssumption ==
    /\ Unlimited \notin Int
    /\ NoProposal \notin Int
    /\ NoProposal # Unlimited
    /\ NotMeasured \notin Int
    /\ BudgetLimits \subseteq Nat \cup {Unlimited}
    /\ LeafLimits \subseteq Nat
    /\ AllocLimits \subseteq Nat
    /\ ImportLimits \subseteq Nat \cup {Unlimited}
    /\ InUseLevels \subseteq Nat

ASSUME AccountingAssumption ==
    /\ ChargeInUse \in BOOLEAN
    /\ ChargeReleased \in BOOLEAN
    /\ ChargeArchived \in BOOLEAN

Nodes == Budgets \cup Projects

ASSUME BoundsAssumption ==
    /\ Changeable \subseteq Nodes
    /\ Movable \subseteq Nodes

VARIABLES
    status,      \* status of each node, "absent" while there is no such node
    parent,      \* the budget a node draws from
    limit,       \* the limit in force, or asked for while the node is pending
    proposal,    \* the limit of the pending changes of a change_pending node
    inherits,    \* the budgets with inherits_limit
    alloc,       \* alloc[p][b]: what project p draws from budget b further up
    promoting,   \* the imports flagged promote_on_reconcile
    inUse        \* the use of a project OpenStack measured last

vars == <<status, parent, limit, proposal, inherits, alloc, promoting, inUse>>

Limits == Nat \cup {Unlimited}

BudgetStatuses == {"absent", "pending", "approved", "change_pending", "rejected"}
ProjectStatuses == BudgetStatuses \cup {"imported", "released", "archived"}

\* What each operation writes is of its field's type: a budget never becomes
\* released, archived or imported, no limit in force is a missing proposal
\* (ApproveNode), and only imports are flagged for promotion.
TypeOK ==
    /\ status \in [Nodes -> ProjectStatuses]
    /\ \A b \in Budgets : status[b] \in BudgetStatuses
    /\ parent \in [Nodes -> Budgets \cup {NoParent}]
    /\ limit \in [Nodes -> Limits]
    /\ proposal \in [Nodes -> Limits \cup {NoProposal}]
    /\ inherits \subseteq Budgets
    /\ alloc \in [Projects -> [Budgets -> Nat]]
    /\ promoting \subseteq Imports
    /\ inUse \in [Projects -> Nat \cup {NotMeasured}]

-----------------------------------------------------------------------------
(* Statuses *)

Present(n) == status[n] # "absent"

\* model.ActiveStatuses: the limit of the node is in force.
Active(n) == status[n] \in {"approved", "change_pending"}

\* A request a manager has to decide.
Waiting(n) == status[n] \in {"pending", "change_pending"}

\* model.RetiredStatuses
Retired(n) == status[n] \in {"released", "archived"}

\* model.IsTerminalStatus
Terminal(n) == status[n] = "rejected" \/ Retired(n)

\* loadLive: neither an import nor terminal.
Live(n) == Present(n) /\ status[n] # "imported" /\ ~Terminal(n)

-----------------------------------------------------------------------------
(* The chain of budgets above a node *)

Closed(S) == \A b \in S : parent[b] # NoParent => parent[b] \in S

\* The walk from b up the tree meets a: no set without a is closed under
\* parent and holds b.
LeadsTo(b, a) == \A S \in SUBSET (Budgets \ {a}) : b \in S => ~Closed(S)

\* nodeChain: the budget and every budget above it.
Chain(b) == {a \in Budgets : LeadsTo(b, a)}

\* parentChainNodes
Above(n) == IF parent[n] = NoParent THEN {} ELSE Chain(parent[n])

\* buildSubtreeParentMap: the budget and every budget below it.
Below(b) == {c \in Budgets : Present(c) /\ LeadsTo(c, b)}

\* bindingInChain: a is the nearest budget of b's chain with a limit of its own.
Binds(a, b) ==
    /\ a \in Chain(b) \ inherits
    /\ \A c \in Chain(b) \ inherits : c \in Chain(a)

-----------------------------------------------------------------------------
(* Accounting: what a project costs, and whom *)

Sum(f) == SumFunction(f)

ChargedStatuses ==
    {"approved", "change_pending"}
        \cup (IF ChargeReleased THEN {"released"} ELSE {})
        \cup (IF ChargeArchived THEN {"archived"} ELSE {})

\* model.EffectiveLimit: the project's own limit and every allocation.
EffectiveLimit(p) == limit[p] + Sum(alloc[p])

\* leafCost with chargedQuota: an archived project costs the storage it holds; any
\* other its limit and, if in-use is charged, what it uses beyond all it was given.
OwnCost(p) ==
    IF status[p] = "archived"
    THEN IF inUse[p] = NotMeasured THEN limit[p] ELSE inUse[p]
    ELSE IF ChargeInUse /\ inUse[p] # NotMeasured /\ inUse[p] > EffectiveLimit(p)
         THEN limit[p] + inUse[p] - EffectiveLimit(p)
         ELSE limit[p]

\* buildRolledUpUsage: what p is charged at the root of the set B of budgets
\* below one budget. The own cost climbs from p's budget, each allocation from
\* the budget it comes from.
ChargeWithin(p, B) ==
    IF status[p] \notin ChargedStatuses THEN 0
    ELSE (IF parent[p] \in B THEN OwnCost(p) ELSE 0)
         + (IF status[p] = "archived" THEN 0
            ELSE Sum([a \in Budgets |-> IF a \in B THEN alloc[p][a] ELSE 0]))

\* loadSubtreeUsage of a chain that ends in the root: every project is looked at.
Usage(b) ==
    LET B == Below(b)
    IN  Sum([p \in Projects |-> ChargeWithin(p, B)])

\* loadSubtreeUsage of one budget alone: only the projects below it are looked at.
SubtreeUsage(b) ==
    LET B == Below(b)
    IN  Sum([p \in Projects |-> IF parent[p] \in B THEN ChargeWithin(p, B) ELSE 0])

-----------------------------------------------------------------------------
(* Checks *)

\* shortfall / quotaFits
Fits(need, cap) == cap # Unlimited => need <= cap

\* validateChildBudgetLimit
FitsParent(child, cap) == cap # Unlimited => child # Unlimited /\ child <= cap

\* Only what is there is held to the limit, not what is added to it.
HasCapacityBefore(chain, add, sub) ==
    \A a \in chain \ inherits : Fits(Usage(a) - sub, limit[a])

\* checkCapacity: every budget of the chain that has a limit of its own has
\* room for add once sub is given back.
HasCapacity(chain, add, sub) ==
    \A a \in chain \ inherits : Fits(Usage(a) - sub + add, limit[a])

\* checkBudgetLimit, the edge rule: no more than the limit that applies at b.
FitsUnder(l, b) == \E a \in Budgets : Binds(a, b) /\ FitsParent(l, limit[a])

\* checkBudgetLimit, a limit in force: not below what is in use.
CoversUsage(b, l) == Fits(SubtreeUsage(b), l)

-----------------------------------------------------------------------------
\* ensureBootstrapNodes: the two structural budgets.
Init ==
    /\ status = [n \in Nodes |-> IF n \in {Root, Unassigned} THEN "approved" ELSE "absent"]
    /\ parent = [n \in Nodes |-> IF n = Unassigned THEN Root ELSE NoParent]
    /\ limit = [n \in Nodes |-> IF n = Root THEN Unlimited ELSE 0]
    /\ proposal = [n \in Nodes |-> NoProposal]
    /\ inherits = {}
    /\ alloc = [p \in Projects |-> [b \in Budgets |-> 0]]
    /\ promoting = {}
    /\ inUse = [p \in Projects |-> NotMeasured]

-----------------------------------------------------------------------------
(* Requests *)

\* CreateNode, a project. It is granted to a manager of the budget, or by the
\* budget's auto-approve policy; else it waits for a decision.
CreateProject(p, b, l, granted) ==
    /\ ~Present(p)
    /\ status[b] = "approved"
    /\ granted => HasCapacity(Chain(b), l, 0)
    /\ status' = [status EXCEPT ![p] = IF granted THEN "approved" ELSE "pending"]
    /\ parent' = [parent EXCEPT ![p] = b]
    /\ limit' = [limit EXCEPT ![p] = l]
    /\ UNCHANGED <<proposal, inherits, alloc, promoting, inUse>>

\* A budget that does not exist and whose id no allocation still names: ids
\* are uuids, never used again.
Fresh(c) == ~Present(c) /\ \A p \in Projects : alloc[p][c] = 0

\* CreateNode, a budget with a limit: granted where the edge rule allows it.
CreateBudget(c, b, l, granted) ==
    /\ Fresh(c)
    /\ status[b] = "approved"
    /\ granted => FitsUnder(l, b)
    /\ status' = [status EXCEPT ![c] = IF granted THEN "approved" ELSE "pending"]
    /\ parent' = [parent EXCEPT ![c] = b]
    /\ limit' = [limit EXCEPT ![c] = l]
    /\ UNCHANGED <<proposal, inherits, alloc, promoting, inUse>>

\* CreateNode, a budget that inherits its limit: only a manager creates one.
CreateInheriting(c, b) ==
    /\ Fresh(c)
    /\ status[b] = "approved"
    /\ status' = [status EXCEPT ![c] = "approved"]
    /\ parent' = [parent EXCEPT ![c] = b]
    /\ inherits' = inherits \cup {c}
    /\ UNCHANGED <<limit, proposal, alloc, promoting, inUse>>

\* RequestChange on a pending node: the request is amended in place.
AmendRequest(n, l) ==
    /\ status[n] = "pending"
    /\ n \notin inherits
    /\ limit' = [limit EXCEPT ![n] = l]
    /\ UNCHANGED <<status, parent, proposal, inherits, alloc, promoting, inUse>>

\* RequestChange with leafChangeDecision, a change that needs nobody: it
\* shrinks the project, or the budget's auto-approve grants the new size.
\* It also replaces a proposal that still waits.
ChangeDirectly(p, l) ==
    /\ Active(p)
    /\ \/ l <= limit[p]
       \/ status[parent[p]] = "approved" /\ HasCapacity(Above(p), l, limit[p])
    /\ status' = [status EXCEPT ![p] = "approved"]
    /\ limit' = [limit EXCEPT ![p] = l]
    /\ proposal' = [proposal EXCEPT ![p] = NoProposal]
    /\ UNCHANGED <<parent, inherits, alloc, promoting, inUse>>

\* RequestChange, a change the managers of the parent chain have to decide.
\* Without a limit it proposes a later end.
ProposeChange(n, l) ==
    /\ Active(n)
    /\ l = NoProposal \/ n \notin inherits
    /\ status' = [status EXCEPT ![n] = "change_pending"]
    /\ proposal' = [proposal EXCEPT ![n] = l]
    /\ UNCHANGED <<parent, limit, inherits, alloc, promoting, inUse>>

-----------------------------------------------------------------------------
(* Decisions *)

\* The limit of a pending request, which proposes none, is not looked at.
AskedProposal(n) == proposal[n]

\* ApproveNode: the limit that is asked for, unless the approver modifies it.
Asked(n) == IF proposal[n] # NoProposal THEN proposal[n] ELSE limit[n]

\* A request is decided as if its limit were in force already.
CanGrantProjectInForce(p, l) == l # Unlimited /\ HasCapacity(Above(p), l, limit[p])

\* ApproveNode's checks of a project: a limit in force is replaced.
CanGrantProject(p, l) ==
    /\ l # Unlimited
    /\ HasCapacity(Above(p), l, IF status[p] = "change_pending" THEN limit[p] ELSE 0)

\* A change of a budget's limit is held to the edge rule alone.
CanGrantBudgetByEdge(b, l) == b \in inherits \/ FitsUnder(l, parent[b])

\* ApproveNode's checks of a budget. One that inherits is not checked at all.
CanGrantBudget(b, l) ==
    \/ b \in inherits
    \/ /\ FitsUnder(l, parent[b])
       /\ status[b] = "change_pending" => CoversUsage(b, l)

\* Only the chain above a node decides on it (managesParentChain), so nobody
\* decides on a node without a parent.
Decidable(n) == Waiting(n) /\ parent[n] # NoParent

ApproveNode(n, l) ==
    /\ Decidable(n)
    /\ IF n \in Projects THEN CanGrantProject(n, l) ELSE CanGrantBudget(n, l)
    /\ status' = [status EXCEPT ![n] = "approved"]
    /\ limit' = [limit EXCEPT ![n] = l]
    /\ proposal' = [proposal EXCEPT ![n] = NoProposal]
    /\ UNCHANGED <<parent, inherits, alloc, promoting, inUse>>

\* A rejected change ends the node.
RejectNodeForGood(n) ==
    /\ Decidable(n)
    /\ status' = [status EXCEPT ![n] = "rejected"]
    /\ proposal' = [proposal EXCEPT ![n] = NoProposal]
    /\ UNCHANGED <<parent, limit, inherits, alloc, promoting, inUse>>

\* RejectNode: a request ends, a change is discarded.
RejectNode(n) ==
    /\ Decidable(n)
    /\ status' = [status EXCEPT ![n] = IF @ = "pending" THEN "rejected" ELSE "approved"]
    /\ proposal' = [proposal EXCEPT ![n] = NoProposal]
    /\ UNCHANGED <<parent, limit, inherits, alloc, promoting, inUse>>

-----------------------------------------------------------------------------
(* Direct edits of a budget, by a manager of the chain above it *)

\* Whoever manages a budget edits its limit, the root's too.
EditableByOwnManagers(b) == Live(b)

\* UpdateNode: not an import or terminal, and the caller manages the chain above.
Editable(b) == Live(b) /\ parent[b] # NoParent

\* UpdateNode with a limit; a budget that inherited has its own from then on.
UpdateLimit(b, l) ==
    /\ Editable(b)
    /\ FitsUnder(l, parent[b])
    /\ CoversUsage(b, l)
    /\ limit' = [limit EXCEPT ![b] = l]
    /\ inherits' = inherits \ {b}
    /\ UNCHANGED <<status, parent, proposal, alloc, promoting, inUse>>

\* UpdateNode, inheriting switched off without a limit: it keeps the one that applied.
KeepInheritedLimit(b) ==
    /\ b \in inherits
    /\ \E a \in Budgets : Binds(a, parent[b]) /\ UpdateLimit(b, limit[a])

\* UpdateNode, inheriting switched on: the budget's own limit is dropped.
UpdateInherits(b) ==
    /\ Editable(b)
    /\ b \notin inherits
    /\ limit' = [limit EXCEPT ![b] = 0]
    /\ inherits' = inherits \cup {b}
    /\ UNCHANGED <<status, parent, proposal, alloc, promoting, inUse>>

-----------------------------------------------------------------------------
(* Moves and allocations *)

\* checkInheritingMove: a budget that inherits takes the limit that applies at
\* t to the budgets below it that were held to the one it inherited before.
InheritingMoveFits(n, t) ==
    \A c \in Below(n) \ inherits :
        (Active(c) /\ \A d \in Above(c) \cap Below(n) : Active(d) /\ d \in inherits)
            => FitsUnder(limit[c], t)

\* ReparentNode's checks of a budget whose limit is in force.
BudgetMoveFits(n, t) ==
    /\ IF n \in inherits THEN InheritingMoveFits(n, t) ELSE FitsUnder(limit[n], t)
    /\ HasCapacity(Chain(t), SubtreeUsage(n), 0)

\* The new own budget is above the project as well.
ProjectDrawsFromChain(p, t) == \A a \in Budgets : alloc[p][a] > 0 => a \in Chain(t)

\* checkAllocationsAfterMove, a project: its allocations still come from above
\* its own budget.
ProjectDrawsFromAbove(p, t) ==
    \A a \in Budgets : alloc[p][a] > 0 => a \in Chain(t) /\ a # t

\* Projects with a change that waits are passed over.
ApprovedDrawFromAbove(n, t) ==
    \A p \in Projects : \A a \in Budgets :
        parent[p] \in Below(n) /\ status[p] = "approved" /\ alloc[p][a] > 0
            => a \in Chain(t) \cup Below(n)

\* checkAllocationsAfterMove, a budget: those of the projects below it that are
\* not retired or rejected come from above it, or move along.
SubtreeDrawsFromAbove(n, t) ==
    \A p \in Projects : \A a \in Budgets :
        parent[p] \in Below(n) /\ ~Terminal(p) /\ alloc[p][a] > 0
            => a \in Chain(t) \cup Below(n)

\* loadTarget: what a node is moved under.
Target(t) == status[t] = "approved" /\ t # Unassigned

\* Only a move under itself is refused.
IsItself(n, t) == n = t

\* ReparentNode: t lies inside the subtree of n.
LiesBelow(n, t) == n \in Chain(t)

\* ReparentNode. A project that is charged has to fit above with its limit.
ReparentNode(n, t) ==
    /\ Live(n)
    /\ n \notin {Root, Unassigned}
    /\ t # parent[n]
    /\ Target(t)
    /\ ~LiesBelow(n, t)
    /\ Active(n) => IF n \in Projects
                    THEN HasCapacity(Chain(t), limit[n], 0)
                    ELSE BudgetMoveFits(n, t)
    /\ IF n \in Projects THEN ProjectDrawsFromAbove(n, t) ELSE SubtreeDrawsFromAbove(n, t)
    /\ parent' = [parent EXCEPT ![n] = t]
    /\ UNCHANGED <<status, limit, proposal, inherits, alloc, promoting, inUse>>

\* SetAllocation: what p draws from budget a further up becomes v. Only a raise
\* needs an approved budget and room in it and above.
SetAllocation(p, a, v) ==
    /\ Live(p)
    /\ a \in Above(p) /\ a # parent[p]
    /\ v # alloc[p][a]
    /\ v > alloc[p][a] => status[a] = "approved" /\ HasCapacity(Chain(a), v, alloc[p][a])
    /\ alloc' = [alloc EXCEPT ![p][a] = v]
    /\ UNCHANGED <<status, parent, limit, proposal, inherits, promoting, inUse>>

\* PromoteNode: an import is put under a budget and flagged for adoption.
PromoteNode(p, t, l) ==
    /\ status[p] = "imported"
    /\ Target(t)
    /\ l # Unlimited /\ HasCapacity(Chain(t), l, 0)
    /\ parent' = [parent EXCEPT ![p] = t]
    /\ limit' = [limit EXCEPT ![p] = l]
    /\ promoting' = promoting \cup {p}
    /\ UNCHANGED <<status, proposal, inherits, alloc, inUse>>

-----------------------------------------------------------------------------
(* The end of a node *)

\* The nodes of S are deleted from the store.
Remove(S) ==
    /\ status' = [n \in Nodes |-> IF n \in S THEN "absent" ELSE status[n]]
    /\ parent' = [n \in Nodes |-> IF n \in S THEN NoParent ELSE parent[n]]
    /\ limit' = [n \in Nodes |-> IF n \in S THEN 0 ELSE limit[n]]
    /\ proposal' = [n \in Nodes |-> IF n \in S THEN NoProposal ELSE proposal[n]]
    /\ inherits' = inherits \ S
    /\ alloc' = [p \in Projects |-> [b \in Budgets |-> IF p \in S THEN 0 ELSE alloc[p][b]]]
    /\ promoting' = promoting \ S
    /\ inUse' = [p \in Projects |-> IF p \in S THEN NotMeasured ELSE inUse[p]]

\* ReleaseNode: only an approved project.
ReleaseNode(p) ==
    /\ status[p] = "approved"
    /\ status' = [status EXCEPT ![p] = "released"]
    /\ proposal' = [proposal EXCEPT ![p] = NoProposal]
    /\ UNCHANGED <<parent, limit, inherits, alloc, promoting, inUse>>

\* A change that waits does not keep the budget above it.
BlocksDeleteUnlessChanging(n) ==
    \/ status[n] \in {"pending", "imported"}
    \/ n \in Projects /\ status[n] = "approved"

\* DeleteNode: what keeps a budget above n from being deleted.
BlocksDelete(n) ==
    \/ Waiting(n)
    \/ status[n] = "imported"
    \/ n \in Projects /\ status[n] = "approved"

\* DeleteNode: a budget goes with everything below it.
DeleteNode(b) ==
    LET below == {n \in Nodes : parent[n] \in Below(b)}
    IN  /\ Present(b)
        /\ b \notin {Root, Unassigned}
        /\ \A n \in below : ~BlocksDelete(n)
        /\ Remove({b} \cup below)

-----------------------------------------------------------------------------
(* What the reconciler writes: ProviderSync *)

\* AddImport: a project without a node was found in OpenStack.
AddImport(p, l, used) ==
    /\ ~Present(p)
    /\ status' = [status EXCEPT ![p] = "imported"]
    /\ parent' = [parent EXCEPT ![p] = Unassigned]
    /\ limit' = [limit EXCEPT ![p] = l]
    /\ inUse' = [inUse EXCEPT ![p] = used]
    /\ UNCHANGED <<proposal, inherits, alloc, promoting>>

\* RefreshImport: a promotion asked for meanwhile survives, and so does what
\* was measured before if the project could not be measured now.
RefreshImport(p, l, used) ==
    /\ status[p] = "imported"
    /\ p \notin promoting
    /\ limit' = [limit EXCEPT ![p] = l]
    /\ inUse' = [inUse EXCEPT ![p] = IF used = NotMeasured THEN @ ELSE used]
    /\ UNCHANGED <<status, parent, proposal, inherits, alloc, promoting>>

\* RemoveImport: its OpenStack project is gone, or is a managed one.
RemoveImport(p) == status[p] = "imported" /\ Remove({p})

\* The flag stays.
PromoteFlagged(p) ==
    /\ status[p] = "imported"
    /\ p \in promoting
    /\ status' = [status EXCEPT ![p] = "pending"]
    /\ UNCHANGED <<parent, limit, proposal, inherits, alloc, promoting, inUse>>

\* Promote: the OpenStack project is tagged, the import becomes a request.
Promote(p) ==
    /\ status[p] = "imported"
    /\ p \in promoting
    /\ status' = [status EXCEPT ![p] = "pending"]
    /\ promoting' = promoting \ {p}
    /\ UNCHANGED <<parent, limit, proposal, inherits, alloc, inUse>>

\* RecordObservation: made for an active project, and written also if the
\* project was released since the pass began.
RecordObservation(p, used) ==
    /\ Active(p) \/ status[p] = "released"
    /\ inUse' = [inUse EXCEPT ![p] = used]
    /\ UNCHANGED <<status, parent, limit, proposal, inherits, alloc, promoting>>

MarkArchived(p) ==
    /\ status[p] = "released"
    /\ status' = [status EXCEPT ![p] = "archived"]
    /\ UNCHANGED <<parent, limit, proposal, inherits, alloc, promoting, inUse>>

\* RemoveRetired: its OpenStack project is gone.
RemoveRetired(p) == Retired(p) /\ Remove({p})

-----------------------------------------------------------------------------
RequestProject ==
    \E p \in Projects \ Imports, b \in Budgets, l \in LeafLimits, granted \in BOOLEAN :
        CreateProject(p, b, l, granted)

RequestBudget ==
    \E c \in Budgets \ {Root, Unassigned}, b \in Budgets :
        \/ CreateInheriting(c, b)
        \/ \E l \in BudgetLimits, granted \in BOOLEAN : CreateBudget(c, b, l, granted)

\* A change of members or the end alone keeps the limit.
ChangeProject ==
    \E p \in Projects \cap Changeable : \E l \in LeafLimits \cup {limit[p]} :
        AmendRequest(p, l) \/ ChangeDirectly(p, l) \/ ProposeChange(p, l)

ChangeBudget ==
    \E b \in Budgets \cap Changeable, l \in BudgetLimits :
        AmendRequest(b, l) \/ ProposeChange(b, l)

ProposeOther == \E n \in Changeable : ProposeChange(n, NoProposal)

Decide(n) ==
    \/ ApproveNode(n, Asked(n))
    \/ \E l \in IF n \in Projects THEN LeafLimits ELSE BudgetLimits : ApproveNode(n, l)
    \/ RejectNode(n)

EditBudget ==
    \E b \in Budgets :
        \/ \E l \in BudgetLimits : UpdateLimit(b, l)
        \/ KeepInheritedLimit(b)
        \/ UpdateInherits(b)

Move == \E n \in Movable, t \in Budgets : ReparentNode(n, t)

Allocate == \E p \in Projects, a \in Budgets, v \in AllocLimits : SetAllocation(p, a, v)

PromoteImport ==
    \E p \in Imports, t \in Budgets :
        \E l \in LeafLimits \cup {limit[p]} : PromoteNode(p, t, l)

Delete == \E b \in Budgets : DeleteNode(b)

ObserveImport ==
    \E p \in Imports, l \in ImportLimits, used \in InUseLevels \cup {NotMeasured} :
        AddImport(p, l, used) \/ RefreshImport(p, l, used)

Observe == \E p \in Projects, used \in InUseLevels : RecordObservation(p, used)

Retire == \E p \in Projects : ReleaseNode(p) \/ MarkArchived(p) \/ RemoveRetired(p)

Adopt == \E p \in Imports : Promote(p) \/ RemoveImport(p)

Next ==
    \/ RequestProject
    \/ RequestBudget
    \/ ChangeProject
    \/ ChangeBudget
    \/ ProposeOther
    \/ \E n \in Nodes : Decide(n)
    \/ EditBudget
    \/ Move
    \/ Allocate
    \/ PromoteImport
    \/ Delete
    \/ ObserveImport
    \/ Observe
    \/ Retire
    \/ Adopt

Spec == Init /\ [][Next]_vars

-----------------------------------------------------------------------------
(* Properties of the tree *)

\* Every node but the root hangs below the root: moves and deletions never
\* cut a subtree off or close a cycle (ReparentNode, DeleteNode).
ReachesRoot == \A n \in Nodes \ {Root} : Present(n) => Root \in Above(n)

\* What a node draws from is in force: CreateNode and moves ask for an approved
\* budget, and nothing that can happen to it later takes it away again.
ParentsActive == \A n \in Nodes : Present(n) /\ n # Root => Active(parent[n])

\* A limit applies at every budget: SetAllocation takes bindingInChain without
\* asking whether there is one.
SomeLimitApplies == \A b \in Budgets : Present(b) => \E a \in Budgets : Binds(a, b)

Overbooked(b) == Present(b) /\ b \notin inherits /\ ~Fits(Usage(b), limit[b])

\* No budget is charged more than its limit (checkCapacity, checkBudgetLimit).
WithinLimits == \A b \in Budgets : ~Overbooked(b)

\* Some budget goes over its limit in this step.
Overbooks == \E b \in Budgets : Overbooked(b)' /\ ~Overbooked(b)

DrawsFromAbove(p) == \E a \in Budgets : alloc[p][a] > 0

\* A project draws from a budget strictly above its own, moves of the project
\* and of budgets in between included (SetAllocation, checkAllocationsAfterMove).
AllocationsFromAbove ==
    \A p \in Projects : Live(p) =>
        \A a \in Budgets : alloc[p][a] > 0 => a \in Above(p) /\ a # parent[p]

\* The two rollups charge a budget the same: the one checkCapacity reads, over
\* all projects, and the one limit edits and moves read, over those below.
AccountingsAgree == \A b \in Budgets : Present(b) => SubtreeUsage(b) = Usage(b)

\* A retired project that draws from a budget no longer above it: moves do not
\* ask whether the allocations of retired projects still come from above.
Stranded(p) == Retired(p) /\ \E a \in Budgets \ Above(p) : alloc[p][a] > 0

\* The two rollups differ for no other reason.
AccountingsAgreeUnlessStranded == (\A p \in Projects : ~Stranded(p)) => AccountingsAgree

\* An import stays in the collection point until it is promoted; from then on
\* it is somewhere else and flagged (PromoteNode, Promote, RefreshImport).
ImportsSetAside ==
    /\ \A p \in Imports : status[p] = "imported" => (p \in promoting <=> parent[p] # Unassigned)
    /\ \A p \in promoting : status[p] = "imported"

\* What is charged to somebody although no check of it was made, see OverbookedOnlyUnchecked.
Overrun(p) == OwnCost(p) > limit[p]

\* The request of a project that draws from above, or uses more than it asks
\* for, is approved: only its own limit was checked.
GrantsMoreThanChecked ==
    \E p \in Projects : status[p] = "pending" /\ Active(p)' /\ (DrawsFromAbove(p) \/ Overrun(p))

\* A project that uses more than its limit is moved: only the limit was checked.
MovesMoreThanChecked ==
    \E p \in Projects : Active(p) /\ parent'[p] # parent[p] /\ Overrun(p)

\* A budget is edited or moved by the usage below it, and a stranded project
\* draws from it.
OverlooksStranded ==
    (limit' # limit \/ parent' # parent) /\ \E p \in Projects : Stranded(p)

\* What a project measurably uses is charged elsewhere: measured anew, an
\* allocation lowered below it, or archived.
ShiftsMeasuredUse ==
    \/ inUse' # inUse
    \/ \E p \in Projects : inUse[p] # NotMeasured /\ (alloc'[p] # alloc[p] \/ status'[p] = "archived")

\* A budget goes over its limit in these ways only; every other operation that
\* charges a budget more checks the whole of it up to the root.
OverbookedOnlyUnchecked ==
    [][Overbooks =>
           \/ GrantsMoreThanChecked
           \/ MovesMoreThanChecked
           \/ OverlooksStranded
           \/ ShiftsMeasuredUse]_vars

\* README.md:47: approving anything checks capacity along the whole chain, so
\* no approval takes a budget over its limit (ApproveNode).
ApprovalsFit ==
    [][(\E n \in Nodes : Waiting(n) /\ status'[n] = "approved") => ~Overbooks]_vars

\* op_move.go:49-51: no move puts charged usage into a budget without room for
\* it (ReparentNode).
MovesFit == [][parent' # parent => ~Overbooks]_vars

\* ARCHITECTURE.md:59: the limit of a budget is at most that of the budget above
\* it, inductively (validateChildBudgetLimit).
EdgesFit ==
    \A b \in Budgets \ inherits :
        Active(b) /\ b # Root => FitsUnder(limit[b], parent[b])

Life == INSTANCE NodeLifecycle WITH
    Structural <- {Root, Unassigned} \cap Budgets,
    open <- {n \in Nodes : proposal[n] # NoProposal}

\* The tree implements the life of its nodes: no operation takes a status out of
\* its order, and no deletion takes a node that waits or is in use (RejectNode,
\* RequestChange, DeleteNode, Promote).
ImplementsLifecycle == Life!Spec

-----------------------------------------------------------------------------
\* The managers of the chain above a node decide on it sooner or later: the
\* code cannot make them, it can only keep a decision possible.
FairSpec == Spec /\ \A n \in Nodes : WF_vars(Decide(n))

\* A proposal waits for the parent chain to decide, and no longer (RequestChange).
ProposalsAreDecided ==
    \A n \in Nodes : status[n] = "change_pending" ~> status[n] # "change_pending"

=============================================================================
