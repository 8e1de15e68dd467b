------------------------------ MODULE Requests ------------------------------
(***************************************************************************)
(* Who may give himself what, without anybody deciding: the policies by    *)
(* which a budget grants requests (tree/rule_autoapprove.go), the requests *)
(* for projects and for changes of them (CreateNode, RequestChange), and   *)
(* the decisions of a manager on a request he was shown (ApproveNode).     *)
(* Every operation holds approvalMu from its checks to its write.          *)
(***************************************************************************)
EXTENDS Integers, FiniteSets, FiniteSetsExt, Functions

CONSTANTS
    Budgets,        \* course and the like, each with a limit of its own
    Projects,
    Requesters,     \* may request from every budget
    Home, Holder,   \* the budget projects are in at the start, and whose each is
    Manager,        \* manages the budgets, and the budget above them
    Resources,
    Limits,         \* what projects ask for
    UsedLevels,     \* what is measured in a project
    Capacity,       \* the limit of a budget
    Policies,       \* the auto-approve policies of a budget
    ChargeReleased, \* of the accounting: a released project is charged
    MaxProjectsPerOwner,
    Starts,         \* the policies at the start
    MaxRequests,    \* bound: of those who request
    MaxDecisions    \* bound: what managers and the provider do

Persons == Requesters \cup {Manager}
Nobody == "nobody"
Nothing == [r \in Resources |-> 0]

RequestsAssumption ==
    /\ Home \in Budgets /\ Holder \in [Projects -> Persons]
    /\ Manager \notin Requesters /\ Nobody \notin Persons
    /\ Limits \cup UsedLevels \cup {Capacity} \subseteq [Resources -> Nat]
    /\ Nothing \in UsedLevels
    /\ \A policy \in Policies :
        /\ policy.kind \in {"none", "pool", "share"}
        /\ policy.share \in [Resources -> Nat]
        /\ policy.beyond \in BOOLEAN /\ policy.extensions \in BOOLEAN
    /\ ChargeReleased \in BOOLEAN
    /\ MaxProjectsPerOwner \in Nat \ {0}
    /\ Starts \subseteq [Budgets -> Policies]
    /\ MaxRequests \in Nat /\ MaxDecisions \in Nat

VARIABLES
    policy,         \* of a budget: AutoApprove and what belongs to it
    inForce,        \* budgets in status approved; the others are change_pending
    project,        \* of a project: its node
    shown,          \* the request a manager has before him
    requests, decisions     \* bounds: so far

requestsVars == <<policy, inForce, project, shown, requests, decisions>>

\* "none" and "removed" are not there; an id is used once.
Statuses ==
    {"none", "pending", "approved", "change_pending", "rejected", "released", "removed"}

\* A change: a limit, or none given, and a later end, or none.
Same == [r \in Resources |-> -1]
Changes == [limit : Limits \cup {Same}, later : BOOLEAN]
NoChange == [limit |-> Same, later |-> FALSE]

NoNode ==
    [status |-> "none", owner |-> Nobody, budget |-> Home,
     limit |-> Nothing, used |-> Nothing, proposal |-> NoChange, revision |-> 0]

NewNode(u, b, limit, status) ==
    [NoNode EXCEPT !.owner = u, !.budget = b, !.limit = limit, !.status = status,
                   !.revision = IF status = "approved" THEN 2 ELSE 1]

NothingShown == [project |-> Nobody, node |-> NoNode]

RequestsTypeOK ==
    /\ policy \in [Budgets -> Policies]
    /\ inForce \in SUBSET Budgets
    /\ \A p \in Projects :
        /\ DOMAIN project[p] = DOMAIN NoNode
        /\ project[p].status \in Statuses
        /\ project[p].owner \in Persons \cup {Nobody} /\ project[p].budget \in Budgets
        /\ project[p].limit \in Limits \cup {Nothing} /\ project[p].used \in UsedLevels
        /\ project[p].proposal \in Changes
        /\ project[p].proposal # NoChange <=> project[p].status = "change_pending"
        /\ project[p].revision \in 0..2 * (1 + MaxRequests + MaxDecisions)
    /\ shown.project \in Projects \cup {Nobody} /\ DOMAIN shown.node = DOMAIN NoNode
    /\ requests \in 0..MaxRequests /\ decisions \in 0..MaxDecisions

RequestsInit ==
    /\ policy \in Starts
    /\ inForce = Budgets
    /\ \E granted \in SUBSET Projects, limit \in Limits :
        project = [p \in Projects |->
            IF p \in granted THEN NewNode(Holder[p], Home, limit, "approved") ELSE NoNode]
    /\ shown = NothingShown
    /\ requests = 0 /\ decisions = 0

-----------------------------------------------------------------------------
(* What is held, and the policies *)

Live(p) == project[p].status \in {"pending", "approved", "change_pending"}

\* liveProjectStatuses: what counts against the maximum per owner.
Holding == {"pending", "approved", "change_pending", "released"}

Active == {"approved", "change_pending"}

\* Mutant of ChargedStatuses: what waits for a decision is left out.
ChargedWhenApproved == {"approved"} \cup (IF ChargeReleased THEN {"released"} ELSE {})

\* chargedStatuses, without archived projects.
ChargedStatuses == Active \cup (IF ChargeReleased THEN {"released"} ELSE {})

Below(b, statuses) ==
    {p \in Projects : project[p].budget = b /\ project[p].status \in statuses}
Of(u, b, statuses) == {p \in Below(b, statuses) : project[p].owner = u}

\* leafCost, of a project without allocations, where use is charged: the limit, or
\* what is in use beyond it.
LeafCost(p) == [r \in Resources |-> Max({project[p].limit[r], project[p].used[r]})]

Total(ps) ==
    [r \in Resources |-> SumFunctionOnSet([p \in Projects |-> LeafCost(p)[r]], ps)]

OwnerActiveUsage(u, b) == Total(Of(u, b, ChargedStatuses))

Fits(committed, add, subtract, limit) ==
    \A r \in Resources : committed[r] - subtract[r] + add[r] <= limit[r]

\* checkCapacity, of the budget itself; the budgets above are BudgetTree's.
Room(b, add, subtract) == Fits(Total(Below(b, ChargedStatuses)), add, subtract, Capacity)

AutoApprovable(b, owner, add, subtract) ==
    /\ b \in inForce /\ policy[b].kind # "none"
    /\ policy[b].kind = "share" =>
        Fits(OwnerActiveUsage(owner, b), add, subtract, policy[b].share)
    /\ Room(b, add, subtract)

\* RequestsBeyondAutoApproveAllowed
TakesMore(b) == policy[b].kind = "none" \/ policy[b].beyond

LimitShrinks(current, next) == \A r \in Resources : next[r] <= current[r]

-----------------------------------------------------------------------------
(* Requests *)

Request == requests < MaxRequests /\ requests' = requests + 1 /\ UNCHANGED decisions

Decision == decisions < MaxDecisions /\ decisions' = decisions + 1 /\ UNCHANGED requests

Written(p, n) == project' = [project EXCEPT ![p] = n]

\* CreateNode, of a project.
CreateNode(u, p, b, limit) ==
    /\ Request
    /\ project[p].status = "none" /\ b \in inForce
    /\ u # Manager => Cardinality(Of(u, b, Holding)) < MaxProjectsPerOwner
    /\ \/ u = Manager /\ Room(b, limit, Nothing) /\ Written(p, NewNode(u, b, limit, "approved"))
       \/ /\ u # Manager /\ (policy[b].kind = "none" \/ limit = Nothing)
          /\ Written(p, NewNode(u, b, limit, "pending"))
       \/ /\ u # Manager /\ policy[b].kind # "none" /\ limit # Nothing
          /\ \/ AutoApprovable(b, u, limit, Nothing) /\ Written(p, NewNode(u, b, limit, "approved"))
             \/ /\ ~AutoApprovable(b, u, limit, Nothing) /\ TakesMore(b)
                /\ Written(p, NewNode(u, b, limit, "pending"))
    /\ UNCHANGED <<policy, inForce, shown>>

\* leafChangeDecision: more than the policy grants, or an end it does not move.
Grows(p, change) == change.limit # Same /\ ~LimitShrinks(project[p].limit, change.limit)
BeyondPolicy(p, change) ==
    /\ Grows(p, change)
    /\ ~AutoApprovable(project[p].budget, project[p].owner, change.limit, project[p].limit)
ForManagers(p, change) ==
    LET b == project[p].budget
    IN  /\ change.later
        /\ policy[b].kind = "none" \/ ~policy[b].extensions \/ b \notin inForce

MayRequest(u, p) == u = Manager \/ u = project[p].owner

Applied(n, change) == IF change.limit = Same THEN n.limit ELSE change.limit

\* RequestChange of what still waits to be approved.
Amend(u, p, change) ==
    /\ Request
    /\ project[p].status = "pending" /\ MayRequest(u, p)
    /\ Written(p, [project[p] EXCEPT !.limit = Applied(project[p], change), !.revision = @ + 1])
    /\ UNCHANGED <<policy, inForce, shown>>

\* RequestChange of a project in force; a new proposal replaces one that waits.
RequestChange(u, p, change) ==
    LET n == project[p]
        beyond == BeyondPolicy(p, change)
    IN  /\ Request
        /\ n.status \in Active /\ MayRequest(u, p) /\ change # NoChange
        /\ beyond => u = Manager \/ TakesMore(n.budget)
        /\ IF beyond \/ ForManagers(p, change)
           THEN Written(p, [n EXCEPT !.proposal = change, !.status = "change_pending",
                                     !.revision = @ + 1])
           ELSE Written(p, [n EXCEPT !.limit = Applied(n, change), !.proposal = NoChange,
                                     !.status = "approved", !.revision = @ + 2])
        /\ UNCHANGED <<policy, inForce, shown>>

\* ReleaseNode
ReleaseNode(u, p) ==
    /\ Request
    /\ project[p].status = "approved" /\ MayRequest(u, p)
    /\ Written(p, [project[p] EXCEPT !.status = "released", !.revision = @ + 1])
    /\ UNCHANGED <<policy, inForce, shown>>

-----------------------------------------------------------------------------
(* Decisions *)

\* A manager loads the page of a request.
Show(p) ==
    /\ project[p].status \in {"pending", "change_pending"}
    /\ shown' = [project |-> p, node |-> project[p]]
    /\ UNCHANGED <<policy, inForce, project, requests, decisions>>

\* Mutant of CheckRevision: whatever is there now is decided on.
CheckRevisionNever(p) == project[p].status = shown.node.status

\* checkRevision, with the revision that was shown.
CheckRevision(p) == project[p].revision = shown.node.revision

\* ApproveNode: what is asked for, or with the limit modified.
Asked(n) == Applied(n, n.proposal)
Grant(p, limit) ==
    LET n == project[p]
        held == IF n.status = "change_pending" THEN n.limit ELSE Nothing
    IN  /\ Decision
        /\ shown.project = p /\ CheckRevision(p)
        /\ n.status \in {"pending", "change_pending"}
        /\ Room(n.budget, limit, held)
        /\ Written(p, [n EXCEPT !.limit = limit, !.proposal = NoChange, !.status = "approved",
                                !.revision = @ + 1])
        /\ shown' = NothingShown
        /\ UNCHANGED <<policy, inForce>>

ApproveNode(p) == Grant(p, Asked(project[p]))
ApproveModified(p, limit) == Grant(p, limit)

\* Mutant of Rejected: the proposal stays where it is.
RejectedInPart(n) ==
    [n EXCEPT !.status = IF @ = "pending" THEN "rejected" ELSE "approved", !.revision = @ + 1]

Rejected(n) ==
    [n EXCEPT !.status = IF @ = "pending" THEN "rejected" ELSE "approved",
              !.proposal = NoChange, !.revision = @ + 1]

RejectNode(p) ==
    /\ Decision
    /\ project[p].status \in {"pending", "change_pending"}
    /\ Written(p, Rejected(project[p]))
    /\ UNCHANGED <<policy, inForce, shown>>

TransferOwner(p, u) ==
    /\ Decision
    /\ Live(p) /\ project[p].owner # u
    /\ Written(p, [project[p] EXCEPT !.owner = u, !.revision = @ + 1])
    /\ UNCHANGED <<policy, inForce, shown>>

\* ReparentNode: what is charged has to fit where it goes, by its limit.
ReparentNode(p, b) ==
    /\ Decision
    /\ Live(p) /\ project[p].budget # b /\ b \in inForce
    /\ project[p].status \in ChargedStatuses => Room(b, project[p].limit, Nothing)
    /\ Written(p, [project[p] EXCEPT !.budget = b, !.revision = @ + 1])
    /\ UNCHANGED <<policy, inForce, shown>>

\* UpdateNode of a budget.
SetPolicy(b, new) ==
    /\ Decision
    /\ policy[b] # new
    /\ policy' = [policy EXCEPT ![b] = new]
    /\ UNCHANGED <<inForce, project, shown>>

\* RequestChange of a budget, by who manages it; and what the budget above decides.
BudgetChange(b) ==
    /\ Decision
    /\ inForce' = IF b \in inForce THEN inForce \ {b} ELSE inForce \cup {b}
    /\ UNCHANGED <<policy, project, shown>>

-----------------------------------------------------------------------------
(* The provider *)

\* RecordObservation: no entry of the history is written.
Observe(p, used) ==
    /\ Decision
    /\ project[p].status \in ChargedStatuses /\ project[p].used # used
    /\ Written(p, [project[p] EXCEPT !.used = used])
    /\ UNCHANGED <<policy, inForce, shown>>

\* RemoveRetired: the project is deleted, and its node with it.
RemoveRetired(p) ==
    /\ Decision
    /\ project[p].status = "released"
    /\ Written(p, [NoNode EXCEPT !.status = "removed"])
    /\ UNCHANGED <<policy, inForce, shown>>

RequesterStep(u) ==
    \E p \in Projects :
        \/ \E b \in Budgets, limit \in Limits : CreateNode(u, p, b, limit)
        \/ \E change \in Changes : Amend(u, p, change) \/ RequestChange(u, p, change)
        \/ ReleaseNode(u, p)

DecisionStep ==
    \E p \in Projects :
        \/ Show(p) \/ ApproveNode(p) \/ RejectNode(p)
        \/ \E limit \in Limits : ApproveModified(p, limit)
        \/ \E u \in Requesters : TransferOwner(p, u)
        \/ \E b \in Budgets : ReparentNode(p, b)

PolicyStep == \E b \in Budgets : BudgetChange(b) \/ \E new \in Policies : SetPolicy(b, new)

ProviderStep ==
    \E p \in Projects : RemoveRetired(p) \/ \E used \in UsedLevels : Observe(p, used)

RequestsNext ==
    \/ \E u \in Persons : RequesterStep(u)
    \/ DecisionStep \/ PolicyStep \/ ProviderStep

-----------------------------------------------------------------------------
(* Properties *)

\* What the limits of somebody's projects in force add up to, directly below b.
Granted(u, b) ==
    [r \in Resources |->
        SumFunctionOnSet([p \in Projects |-> project[p].limit[r]], Of(u, b, Active))]

\* AutoApprovable: where a budget grants a share to each, what a requester gets
\* for himself beyond what he had stays within it, over all his projects there,
\* waiting, handed over and moved ones included, and no budget without a policy
\* grants him anything.
WithinOwnShare ==
    \A u \in Requesters, b \in Budgets :
        ~LimitShrinks(Granted(u, b), Granted(u, b)') =>
            /\ policy[b].kind # "none" /\ b \in inForce
            /\ policy[b].kind = "share" => LimitShrinks(policy[b].share, Granted(u, b)')

ShareStep == \A u \in Requesters : RequesterStep(u) => WithinOwnShare

SharesKept == [][ShareStep]_requestsVars

\* checkRevision: what a manager approves without a change of his own is the
\* request that he was shown, for the owner and below the budget he was shown.
ApprovalStep ==
    \A p \in Projects : ApproveNode(p) =>
        /\ project'[p].limit = Asked(shown.node)
        /\ project'[p].owner = shown.node.owner
        /\ project'[p].budget = shown.node.budget

ApprovedAsSeen == [][ApprovalStep]_requestsVars
=============================================================================
