------------------------------- MODULE MCTree -------------------------------
(***************************************************************************)
(* The tree and what is built around it, for TLC: BudgetTree and further   *)
(* components of the tree service and the web server side by side in one   *)
(* state, one of which, chosen by the initial state, takes its steps. They *)
(* share nothing but this module. Nothing is fair.                         *)
(***************************************************************************)
EXTENDS BudgetTree, Callers

CONSTANTS
    Parts          \* the components that may be chosen

CONSTANTS       \* bounds of the components
    LifetimesMaxEdits, LifetimesMaxWriteFailures,
    RequestsMaxRequests, RequestsMaxDecisions,
    ViewsMaxChanges

-----------------------------------------------------------------------------
(* What the components work on *)

Cores(n) == [r \in {"cores"} |-> n]
RequestsLimits == {Cores(0), Cores(1), Cores(2)}
Policy(kind, share, beyond, extensions) ==
    [kind |-> kind, share |-> share, beyond |-> beyond, extensions |-> extensions]
NoPolicy == Policy("none", Cores(0), TRUE, FALSE)
Share == Policy("share", Cores(2), TRUE, FALSE)
Pool == Policy("pool", Cores(0), FALSE, TRUE)

CallersStarts == {[g \in {"admins", "managers"} |-> IF g = "admins" THEN {"r"} ELSE {}]}
CallersHandlers ==
    {"updateNode", "withdrawCatalogEntry", "createToken", "deleteToken",
     "transfer_ownership", "release_project", "createNode", "setNodeAllocation"}

-----------------------------------------------------------------------------
VARIABLES
    part,       \* the component that was chosen
    lifetimesDay, lifetimesAbove, lifetimesState, lifetimesEnds, lifetimesAsks,
    lifetimesMaxTerm, lifetimesSkipped, lifetimesEdits, lifetimesFailures,
    requestsPolicy, requestsInForce, requestsProject, requestsShown, requestsRequests,
    requestsDecisions,
    viewsParent, viewsStatus, viewsScope, viewsEligible, viewsOwner, viewsMembers, viewsChanges

lifetimesAll ==
    <<lifetimesDay, lifetimesAbove, lifetimesState, lifetimesEnds,
      lifetimesAsks, lifetimesMaxTerm, lifetimesSkipped, lifetimesEdits, lifetimesFailures>>
requestsAll ==
    <<requestsPolicy, requestsInForce, requestsProject, requestsShown, requestsRequests,
      requestsDecisions>>
viewsAll ==
    <<viewsParent, viewsStatus, viewsScope, viewsEligible, viewsOwner, viewsMembers,
      viewsChanges>>
serviceVars == <<part, vars, lifetimesAll, requestsAll, viewsAll, callersVars>>

Lifetimes == INSTANCE Lifetimes WITH
    Root <- "root", Budgets <- {"A", "B"},
    Projects <- {"p"}, LastDay <- 1, Horizon <- 2, Terms <- {1}, MaxEdits <- LifetimesMaxEdits,
    MaxWriteFailures <- LifetimesMaxWriteFailures, day <- lifetimesDay, above <- lifetimesAbove,
    state <- lifetimesState, ends <- lifetimesEnds, asks <- lifetimesAsks,
    maxTerm <- lifetimesMaxTerm, skipped <- lifetimesSkipped, edits <- lifetimesEdits,
    failures <- lifetimesFailures

Requests == INSTANCE Requests WITH
    Budgets <- {"course", "lab"}, Projects <- {"p", "q"}, Requesters <- {"a"}, Manager <- "m",
    Home <- "course", Holder <- [p \in {"p", "q"} |-> IF p = "p" THEN "a" ELSE "m"],
    Resources <- {"cores"}, Limits <- RequestsLimits, UsedLevels <- {Cores(0), Cores(2)},
    Capacity <- Cores(3), Policies <- {NoPolicy, Share, Pool},
    Starts <- {[b \in {"course", "lab"} |-> IF b = "course" THEN Share ELSE NoPolicy]},
    ChargeReleased <- FALSE, MaxProjectsPerOwner <- 2,
    MaxRequests <- RequestsMaxRequests, MaxDecisions <- RequestsMaxDecisions,
    policy <- requestsPolicy, inForce <- requestsInForce, project <- requestsProject,
    shown <- requestsShown, requests <- requestsRequests, decisions <- requestsDecisions

Views == INSTANCE Views WITH
    Root <- "root", Unassigned <- "unassigned", Budgets <- {"A", "B"}, Projects <- {"p"},
    RootAdmins <- {"r"}, People <- {"a", "b"}, MaxChanges <- ViewsMaxChanges,
    parent <- viewsParent, status <- viewsStatus, scope <- viewsScope,
    eligible <- viewsEligible, owner <- viewsOwner, members <- viewsMembers,
    changes <- viewsChanges

ASSUME Assumptions ==
    /\ Parts \subseteq {"BudgetTree", "Lifetimes", "Requests", "Views", "Callers"}
    /\ Lifetimes!LifetimesAssumption
    /\ Requests!RequestsAssumption
    /\ Views!ViewsAssumption
    /\ CallersAssumption

\* The components that were not chosen stay in one initial state.
Aside ==
    /\ part # "Lifetimes" =>
        lifetimesState = [n \in {"A", "B", "p"} |-> "none"]
    /\ part # "Requests" =>
        requestsProject = [p \in {"p", "q"} |-> Requests!NoNode]
    /\ part # "Views" =>
        viewsParent =
            [n \in {"root", "unassigned", "A", "B", "p"} |->
                IF n = "unassigned" THEN "root" ELSE "nowhere"]
    /\ part # "Callers" =>
        /\ key =
            [k \in Keys |->
                IF k = First THEN [subject |-> "r", readOnly |-> FALSE, issuer |-> "r"]
                ELSE NoKey]
        /\ node = [owner |-> "o", name |-> "old", released |-> FALSE]

ServiceInit ==
    /\ part \in Parts
    /\ Aside
    /\ Init
    /\ Lifetimes!LifetimesInit
    /\ Requests!RequestsInit
    /\ Views!ViewsInit
    /\ CallersInit

OnlyBudgetTree ==
    /\ part = "BudgetTree"
    /\ UNCHANGED <<part, lifetimesAll, requestsAll, viewsAll, callersVars>>

OnlyLifetimes ==
    /\ part = "Lifetimes"
    /\ UNCHANGED <<part, vars, requestsAll, viewsAll, callersVars>>

OnlyRequests ==
    /\ part = "Requests"
    /\ UNCHANGED <<part, vars, lifetimesAll, viewsAll, callersVars>>

OnlyViews ==
    /\ part = "Views"
    /\ UNCHANGED <<part, vars, lifetimesAll, requestsAll, callersVars>>

OnlyCallers ==
    /\ part = "Callers"
    /\ UNCHANGED <<part, vars, lifetimesAll, requestsAll, viewsAll>>

ServiceNext ==
    \/ OnlyBudgetTree /\ Next
    \/ OnlyLifetimes /\ Lifetimes!LifetimesNext
    \/ OnlyRequests /\ Requests!RequestsNext
    \/ OnlyViews /\ Views!ViewsNext
    \/ OnlyCallers /\ CallersNext

ServiceSpec == ServiceInit /\ [][ServiceNext]_serviceVars

-----------------------------------------------------------------------------
(* Properties: those of the components *)

\* Every variable of the further component that runs keeps its type.
ServiceTypeOK ==
    /\ part = "Lifetimes" => Lifetimes!LifetimesTypeOK
    /\ part = "Requests" => Requests!RequestsTypeOK
    /\ part = "Views" => Views!ViewsTypeOK
    /\ part = "Callers" => CallersTypeOK

\* fitEnd, shortenSubtreeEnds, chainMaxTerm, shortenSubtreeTerms: nothing outlives a
\* budget it draws from, and no project runs longer than its budgets allow.
NothingOutlives ==
    part = "Lifetimes" => Lifetimes!NothingOutlives /\ Lifetimes!TermsObeyed

\* autoApprovable: by its policy no budget grants anybody more than the share it
\* grants to each, however he asks.
SharesKept == [][part = "Requests" => Requests!ShareStep]_serviceVars

\* checkRevision: what is approved is what the manager was shown.
ApprovedAsSeen == [][part = "Requests" => Requests!ApprovalStep]_serviceVars

\* ListToManage, GetNode, managesNode: what waits reaches the nearest managers, and what
\* the lists, the inboxes and the rights of anybody say of a node agrees.
ViewsAgree == part = "Views" => Views!ViewsAgree

=============================================================================
