# A TLA+ verification of the OpenStack management API

The program keeps a tree of budgets and projects. Budgets hand limits down, projects draw from
them, managers decide on requests, and two providers carry approved projects out: the reconciler in
OpenStack, and the AIaaS provider in an AI service. They report what they find there, and a book is
kept of what was used. This directory models the tree, the passes of both providers, the store, the
books, what people are shown and who may call what; checks it with TLC; and proves most of the
safety properties with TLAPS. Paths below are relative to `src/`, and where no
directory is named, to `src/internal/core/tree/` or `src/internal/provider/openstack/reconciler/`; `client/` is
the directory beside the latter, `admin.go` is in `src/internal/provider/openstack/catalog/`,
`middleware.go` in `src/internal/identity/`, `api_reconciler.go` in `src/internal/webserver/`.

## The system

| Component | State it keeps | Operations | What makes it correct | Module |
|---|---|---|---|---|
| Tree service (`op_*.go`) | nodes: status, parent, limit, pending changes, inherits_limit, allocations, flags | CreateNode, UpdateNode, RequestChange, ApproveNode, RejectNode, ReleaseNode, RequestDeletion, DeleteNode, ReparentNode, TransferOwner, PromoteNode, SetAllocation | no budget is charged more than its limit; the tree stays a tree; decisions follow the life of a node | `BudgetTree`, `NodeLifecycle` |
| Limits and accounting (`rule_limits.go`, `calc_rollup.go`) | none, computed from the nodes | checkCapacity, checkBudgetLimit, the rollups | all readers charge a budget the same; every path that charges more checks all of it | `BudgetTree` |
| Policies and decisions (`rule_autoapprove.go`, `op_lifecycle.go`) | policies of budgets, revisions of requests | autoApprovable, leafChangeDecision, checkRevision | no requester gives himself more than his share; what is approved is what was shown | `Requests` |
| End dates and terms (`rule_terms.go`) | end dates, longest terms | fitEnd, shortenSubtreeEnds, shortenSubtreeTerms | nothing outlives its budget | `Lifetimes` |
| Authority and queries (`rule_authz.go`, `op_query.go`, `op_children.go`) | admin scopes, requesters, members | the lists, the inboxes, the node page | what waits is seen by those who may decide on it, and by nobody else | `Views` |
| Catalogue (`op_catalog.go`, `internal/provider/openstack/catalog`) | the entries, and the limits of every node | Add, Withdraw, Restore, Remove, rewriteAll | what is withdrawn is gone from every project of the tree and revoked | `Availability` |
| Node store (`internal/core/nodestore`) | rows | UpsertNode (blind), UpdateNode (row lock), DeleteNodeIf | a transaction takes nothing back | `NodeWrites` |
| Reconciler (`Reconcile`, `imports.go`, `projects.go`, `released.go`, `sync_provider.go`) | what a pass loaded, tags in OpenStack, bindings on the nodes | promote, recover, create, sync, archive, delete, import, remove | one project per node, over crashes; only retired projects end | `Reconciler` |
| Members (`members.go`, `client/members.go`, `client/users.go`, `client/federated.go`) | accounts, groups, roles in Keystone | syncMembers, syncGroups | everybody has the role the node names | `Access` |
| Quotas and grants (`mapper.go`, `grants.go`, `orphan_grants.go`, `sync_errors.go`) | quotas, shares, errors on the node | syncQuota, syncGrants, sweepOrphanedGrants, recordSyncErrors | the limit is reached, and nothing fails silently | `Quotas` |
| Purge (`purge.go`) | what is left in a project | purgeRetiredProject, the stages | a project goes only when it is empty, and empties some day | `Purge` |
| Loops and signals (`supervisor.go`, `service_changes.go`) | channels of capacity one, timers | Trigger, signalChange, scheduleFollowUp, connect | the last change is followed by a pass | `Passes` |
| AIaaS provider (`internal/provider/aiaas`) | projects of the AI service | Pass | the AI service has what the tree asks for | `Lab` |
| Usage books (`internal/core/usage`) | one row per project and day | DaysToRecord, RecordDay, ReplaceDay | no gap | `Books` |
| Identity and web server (`internal/identity`, `internal/webserver`) | API tokens | the middlewares, the routes and the tools of MCP | who changed something was entitled to, and is named | `Callers` |

The tree service takes `approvalMu` around CreateNode, UpdateNode, RequestChange, ApproveNode,
RejectNode, ReleaseNode, DeleteNode, ReparentNode, TransferOwner, PromoteNode, SetAllocation, the
catalogue's rewriteAll, AdoptNewResources and syncRoot. RequestDeletion, SetAttributes,
RemoveExternalGroup and all writes of a provider are outside it; they, and ApproveNode, RejectNode,
ReleaseNode and TransferOwner, write through the store's locked UpdateNode. The others write back
the node they read.

The components meet in few places, and are composed there: a provider's writes (`sync_provider.go`)
are atomic actions of `BudgetTree`, come at their place of a pass in `Reconciler`, `Quotas` and
`Lab`, and are taken apart in `NodeWrites`; a change signals the loops of `Passes`, which run the
passes the others take step by step; a pass is handed the projects `Purge` empties; `Availability`
has the catalogue, the tree and a pass in one module, because a withdrawal goes through all three;
`Callers` ends where an operation of the tree begins.

What is hard, and where: limits checked along chains while budgets move, inherit and vanish
(`BudgetTree`); shares of people whose projects are handed over (`Requests`); passes that work on
what they loaded, while everything changes (`Reconciler`, `Lab`, `Access`, `Quotas`); the process
ending between a call to OpenStack and the write that remembers it (`Reconciler`, `Purge`,
`Quotas`); one of many calls failing (`Access`, `Quotas`, `Purge`, `Lifetimes`); locks that cover
one part of an operation (`Availability`, `NodeWrites`); signals folded into one (`Passes`); a
service that was down for days (`Books`). `PROJECT.json` lists each hazard at its line, with the
properties that catch it.

## Modules

| Module | What one step is | Its state in the code |
|---|---|---|
| `BudgetTree` | an operation of the tree service, or one write of a provider | below |
| `NodeLifecycle` | abstract: which status may follow which, a proposal lasts until somebody decided on it, what may disappear | statuses and open proposals |
| `Requests` | a request, a decision, an edit of a policy, a measurement | `policy`: `AutoApprove` and its two switches on a budget; `inForce`: status approved; `project`: owner, parent, limit, use, pending change and revision of a project; `shown`: the page a manager has open |
| `Lifetimes` | an operation, with both its cascades | `ends` `TerminationDate`, `asks` the end in `Pending`, `maxTerm` `MaxProjectTermDays`, `above` the chains, `skipped` what a failed write left, until the edit is repeated |
| `Views` | an operation that changes who may see what; the queries are operators | `scope` `AdminScope`, `eligible` `EligibleRequesters`, `owner`, `members` `AuthorizedUsers`, `parent`, `status` |
| `Callers` | one stage of a request: signing in, acting on behalf, the tokens, the check, the write | `group` the role provider, `key` the API tokens, `request` the request in flight, `entry` the last history entry |
| `Availability` | a step between two lock operations of an admin, a request or a pass | `entry` the catalogue's entry, `held` and `root` the limits, `standing` the status and flag of the project, `granted` OpenStack, `lock` `approvalMu`, `reading` what importGrants found |
| `NodeWrites` | reading, locking or writing a row | `stored` the fields of the row, as versions; `copy` what an operation read; `mutex` `approvalMu`, `rowLock` the row |
| `Reconciler` | a query, or a call to OpenStack or the store | `node`, `project` as stored; `active`, `known`, `retired`, `imports`, `listed`, `byNode`, `claimed` the maps of the same or like names in `Reconcile` |
| `Access` | a call to Keystone | `accounts`, `roles`, `members`, `elsewhere` Keystone; `tree` the node, `leaf` the node as loaded |
| `Quotas` | a call to Nova, Cinder, Glance, Neutron or the store | `quota`, `static`, `grants`, `used` OpenStack; `node` what the tree was told; `leaf`, `listed`, `measured`, `failing` the pass |
| `Purge` | a call to OpenStack | `item`, `objects`, `inside`, `enabled` the project; `stage`, `asked`, `left`, `blocked` purgeRetiredProject; `progress` what the node is told |
| `Passes` | a receive, a send, a timer, a pass | `trigger` the channel of a provider, `loop` where it is, `timers` and `followUps` of scheduleFollowUp, `behind` whether the tree changed since it was read |
| `Lab` | a call to the AI service or the store | `status` to `bound` the node, `lab` the project over there, `leaf`, `there`, `chain` the pass, `leaving` the other half of a RemoveRetired of the OpenStack reconciler |
| `Books` | a day counted, or written | `rows` the books, `queue` the days of DaysToRecord, `counted` the day in hand |

`MCBudgetTree` and `MCReconciler` add symmetries. `MCTree`, `MCOpenStack` and `MCService` extend, or
where names would clash instantiate, several components and put them side by side in one state, one of which, `part`, is chosen by the initial state
and takes all the steps; the others stay in one initial state. That is no claim about how they
interact; it lets one run check components that share nothing, without the product of their
states. Where components do interact, their modules have both sides.

Data is abstracted to what the properties tell apart. In `BudgetTree` quantities of a quota are
checked one by one and alike, so a limit is one number; in `Quotas` there is one count per service
and one availability per kind of grant. Dates are days. Names, texts, histories, paging and wording
are left out; a person stands for the tokens he holds, a group for its token. Uuids are never used
again.

How the state of `BudgetTree` corresponds to the code:

| Variable | In `internal/core/model/model.go` |
|---|---|
| `status` | `Node.Status`; `"absent"` is a node the store does not have |
| `parent` | `Node.ParentID` |
| `limit`, `proposal` | `Node.Limit` and `Node.Pending.Limit`, one quantity of each |
| `inherits` | `Node.InheritsLimit` |
| `alloc` | `Node.Allocations`, per budget drawn from |
| `promoting` | `promote_on_reconcile` in `Node.Flags` |
| `inUse` | `Binding.InUse`, what OpenStack reported last |

Each operation is one step there. For the service's operations that is what `approvalMu` gives
within one process; a provider's writes are single atomic updates, and come at any time. Who calls
is left out: where a caller's role or the auto-approve policy decides between two outcomes both are
possible. Chains are defined without recursion, so that theorems can be stated about them: budget
`b` leads to `a` when every set that holds `b` and not `a` fails to be closed under `parent`. That
is the walk of `nodeChain`, and TLC evaluates it directly.

## Runs

Every bound is a constant named in the cfg. "What it shows" says more than the comment at the
property only where that helps.

| Run | Module | Instance | Properties |
|---|---|---|---|
| `capacity` | `MCBudgetTree` | root, two budgets, two projects, limits 1 and 2, no allocations or measurements | `ReachesRoot`, `SomeLimitApplies`, `WithinLimits` |
| `allocations` | `MCBudgetTree` | root, two budgets, one project that draws 0 or 1 from a budget above and may be measured at 2 | `ParentsActive`, `AllocationsFromAbove`, `AccountingsAgreeUnlessStranded`, `OverbookedOnlyUnchecked` |
| `tree` | `MCTree` | `BudgetTree` with unassigned, one budget, one import and one requested project; or `Lifetimes`, `Requests`, `Views`, `Callers` | `TypeOK`, `ImportsSetAside`, `ImplementsLifecycle`; `ServiceTypeOK`, `NothingOutlives`, `SharesKept`, `ApprovedAsSeen`, `ViewsAgree`, `ChangesAccountable` |
| `reconciler` | `MCReconciler` | two nodes, two OpenStack projects, one tampering | `TypeOK`, `OneProjectPerNode`, `OneNodePerProject`, `NoSecondProject`, `EndsOnlyRetired`, `RemovedOnlyWithoutProject`, `DeletionDayStays` |
| `openstack` | `MCOpenStack` | `Purge`, `Passes`, `Access` or `Quotas` | `TypeOK`, `LockedOut`, `NothingLeftBehind`, `Emptied`, `PassesComeAndEnd`, `RoleKept`, `MembersReached`, `NothingFailsSilently`, `QuotasCarriedOut` |
| `service` | `MCService` | `Availability`, `Lab`, `Books` or `NodeWrites` | `TypeOK`, `TakenFromAll`, `Revoked`, `NothingTakenAway`, `LabFollows`, `CatchesUp`, `OnlyWholeNodesTakeBack`, `ProviderRecovers` |

What they show:

- `WithinLimits`: without allocations and measured use no operation overbooks a budget.
  `OverbookedOnlyUnchecked`: with them, a budget goes over its limit only by the approval of a
  request that draws from above or uses more than it asks for, by a move of a project that uses
  more than its limit, by overlooking a stranded draw, or by measured use that shifts. Everything
  else checks all that it charges.
- `AccountingsAgreeUnlessStranded`: the usage over all projects and the usage over those below one
  budget are the same, unless a retired project draws from a budget no longer above it.
- `ImplementsLifecycle`: `BudgetTree` implements `NodeLifecycle`, with statuses and open proposals
  as the refinement mapping.
- `NothingOutlives`: what a node asks for, has, or gets by a move or an approval is held to every
  budget above it, also after a proposal was made; only what a failed write of a cascade left may
  be later, and that only until the edit is repeated.
- `SharesKept`: whatever a requester does himself, what his projects below a budget hold stays in
  the share the policy gives him, counting what was handed over or moved to him and what waits;
  without a policy he gets nothing. `ApprovedAsSeen`: a request that was amended, replaced, moved or
  handed over since it was shown is not approved.
- `ViewsAgree`: what waits is in the inbox of the nearest managers above it; every entry of an
  inbox may be decided by its reader; everything in any list can be opened; filtering by a name
  finds what that person finds himself.
- `ChangesAccountable`: on every path, through REST or MCP, by a session or a token, for oneself or
  on behalf of another, a change was made with the rights of the person it was made as, and the
  history names who made it. A token acts for nobody, not even, by the header, for its own subject. Rights are those at some time since the request came: they are read
  once.
- `OneProjectPerNode`, `NoSecondProject`, `OneNodePerProject`: crashes between creating and
  recording, removed tags and adopted imports lead to no second project of a node, nor a second
  node of a project. A node gets a new project, though, when the pass has just tagged the one
  recorded on it for another node, which adopted it as an import. `EndsOnlyRetired`,
  `RemovedOnlyWithoutProject`: no list that is old or did not
  load disables or deletes the project of a node in force, or forgets a node whose project is there.
  `DeletionDayStays`: the announced day is never taken back by tags made from an older listing.
- `LockedOut`, `NothingLeftBehind`, `Emptied`: nothing is deleted while somebody is in the project;
  the project is deleted only when empty; and in the end it is.
- `PassesComeAndEnd`: after the last change there is a pass over it, and what cannot be deleted
  does not make passes for ever.
- `RoleKept`: no step of a pass on the node as it is takes the role the node names from one who has
  it, with one exception, which the property states: an account made ahead, which a later login of
  that person supersedes, is deleted with the role it has, when a group is looked up
  (`members.go:281`) or the account to grant to is (`client/members.go:154`). The account of the
  login gets the role in a later step, or in a later pass if that step fails.
  `MembersReached`; `NothingFailsSilently`, `QuotasCarriedOut`: what the node names and
  asks for is reached, failures are shown, and networks are not left shared with a project that is
  gone.
- `TakenFromAll`, `Revoked`: a withdrawn availability is gone from every project of the tree,
  whichever requests and promotions were being written, and revoked in the end; what is removed is
  held by none and granted to none. Imports are excepted: what one holds says what OpenStack grants
  it, and the pass writes that again after a withdrawal (see below). Once
  it is promoted and in force it is a project like others; grants made by hand to an import are
  revoked only then.
- `LabFollows`, `NothingTakenAway`: the AI service comes to what the tree asks for, and only a pass
  that loaded a node before it changed takes something from a project in force.
- `CatchesUp`: after any outage each finished day is recorded. `OnlyWholeNodesTakeBack`,
  `ProviderRecovers`: only UpsertNode of a whole node overwrites what others wrote, and the next
  pass repairs what it overwrote of the provider's.

### Bounds

Two budgets beside the root are the least with which budgets nest, swap places, and one lies between
a project and the budget it draws from. Two projects compete for one limit; a limit of 1 admits one
project, 2 both; a budget that inherits stores 0. Measuring 2 where 1 was granted is the excess
every charging rule distinguishes. In `Requests` a share of 2 is what one project of 2 or two of 1
fill, and the budget has 3; two requests and one decision are what it takes to ask, change what was
asked and have it decided, or to be handed a project and ask for another. In `Lifetimes` two budgets
nest above one project, and four operations set an end, propose beyond it, move and decide. `Views`
has the root's admins, two people and two budgets to delegate and move in three operations;
`Callers` two people and two tokens, two requests and one change of a group or outage, so that the
second request meets what the first one did. `Reconciler` has two nodes and projects because every
rule there is about a pair: an import beside the node that recorded its project, two projects with
one tag. One tampering, and one failed call in `Purge`, `Access`, `Quotas` and `Lab` or outage in
`Books`, is placed anywhere; failures of `Reconciler` are not bounded, nor are its crashes.
`Availability` has two admins and four operations, which is adding, withdrawing, restoring and
removing, and one project, which may be of the tree or an import that is found, flagged and adopted.
`Passes` schedules one pass to follow another where the code has 20: the limit is met, and the count
starts anew. `Access` begins with at most one account of an address. `Books` runs three days with a
backfill of one and at most two days per run, so that a run leaves days to the next. Where a bound
ends a behaviour the run says `CHECK_DEADLOCK FALSE`; `capacity`, `allocations` and `reconciler`
have no such bound and check for deadlocks.

Symmetries: budgets and projects that are not structural are interchangeable in `MCBudgetTree`,
nodes and projects in `MCReconciler`. No run with liveness uses one.

### Fairness

- `openstack` and `service`: a pass, and a loop that has something to receive, goes on (weak
  fairness: goroutines that only wait for calls with timeouts); OpenStack carries out a deletion it
  accepted; the change signal's goroutine sends; a timer that is set fires. Requests in progress go
  on. Nobody need ask for anything, and no call need succeed more often than the bounds of failures
  say it does.
- Liveness is stated for what stays: a change is followed by a pass if OpenStack stays reachable
  (`<>[]up`), a withdrawn availability is revoked if it stays withdrawn, a project's days are
  recorded if it stays. As components do not interact, each conjunct of the fairness is about the
  steps of the component that was chosen.
- `root_change`: under `FairSpec`, for each node, if deciding on it stays possible somebody does
  sooner or later. Managers cannot be forced to, so this is an assumption on the environment; for
  the root no decision is possible at all.
- `tree`, `capacity`, `allocations`, `reconciler`: safety only, no fairness.

### Disagreements between the code and its documentation

Each of these runs ends in a counterexample.

| Run | Property | What the code does |
|---|---|---|
| `pending_allocation` | `ApprovalsFit` | approving a request does not check what it already draws from budgets further up (`op_lifecycle.go:958`), although "approving anything checks capacity along the whole ancestor chain" (`README.md:47`) |
| `move_overrun` | `MovesFit` | a move checks the limit of a project that is charged its measured use (`op_move.go:54`), although a leaf should not "be billed in one view and move for free in another" (`ARCHITECTURE.md:175`) |
| `edge_rule` | `EdgesFit` | lowering a limit is not compared with the limits of the budgets below, so the edge rule does not hold inductively (`rule_limits.go:392` against `rule_limits.go:333-336`) |
| `root_change` | `ProposalsAreDecided` | a change proposed for the root can be decided by nobody (`rule_authz.go:55`); the root stays `change_pending`, and nothing can be created under it |
| `login_account` | `LoginReached` | an account made by a later login is not looked at once another account of that address has the role (`client/members.go:143`), although "the next sync notices" (`client/federated.go:42-44`) |
| `static_quota` | `QuotaRetried` | if the first setting of a new project's quotas fails, those the tree does not manage are never set again (`client/quotas.go:139`), although later ticks "will keep retrying" (`projects.go:40-43`) |

### Seen while modelling, and not made runs

In the tree: approving a change of a budget that inherits stores the limit the approver gives
(`op_lifecycle.go:966`, against `ARCHITECTURE.md:128`). DeleteNode removes released projects whose
OpenStack project still exists (`op_retire.go:203`). A limit can be lowered below the charged usage
once a released project draws from a budget no longer above it (`op_allocations.go:288`); the
exception is in `AccountingsAgreeUnlessStranded` and `OverbookedOnlyUnchecked`. A whole node written
back (`op_lifecycle.go:617`, `:770`, `:842`, `op_move.go:123`, `:310`, `op_allocations.go:155`) can
undo SetAttributes and RemoveExternalGroup, bring back an import that was removed, and use a
revision number twice; `NodeWrites` has these writes and excepts them. UpdateNode accepts an empty
admin_scope for a budget (`op_lifecycle.go:447`), which CreateNode refuses (`:69-73`). ApproveNode
with a modified limit does not look at the number of members again, and SetAllocation
(`op_allocations.go:149`) counts the members in force only. autoApprovable subtracts the limit of a
project, not its charge, so one used beyond its limit leaves less of the share than it might.
PromoteNode's import keeps its end when a budget's is shortened, and UpdateNode leaves a budget's own
proposal of a later end. nodeChain reads one node after the other, so moves meanwhile can mix two
chains.

In the catalogue: importGrants stores 1 in the limit of an import for every availability that
OpenStack grants its project, the withdrawn ones included (`imports.go:251-271`; Managed has them,
`internal/provider/openstack/catalog/catalog.go:155-161`), so the next pass after a withdrawal writes it back to an import and does
not revoke it, although "every node is set to 0 and the reconciler revokes it in OpenStack on its
next pass" (`admin.go:141-143`). `WithdrawnFromAll` excepts imports; without the exception TLC finds
this in eight states. Admins who withdraw, restore and remove one entry at the same time can leave it
held (against `op_catalog.go:32-34`), which is why `RemovedFromAll` excepts overlapping operations;
an import that OpenStack still grants it counts as a holder, so Remove is refused until an operator
takes the grant away or the import is promoted; a pass that had loaded a project before the removal
grants once more, and nothing revokes that
(`admin.go:160-203`); a request that says 0 explicitly, written in between, leaves the key of a
removed resource.

In the reconciler: a node released between two queries of a pass is both in force and retired for
it; `RemovedOnlyWithoutProject` excepts it. RemoveImport looks at the status alone
(`sync_provider.go:232`), so an import flagged for promotion can go, and one whose removal failed
after its project was recovered stays beside the node. Adopting a formerly archived project leaves
it disabled. With two projects of one tag the order of the listing decides. Archiving frees
addresses and servers while members may still be inside (`archive.go:66-149`). A refusal of the
compute quota clears an older error of block storage. Members: `members.go:276-338`, `:371` and
`:392-410` do less than their comments say when listings fail.

Between the providers: RemoveRetired (`sync_provider.go:200-217`) deletes or unbinds a node in two
transactions, so both providers may find it bound to the other, and then both unbind it. It stays,
carried out by nobody, until the next pass of OpenStack.

In the AI service and the books: Refresh (`internal/provider/aiaas/catalog.go:158-217`) keeps renamed classes before they
are saved and announced, and a failure is not retried before a restart. A pass loads nodes before
it lists what is there, so two processes (a rolling update) delete a fresh project as an orphan; a
deletion after the grace period goes by the node as loaded, hence the exception in
`NothingTakenAway`; and a node can be removed by it before its OpenStack project is recorded. The
last day of a project deleted before midnight is lost to the books, and a day without rows does not
advance LastDay in Postgres.

In identity: HttpRoleProvider.GetUserTokens hides outages, so acting on behalf goes on with fewer
rights instead of the 503 of `middleware.go`; requireRootAdmin (`api_reconciler.go:30-33`) compares
tokens as configured, the middleware compares them normalised.

## Proofs

TLAPS checks, for all sets and bounds that satisfy the assumptions of the modules:

| Theorem | Property | Module |
|---|---|---|
| `TypeCorrect` | `TypeOK` | `BudgetTree_proofs` |
| `ReachesRootCorrect` | `ReachesRoot` | |
| `ParentsActiveCorrect` | `ParentsActive` | |
| `SomeLimitAppliesCorrect` | `SomeLimitApplies` | |
| `AllocationsFromAboveCorrect` | `AllocationsFromAbove` | |
| `LifecycleImplemented` | `ImplementsLifecycle` | |
| `ImportsStaySetAside` | `ImportsSetAside` | |
| `TypeCorrect` | `TypeOK` | `Reconciler_proofs` |
| `OneProject` | `OneProjectPerNode` | |
| `OneNode` | `OneNodePerProject` | |
| `NeverASecond` | `NoSecondProject` | |
| `OnlyRetiredEnd` | `EndsOnlyRetired` | |
| `RemovedWithoutProject` | `RemovedOnlyWithoutProject` | |
| `DayStays` | `DeletionDayStays` | |
| `AccountableAlways` | `ChangesAccountable` | `Callers_proofs` |
| `TransactionsTakeNothingBack` | `OnlyWholeNodesTakeBack` | `NodeWrites_proofs` |
| `TakenAlways` | `TakenFromAll` | `Availability_proofs` |
| `TakenAwayOnlyStale` | `NothingTakenAway` | `Lab_proofs` |
| `FailuresShown`, `QuotasTyped` | `NothingFailsSilently`, `QuotasTypeOK` | `Quotas_proofs` |
| `DeletedOnlyLockedOut` | `LockedOut` | `Purge_proofs` |

The assumptions are that identifiers are distinct, that sentinels are no numbers or members, that
quantities and bounds are numbers of the right sign, and, where a proof counts or sums, that sets
are finite. `Quotas` needs every multiplier to be positive and `Lab` that every resource is of one
of the kinds its client knows. Nothing is assumed about what people, OpenStack or a failure do:
that is in the modules, as actions. The theorems are about the specification of each module alone,
its initial states and steps over its own variables. The runs that put components side by side
extend these modules and check the very same properties.

No property is inductive as it stands; what makes it so is the following.

### The tree

`Shape`: types, the structural budgets stay in force, what is absent hangs nowhere, parents are in
force, and all budgets lead to the root. `ReachesRoot` alone is not inductive: a new id must be on
no chain, which needs that absent nodes have no parent; a move must end below a budget that exists,
which needs that parents are in force. The step is proved once for each of three kinds: a step
keeps the tree (`Keeps`), hangs one node somewhere (`Hangs`), or cuts some off (`Cuts`);
`StepKinds` shows that every action is one of them. As there is no induction over chains, each
lemma about them exhibits a closed set: the part of a set that lies above the target of a move, or
what a deletion leaves of it. `SomeLimitApplies` follows because the budgets at which no limit
applies would be closed under `parent` without holding the root.

`Draws`: nothing is drawn before a project is requested or adopted, and allocations come from
above. A move of a budget is the hard case. What leads to the moved budget goes on along the
target's chain (`ChainsGoOnAtTarget`), what moves along is kept (`ChainsMoveAlong`, which needs
that chains have no cycles), everything else stays (`ChainsElsewhereStay`), and the check of
ReparentNode covers just these cases.

Every step of the tree is a step of `NodeLifecycle` on the statuses and the open proposals, or a
stutter. It needs `ProposalsWait`, that only a node whose change waits keeps a proposal: otherwise
settling or releasing another node would lose one. A deletion is a step there because of `Shape`:
what hangs below the budget exists, holds no structural budget, and passed the check of DeleteNode.
`ImportsSetAside` is inductive with the types alone.

### The reconciler

A pass works for long on what it loaded, so its properties rest on how that relates to what is
there now. `Safe` says so, in thirteen parts. The central one is `MarkedOnce`: a project is marked
for a node if its tag names the node, or if a tag the pass still holds does and may be written
again; no two projects are marked for one node. `OneProjectPerNode` is the first half of it only,
and is not inductive: a pass that tags again from its listing would bring a second one back.
`MarkedOnce` survives the creation of a project because what phase 4 has still to serve is marked
on nothing (`UnservedUnmarked`), and that because the listing was complete (`AllManaged`, where
only managed projects are listed) and came after the nodes (`StatusesHold`: what a node was when
loaded bounds what it can be now). `MarkedStored` ties marks to the store, so that an import is
adopted by its own node. `ViewsHold` keeps the maps of a pass to one listing. `RecordKept` is what
makes recovery find a recorded project, hence `NoSecondProject`; `RetiredListed` is what makes "not
in the list" mean "not there", hence `RemovedOnlyWithoutProject`; `DayKnown` that no older listing
lacks a day that is set, hence `DeletionDayStays`; `OthersMark` and `ImportsOnce` that a tag written
meanwhile is no node's in force.

`OneNodePerProject` and one half of `EndsOnlyRetired` hold only while nobody tampers with OpenStack,
and say so themselves by `faults = 0`. `Undisturbed`, in nine parts, holds in those states: what was
listed is there (`ListedThere`), the project of a node in force has its tag (`OwnerTagged`), and
what phase 4 finds no project for has none to be recovered (`LostUnserved`). Crashes and failed
calls are no tampering; they are in both invariants.

### The other components

- `Callers`: the property is about the last stage of a request, and rests on what each stage before
  established (`Knows`) and on that, since the request came, rights and names can only have been
  more than what is held and named now (`Witnessed`).
- `NodeWrites`: a transaction's copy is the row, for it holds the row lock (`LockedCopies`); no
  copy, however old, has seen more of the provider's than was measured last (`NothingAhead`); what
  is the provider's only it writes in a transaction (`OwnFields`).
- `Availability`: the entry changes before the rewrite, and the rewrite waits for a request that
  was valid before, so none is under way once it began (`WithdrawnStays`); what a pass writes to an
  import, without the lock, stays there, for RefreshImport leaves a node alone that is flagged or
  adopted, and PromoteNode replaces the limit by one that was found valid; what a removal found
  when it looked for holders, and then for grants, stays true as long as no other admin is at work
  (`RemovingStays`, `LookedStays`, `OneAtATime`).
- `Lab`: as long as nothing changes, what the pass loaded is the node (`SeenAsItIs`), and a pass
  that loaded none had none to carry out (`NoneToCarryOut`), although the pass itself writes to the
  node: it does so with a leaf only, after its last look at it (`Carries`).
- `Quotas`: while the loop over the availabilities goes on, each it has been through is as the
  limit asks or on the list of failures (`Accounted`), of the one project the pass is about
  (`Works`). The types need `ToOSQuotaInRange`, for all integers: toOSQuota saturates instead of
  wrapping around, and yields "no limit" for no limit alone.
- `Purge`: `LockedOut` is decided when the members are listed, many steps before anything is
  deleted. `Outside` carries what each list showed; `DryRunSparesBuckets` is needed because buckets
  are deleted without the check for a dry run that everything else goes through.

### Only model-checked

- `WithinLimits`, `OverbookedOnlyUnchecked`, `AccountingsAgreeUnlessStranded` and `SharesKept`: sums
  over the nodes are folds, whose values need induction over data.
- `NothingOutlives`, in a module with RECURSIVE chains, and `ViewsAgree`, whose chains are a
  recursive function that would need induction.
- All liveness, which is out of the prover's reach, as is ENABLED.
- `RoleKept`, `ApprovedAsSeen` and `NothingLeftBehind`, and the type invariants of `Requests`,
  `Views`, `Access`, `Passes`, `Books`, `Callers` and `Purge`: within reach, and not proved yet, in
  this order. The types of `NodeWrites`, `Availability` and `Lab` are a part of the inductive
  invariants there.

## Not modelled

- Members and texts (`rule_members.go`, `rule_text.go`): validation of single values. The ceiling
  on members is left out of `Requests`.
- Attributes that are resolved along the chain (`release.go` but for the grace period, `scratch.go`,
  `batch_*.go` in `internal/core/model`): walks no step of the lifecycle reads.
- Of `Availability`: more than one project, whose rewrites are independent, CreateNode, which writes
  what a request does, and RemoveImport. Of `Quotas`: how the quota of an import is
  converted back to a limit (`mapper.go:130-142`), which divides an unlimited -1 to 0 where the
  multiplier is larger than 1. The limit of an import is what its page shows; a promotion replaces
  it.
- Overflow: `calc_rollup.go` saturates its sums; limits are unbounded naturals in `BudgetTree`.
- Requests for sub-budgets by a policy, allocations and archived charges in `Requests`; they are
  nondeterministic choices of `BudgetTree`, which checks capacity along the chains.
- Renaming of resources (RenameResources, Refresh of `internal/provider/aiaas/catalog.go`).
- Two processes at a time. The service runs as one; a rolling update overlaps two for seconds.
- Dry runs, logging, paging, sorting, searching, migrations, sessions with OpenStack, generated code
  (`client.gen.go`), static files, configuration and wiring (`config.go`), development helpers:
  I/O, or without state.
