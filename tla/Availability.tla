---------------------------- MODULE Availability ----------------------------
(***************************************************************************)
(* An availability of the catalogue and what root admins do with it: Add,  *)
(* Withdraw, Restore and Remove (catalog/admin.go, catalog.go), the nodes  *)
(* that these rewrite (op_catalog.go), the requests that ask for it, and   *)
(* the pass, which grants or revokes it in OpenStack, and writes into the  *)
(* tree what an import is granted already (imports.go).                    *)
(*                                                                         *)
(* One availability, the root, and one project of OpenStack, in the tree   *)
(* from the start, or imported by a pass and perhaps promoted. An          *)
(* operation is several steps: two admins, a request and a pass            *)
(* interleave. approvalMu keeps requests and rewrites apart, and nothing   *)
(* else: a pass never takes it.                                            *)
(***************************************************************************)
EXTENDS Naturals

CONSTANTS
    Admins,
    MaxOperations,  \* bound: operations of the admins
    MaxRefusals     \* bound: calls that fail

AvailabilityAssumption ==
    /\ MaxOperations \in Nat /\ MaxRefusals \in Nat
    /\ {"free", "request"} \cap Admins = {}

VARIABLES
    entry,          \* State of the entry
    root,           \* what the root holds: 1, 0, or NoKey
    standing,       \* the project: "none" of the tree yet, an "import", one "flagged" for
                    \* promotion, "pending" after it, or a "project" in force
    held,           \* what it holds
    granted,        \* OpenStack grants it to the project
    stray,          \* the grant there is was made by hand, for a project that held it no
                    \* more, or after a Remove had looked for grants
    lock,           \* who has approvalMu
    request,        \* the amount of a request that was found valid
    promotes,       \* that request is a PromoteNode
    op,             \* what an admin is in the middle of
    pass,           \* what the pass does next
    seen,           \* the project as the pass loaded it
    offered,        \* the entry was in the catalogue when the pass looked
    reading,        \* what importGrants found
    overlapping,    \* an operation began while another was under way
    withdrawn,      \* a withdrawal has gone through since it was offered last
    operations, refusals

inTree == <<standing, held>>
openStack == <<granted, stray>>
asking == <<lock, request, promotes>>
passing == <<pass, seen, offered, reading>>
history == <<overlapping, withdrawn, operations>>
availabilityVars == <<entry, root, inTree, openStack, asking, op, passing, history, refusals>>

NoKey == 2
Amounts == {0, 1, NoKey}
Free == "free"
Imports == {"import", "flagged"}
Standings == {"none", "pending", "project"} \cup Imports
Unseen == [standing |-> "none", held |-> NoKey]
AdminSteps ==
    {"idle", "withdraw", "rewrite", "adopt", "adoptlocked", "holders", "granted", "forget",
     "forgetlocked", "remove"}

AvailabilityTypeOK ==
    /\ entry \in {"active", "withdrawn", "removed"}
    /\ root \in Amounts
    /\ standing \in Standings /\ held \in Amounts
    /\ granted \in BOOLEAN /\ stray \in BOOLEAN
    /\ lock \in Admins \cup {Free, "request"}
    /\ request \in Amounts /\ promotes \in BOOLEAN
    /\ op \in [Admins -> AdminSteps]
    /\ pass \in {"idle", "sync", "grant", "store"}
    /\ seen \in [standing : Standings, held : Amounts]
    /\ offered \in BOOLEAN /\ reading \in Amounts
    /\ overlapping \in BOOLEAN /\ withdrawn \in BOOLEAN
    /\ operations \in 0..MaxOperations /\ refusals \in 0..MaxRefusals

\* Seeded or added before, and held by the root. An import holds what it was granted
\* by hand.
AvailabilityInit ==
    /\ entry = "active" /\ root = 1
    /\ granted \in BOOLEAN
    /\ \/ standing = "project" /\ held = (IF granted THEN 1 ELSE NoKey) /\ stray = FALSE
       \/ standing = "import" /\ held = (IF granted THEN 1 ELSE 0) /\ stray = granted
       \/ standing = "none" /\ held = NoKey /\ stray = granted
    /\ lock = Free /\ request = NoKey /\ promotes = FALSE
    /\ op = [a \in Admins |-> "idle"]
    /\ pass = "idle" /\ seen = Unseen /\ offered = FALSE /\ reading = NoKey
    /\ overlapping = FALSE /\ withdrawn = FALSE
    /\ operations = 0 /\ refusals = 0

-----------------------------------------------------------------------------
Refusal == refusals < MaxRefusals /\ refusals' = refusals + 1
Starts(a) ==
    /\ op[a] = "idle"
    /\ operations < MaxOperations /\ operations' = operations + 1
    /\ overlapping' = (overlapping \/ \E b \in Admins : op[b] # "idle")
Goes(a, to) == op' = [op EXCEPT ![a] = to]
Comes(a, from, to) == op[a] = from /\ Goes(a, to)

Takes(who) == lock = Free /\ lock' = who

\* rewriteAll for every stored amount but the keys that are not there.
Rewritten(amount, new) == IF amount = NoKey THEN NoKey ELSE new

-----------------------------------------------------------------------------
(* Withdraw *)

\* setState: repeated on one that is withdrawn already, to finish it.
StartWithdraw(a) ==
    /\ Starts(a) /\ entry # "removed"
    /\ entry' = "withdrawn"
    /\ Goes(a, "withdraw")
    /\ UNCHANGED <<root, inTree, openStack, asking, passing, withdrawn, refusals>>

LockRewrite(a) ==
    /\ Comes(a, "withdraw", "rewrite") /\ Takes(a)
    /\ UNCHANGED <<entry, root, inTree, openStack, request, promotes, passing, history, refusals>>

\* WithdrawAvailability: the root first or the project; a write may fail.
Rewrite(a) ==
    /\ Comes(a, "rewrite", "idle")
    /\ lock' = Free
    /\ \/ /\ root' = Rewritten(root, 0) /\ held' = Rewritten(held, 0)
          /\ withdrawn' = (entry = "withdrawn")
          /\ UNCHANGED refusals
       \/ /\ Refusal
          /\ root' \in {root, Rewritten(root, 0)} /\ UNCHANGED <<held, withdrawn>>
    /\ UNCHANGED <<entry, standing, openStack, request, promotes, passing, overlapping, operations>>

-----------------------------------------------------------------------------
(* Restore and Add *)

\* Offered again, as withdrawn or as removed before.
StartRestore(a) ==
    /\ Starts(a)
    /\ entry' = "active" /\ withdrawn' = FALSE
    /\ Goes(a, "adopt")
    /\ UNCHANGED <<root, inTree, openStack, asking, passing, refusals>>

LockAdopt(a) ==
    /\ Comes(a, "adopt", "adoptlocked") /\ Takes(a)
    /\ UNCHANGED <<entry, root, inTree, openStack, request, promotes, passing, history, refusals>>

\* AdoptAvailability: the root only.
Adopt(a) ==
    /\ Comes(a, "adoptlocked", "idle")
    /\ lock' = Free
    /\ \/ root' = 1 /\ UNCHANGED refusals
       \/ Refusal /\ UNCHANGED root
    /\ UNCHANGED <<entry, inTree, openStack, request, promotes, passing, history>>

-----------------------------------------------------------------------------
(* Remove *)

StartRemove(a) ==
    /\ Starts(a) /\ entry = "withdrawn"
    /\ Goes(a, "holders")
    /\ UNCHANGED <<entry, root, inTree, openStack, asking, passing, withdrawn, refusals>>

\* The root is no holder; an import is.
CheckHolders(a) ==
    /\ Comes(a, "holders", IF held = 1 THEN "idle" ELSE "granted")
    /\ UNCHANGED <<entry, root, inTree, openStack, asking, passing, history, refusals>>

\* grantState, which OpenStack may not answer. Only projects in the tree count.
CheckGranted(a) ==
    /\ \/ /\ Comes(a, "granted", IF granted /\ standing # "none" THEN "idle" ELSE "forget")
          /\ UNCHANGED refusals
       \/ Comes(a, "granted", "idle") /\ Refusal
    /\ UNCHANGED <<entry, root, inTree, openStack, asking, passing, history>>

LockForget(a) ==
    /\ Comes(a, "forget", "forgetlocked") /\ Takes(a)
    /\ UNCHANGED <<entry, root, inTree, openStack, request, promotes, passing, history, refusals>>

\* ForgetResource
Forget(a) ==
    /\ op[a] = "forgetlocked"
    /\ lock' = Free
    /\ \/ root' = NoKey /\ held' = NoKey /\ Goes(a, "remove") /\ UNCHANGED refusals
       \/ Refusal /\ root' \in {root, NoKey} /\ Goes(a, "idle") /\ UNCHANGED held
    /\ UNCHANGED <<entry, standing, openStack, request, promotes, passing, history>>

\* setState, only of one that is still withdrawn.
MarkRemoved(a) ==
    /\ Comes(a, "remove", "idle")
    /\ entry' = IF entry = "withdrawn" THEN "removed" ELSE entry
    /\ UNCHANGED <<root, inTree, openStack, asking, passing, history, refusals>>

-----------------------------------------------------------------------------
(* Requests: RequestChange, ApproveNode, SetAllocation, PromoteNode *)

\* validateKnownResources and validateLeafAvailabilities, against the catalogue
\* and the root as they are.
BeginRequest(amount) ==
    /\ request = NoKey /\ Takes("request")
    /\ standing # "none" /\ entry # "removed"
    /\ amount = 1 => entry = "active" /\ root = 1
    /\ request' = amount /\ promotes' = (standing \in Imports)
    /\ UNCHANGED <<entry, root, inTree, openStack, op, passing, history, refusals>>

\* PromoteNode writes the whole node as it read it, flagged; the others leave a
\* project in force, or approve what is pending.
WriteRequest ==
    /\ request # NoKey /\ lock' = Free
    /\ held' = request /\ standing' = (IF promotes THEN "flagged" ELSE "project")
    /\ request' = NoKey /\ promotes' = FALSE
    /\ UNCHANGED <<entry, root, openStack, op, passing, history, refusals>>

-----------------------------------------------------------------------------
(* A pass *)

\* Leaves: in force, and the imports; one that is not there is found in OpenStack.
LoadNode ==
    /\ pass = "idle" /\ standing # "pending"
    /\ pass' = "sync"
    /\ seen' = [standing |-> standing, held |-> held]
    /\ UNCHANGED <<entry, root, inTree, openStack, asking, op, offered, reading, history, refusals>>

PassForgotten == pass' = "idle" /\ seen' = Unseen /\ offered' = FALSE /\ reading' = NoKey

\* Tagged, and no import any more, if still flagged; a call may fail.
Promote ==
    /\ pass = "sync" /\ seen.standing = "flagged"
    /\ \/ standing' = (IF standing = "flagged" THEN "pending" ELSE standing) /\ UNCHANGED refusals
       \/ Refusal /\ UNCHANGED standing
    /\ PassForgotten
    /\ UNCHANGED <<entry, root, held, openStack, asking, op, history>>

\* Mutant of ReadCatalogue: only what is offered.
ReadOffered ==
    /\ pass = "sync" /\ seen.standing # "flagged"
    /\ pass' = "grant" /\ offered' = (entry = "active")
    /\ UNCHANGED <<entry, root, inTree, openStack, asking, op, seen, reading, history, refusals>>

\* The resources of the moment: active and withdrawn ones (Managed).
ReadCatalogue ==
    /\ pass = "sync" /\ seen.standing # "flagged"
    /\ pass' = "grant" /\ offered' = (entry # "removed")
    /\ UNCHANGED <<entry, root, inTree, openStack, asking, op, seen, reading, history, refusals>>

Looked == \E a \in Admins : op[a] \in {"forget", "forgetlocked", "remove"}

\* AddGrant or RemoveGrant, of what is in the catalogue only; it may fail.
GrantOrRevoke ==
    /\ pass = "grant" /\ seen.standing = "project"
    /\ \/ /\ granted' = (IF offered THEN seen.held = 1 ELSE granted)
          /\ stray' = (IF offered THEN seen.held = 1 /\ (held # 1 \/ Looked) ELSE stray)
          /\ UNCHANGED refusals
       \/ offered /\ Refusal /\ UNCHANGED openStack
    /\ PassForgotten
    /\ UNCHANGED <<entry, root, inTree, asking, op, history>>

\* HasGrant, of what is in the catalogue only. What cannot be read stays as it was.
ImportGrants ==
    /\ pass = "grant" /\ seen.standing \in {"none", "import"}
    /\ pass' = "store"
    /\ \/ /\ reading' = (IF ~offered THEN NoKey ELSE IF granted THEN 1 ELSE 0)
          /\ UNCHANGED refusals
       \/ offered /\ Refusal /\ reading' = seen.held
    /\ UNCHANGED <<entry, root, inTree, openStack, asking, op, seen, offered, history>>

\* AddImport
AddImport ==
    /\ pass = "store" /\ seen.standing = "none"
    /\ \/ standing' = "import" /\ held' = reading /\ UNCHANGED refusals
       \/ Refusal /\ UNCHANGED inTree
    /\ PassForgotten
    /\ UNCHANGED <<entry, root, openStack, asking, op, history>>

\* Mutant of RefreshImport: of one that is flagged by now, too.
RefreshFlagged ==
    /\ pass = "store" /\ seen.standing = "import"
    /\ \/ held' = (IF standing \in Imports THEN reading ELSE held) /\ UNCHANGED refusals
       \/ Refusal /\ UNCHANGED held
    /\ PassForgotten
    /\ UNCHANGED <<entry, root, standing, openStack, asking, op, history>>

\* RefreshImport: the limit, unless a promotion was asked for meanwhile.
RefreshImport ==
    /\ pass = "store" /\ seen.standing = "import"
    /\ \/ held' = (IF standing = "import" THEN reading ELSE held) /\ UNCHANGED refusals
       \/ Refusal /\ UNCHANGED held
    /\ PassForgotten
    /\ UNCHANGED <<entry, root, standing, openStack, asking, op, history>>

-----------------------------------------------------------------------------
(* Meanwhile *)

\* Somebody shares it with a project the service does not manage, or no longer does.
GrantByHand ==
    /\ standing \in {"none"} \cup Imports
    /\ granted' = ~granted /\ stray' = granted'
    /\ UNCHANGED <<entry, root, inTree, asking, op, passing, history, refusals>>

-----------------------------------------------------------------------------
AdminStep(a) ==
    \/ LockRewrite(a) \/ Rewrite(a) \/ LockAdopt(a) \/ Adopt(a)
    \/ CheckHolders(a) \/ CheckGranted(a) \/ LockForget(a) \/ Forget(a) \/ MarkRemoved(a)

PassStep ==
    \/ LoadNode \/ Promote \/ ReadCatalogue \/ GrantOrRevoke
    \/ ImportGrants \/ AddImport \/ RefreshImport

AvailabilityNext ==
    \/ \E a \in Admins : StartWithdraw(a) \/ StartRestore(a) \/ StartRemove(a) \/ AdminStep(a)
    \/ \E amount \in {0, 1} : BeginRequest(amount)
    \/ WriteRequest
    \/ PassStep
    \/ GrantByHand

-----------------------------------------------------------------------------
(* Properties *)

\* Who holds it, an import that nobody asked to promote set aside: such a node says
\* what OpenStack grants the project, and the next pass writes it again.
HeldInTree == held = 1 /\ standing # "import"

\* "The state changes first, so nothing can be granted while the tree is
\* rewritten" (Withdraw): after a withdrawal no project holds it, in whatever
\* order a request that was valid before it is written, a pass refreshes an
\* import by what it read earlier, and the import is promoted and approved,
\* until it is offered again.
WithdrawnFromAll == withdrawn => ~HeldInTree

\* "From then on the reconciler never looks at it again, so a grant left now
\* would stay forever" (Remove): one that is removed is held by no project, and
\* granted in OpenStack to none, but by hand or by a pass that had loaded the
\* project while it still held it. Admins who operate on it at the same time
\* break this, see the README.
RemovedFromAll == (entry = "removed" /\ ~overlapping) => (~HeldInTree /\ (granted => stray))

\* Withdraw and Remove, both.
TakenFromAll == WithdrawnFromAll /\ RemovedFromAll

\* The next pass revokes what was withdrawn from a project in force, one promoted
\* from an import included, also if a request, a pass or another admin was in
\* between, and if revoking it failed.
IsWithdrawn == entry = "withdrawn" /\ withdrawn /\ standing = "project"

\* WithdrawAvailability: what stays withdrawn is taken back in OpenStack in the end.
Revoked == <>[]IsWithdrawn => <>[]~granted
=============================================================================
