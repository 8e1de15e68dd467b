------------------------------- MODULE Views -------------------------------
(***************************************************************************)
(* What people are shown of the tree (tree/op_query.go, op_children.go,    *)
(* calc_decorate.go) and who may do what (tree/rule_authz.go), while its   *)
(* managers delegate and move budgets and people request and hand over     *)
(* projects. A person stands for the tokens they hold; a query reads one   *)
(* state of the tree.                                                      *)
(***************************************************************************)
EXTENDS Integers, FiniteSets

CONSTANTS
    Root,           \* the root budget
    Unassigned,     \* the structural budget of the imports, without admins
    Budgets,        \* the budgets below the root, without these two
    Projects,
    RootAdmins,     \* ROOT_ADMIN_TOKENS
    People,         \* everybody else
    MaxChanges      \* bound: the operations that change the tree

ViewsAssumption ==
    /\ Root # Unassigned /\ Root \notin Budgets /\ Unassigned \notin Budgets
    /\ Projects \cap (Budgets \cup {Root, Unassigned}) = {}
    /\ RootAdmins \cap People = {}
    /\ MaxChanges \in Nat

AllBudgets == Budgets \cup {Root, Unassigned}
Nodes == AllBudgets \cup Projects
Everybody == RootAdmins \cup People
Nowhere == "nowhere"
Nobody == "nobody"

Statuses ==
    {"absent", "pending", "approved", "change_pending", "rejected", "released", "imported"}
Waiting == {"pending", "change_pending", "imported"}

VARIABLES
    parent, status,
    scope,          \* admin_scope
    eligible,       \* eligible_requesters of a budget
    owner, members, \* of a project
    changes         \* bound: the operations so far

viewsVars == <<parent, status, scope, eligible, owner, members, changes>>

ViewsTypeOK ==
    /\ parent \in [Nodes -> AllBudgets \cup {Nowhere}]
    /\ status \in [Nodes -> Statuses]
    /\ scope \in [Nodes -> SUBSET Everybody]
    /\ eligible \in [Nodes -> SUBSET People]
    /\ owner \in [Nodes -> Everybody \cup {Nobody}]
    /\ members \in [Nodes -> SUBSET People]
    /\ changes \in 0..MaxChanges

\* Bootstrap: the root with its admins, and the budget of the imports. Below it
\* some budgets were handed to somebody, or are there for structure.
ViewsInit ==
    /\ parent \in {f \in [Nodes -> AllBudgets \cup {Nowhere}] :
            /\ f[Root] = Nowhere /\ f[Unassigned] = Root
            /\ \A p \in Projects : f[p] = Nowhere
            /\ \A b \in Budgets :
                \/ f[b] \in {Nowhere, Root}
                \/ f[b] \in Budgets \ {b} /\ f[f[b]] = Root}
    /\ status = [n \in Nodes |->
            IF n = Root \/ parent[n] # Nowhere THEN "approved" ELSE "absent"]
    /\ scope \in {f \in [Nodes -> {{}, RootAdmins} \cup {{m} : m \in People}] :
            \A n \in Nodes :
                CASE n = Root -> f[n] = RootAdmins
                  [] n \in Budgets /\ parent[n] # Nowhere -> f[n] \cap RootAdmins = {}
                  [] OTHER -> f[n] = {}}
    /\ eligible = [n \in Nodes |-> {}]
    /\ owner = [n \in Nodes |-> Nobody]
    /\ members = [n \in Nodes |-> {}]
    /\ changes = 0

-----------------------------------------------------------------------------
(* Authority *)

\* nodeChain, above the node: the nodes from its parent up to the root. Moves
\* never close a cycle.
Above ==
    LET above[n \in Nodes] == IF parent[n] = Nowhere THEN {} ELSE {parent[n]} \cup above[parent[n]]
    IN  above

ManagesParentChain(u, n) == \E b \in Above[n] : u \in scope[b]
ManagesNode(u, n) == u \in scope[n] \/ ManagesParentChain(u, n)
IsOwner(u, n) == owner[n] = u
IsEligibleRequester(u, n) == u \in eligible[n]
IsAuthorizedUser(u, n) == u \in members[n]

-----------------------------------------------------------------------------
(* Queries *)

Stored == {n \in Nodes : status[n] # "absent"}

GetNode(u, n) ==
    /\ n \in Stored
    /\ IsOwner(u, n) \/ IsAuthorizedUser(u, n) \/ IsEligibleRequester(u, n) \/ ManagesNode(u, n)

\* The store's query: what ListNodes selects by admin scope.
Administered(u) == {b \in Stored \cap AllBudgets : u \in scope[b]}

ListMine(u) ==
    {n \in Stored \cap Projects : IsOwner(u, n) \/ u \in scope[n] \/ IsAuthorizedUser(u, n)}

ListMyBudgets(u) == Administered(u)

ListEligibleForMe(u) ==
    {b \in AllBudgets : status[b] = "approved" /\ IsEligibleRequester(u, b)}

\* buildSubtreeParentMap: the budgets given and every budget below them.
Subtree(roots) == {b \in Stored \cap AllBudgets : b \in roots \/ Above[b] \cap roots # {}}

\* Mutant of Undelegated: the budgets that name the caller, and nothing below.
UndelegatedRootsOnly(u) == Administered(u)

\* undelegatedBudgetIDs: those, and every budget below them that has not been
\* handed to anyone else; the search stops at a budget that has been.
Undelegated(u) ==
    LET HandedOn(b) == scope[b] # {} /\ u \notin scope[b]
        Between(r, b) == {b} \cup (Above[b] \ (Above[r] \cup {r}))
    IN  {b \in Subtree(Administered(u)) :
            \/ b \in Administered(u)
            \/ \E r \in Administered(u) \cap Above[b] : \A x \in Between(r, b) : ~HandedOn(x)}

ListToManage(u, includeSubtree) ==
    LET parents == IF includeSubtree THEN Subtree(Administered(u)) ELSE Undelegated(u)
    IN  {n \in Stored : parent[n] \in parents /\ status[n] \in Waiting}

SearchNodes(u) ==
    Administered(u) \cup {n \in Stored : parent[n] \in Subtree(Administered(u))}

\* The children of a budget, or with deep the projects of its whole subtree.
ListChildren(u, b, deep) ==
    IF ~ManagesNode(u, b) THEN {}
    ELSE IF deep THEN {n \in Stored \cap Projects : parent[n] \in Subtree({b})}
    ELSE {n \in Stored : parent[n] = b}

\* grantsAccess: of these, the nodes that name a person in one way or another.
Naming(nodes, g) == {n \in nodes : IsOwner(g, n) \/ g \in scope[n] \/ IsAuthorizedUser(g, n)}

\* Whose consumption one may see.
UsageScope(u, n) == GetNode(u, n) /\ (n \in AllBudgets => ManagesNode(u, n))

\* Who is shown the attributes of a node.
AttributesVisible(u, n) ==
    \/ u \in scope[n]
    \/ n \in Projects /\ IsOwner(u, n)
    \/ \E b \in Above[n] : u \in scope[b]

\* SetAttributes: a project's own admins may not.
MaySetAttributes(u, n) ==
    IF n \in Projects THEN ManagesParentChain(u, n) ELSE ManagesNode(u, n)

\* ApproveNode, RejectNode; an import is decided on by promoting it.
MayDecide(u, n) == ManagesParentChain(u, n)

-----------------------------------------------------------------------------
(* What changes the tree *)

\* loadLive: nothing that ended, and an import only by promoting it.
Live(n) == status[n] \in {"pending", "approved", "change_pending"}

\* loadTarget: a manager of both ends, and an approved budget, not the imports'.
MayMove(u, n, b) ==
    /\ status[b] = "approved" /\ b # Unassigned
    /\ ManagesParentChain(u, n) /\ ManagesNode(u, b)

Gets(n, s) == status' = [status EXCEPT ![n] = s]

\* CreateNode, by a manager or an eligible requester: a budget names who
\* manages it, a project belongs to who asked for it.
CreateNode(u, n, b) ==
    /\ status[n] = "absent" /\ status[b] = "approved"
    /\ ManagesNode(u, b) \/ IsEligibleRequester(u, b)
    /\ parent' = [parent EXCEPT ![n] = b]
    /\ Gets(n, IF ManagesNode(u, b) THEN "approved" ELSE "pending")
    /\ IF n \in Projects
       THEN owner' = [owner EXCEPT ![n] = u] /\ UNCHANGED scope
       ELSE \E m \in People : scope' = [scope EXCEPT ![n] = {m}] /\ UNCHANGED owner
    /\ UNCHANGED <<eligible, members>>

\* UpdateNode: the admins of a budget, none included, or of a project; those of
\* the root are the configuration's.
SetAdminScope(u, n, admins) ==
    /\ Live(n) /\ n # Root
    /\ ManagesNode(u, n) \/ (n \in Projects /\ IsOwner(u, n))
    /\ scope' = [scope EXCEPT ![n] = admins]
    /\ UNCHANGED <<parent, status, eligible, owner, members>>

SetEligible(u, b, people) ==
    /\ Live(b) /\ ManagesNode(u, b)
    /\ eligible' = [eligible EXCEPT ![b] = people]
    /\ UNCHANGED <<parent, status, scope, owner, members>>

\* RequestChange: a request is amended; what is in force changes at once, if
\* nobody need decide on it, or waits.
RequestChange(u, n, people, atOnce) ==
    /\ Live(n) /\ n \in Budgets \cup Projects
    /\ ManagesNode(u, n) \/ (n \in Projects /\ IsOwner(u, n))
    /\ atOnce => n \in Projects /\ status[n] # "pending"
    /\ Gets(n, IF atOnce THEN "approved"
               ELSE IF status[n] = "pending" THEN "pending" ELSE "change_pending")
    /\ members' = [members EXCEPT ![n] = IF n \in Projects /\ (atOnce \/ status[n] = "pending")
                                        THEN people ELSE @]
    /\ UNCHANGED <<parent, scope, eligible, owner>>

ApproveNode(u, n) ==
    /\ status[n] \in {"pending", "change_pending"} /\ MayDecide(u, n)
    /\ Gets(n, "approved")
    /\ UNCHANGED <<parent, scope, eligible, owner, members>>

RejectNode(u, n) ==
    /\ status[n] \in {"pending", "change_pending"} /\ MayDecide(u, n)
    /\ Gets(n, IF status[n] = "pending" THEN "rejected" ELSE "approved")
    /\ UNCHANGED <<parent, scope, eligible, owner, members>>

\* ReparentNode: never below itself.
ReparentNode(u, n, b) ==
    /\ Live(n) /\ n \notin {Root, Unassigned}
    /\ MayMove(u, n, b) /\ b # parent[n] /\ b # n /\ n \notin Above[b]
    /\ parent' = [parent EXCEPT ![n] = b]
    /\ UNCHANGED <<status, scope, eligible, owner, members>>

\* ProviderSync.AddImport
Import(p) ==
    /\ status[p] = "absent"
    /\ parent' = [parent EXCEPT ![p] = Unassigned]
    /\ Gets(p, "imported")
    /\ UNCHANGED <<scope, eligible, owner, members>>

\* It stays an import until the provider adopts the project.
PromoteNode(u, p, b, o) ==
    /\ status[p] = "imported" /\ MayMove(u, p, b)
    /\ parent' = [parent EXCEPT ![p] = b]
    /\ owner' = [owner EXCEPT ![p] = o]
    /\ UNCHANGED <<status, scope, eligible, members>>

\* ProviderSync.Promote: with the people who are in it.
Promote(p, people) ==
    /\ status[p] = "imported" /\ parent[p] # Unassigned
    /\ Gets(p, "pending")
    /\ members' = [members EXCEPT ![p] = people]
    /\ UNCHANGED <<parent, scope, eligible, owner>>

TransferOwner(u, p, o) ==
    /\ Live(p) /\ ManagesParentChain(u, p)
    /\ owner' = [owner EXCEPT ![p] = o]
    /\ UNCHANGED <<parent, status, scope, eligible, members>>

ReleaseNode(u, p) ==
    /\ status[p] = "approved"
    /\ IsOwner(u, p) \/ ManagesNode(u, p)
    /\ Gets(p, "released")
    /\ UNCHANGED <<parent, scope, eligible, owner, members>>

\* DeleteNode: a budget with all below it, when nothing there waits or runs.
DeleteNode(u, b) ==
    LET below == {n \in Stored : parent[n] \in Subtree({b})}
        gone == below \cup {b}
    IN  /\ b \in Budgets \cap Stored /\ ManagesNode(u, b)
        /\ \A n \in below : status[n] \notin Waiting /\ (n \in Projects => status[n] # "approved")
        /\ parent' = [n \in Nodes |-> IF n \in gone THEN Nowhere ELSE parent[n]]
        /\ status' = [n \in Nodes |-> IF n \in gone THEN "absent" ELSE status[n]]
        /\ scope' = [n \in Nodes |-> IF n \in gone THEN {} ELSE scope[n]]
        /\ eligible' = [n \in Nodes |-> IF n \in gone THEN {} ELSE eligible[n]]
        /\ owner' = [n \in Nodes |-> IF n \in gone THEN Nobody ELSE owner[n]]
        /\ members' = [n \in Nodes |-> IF n \in gone THEN {} ELSE members[n]]

Operation ==
    \/ \E u \in Everybody, b \in Budgets : DeleteNode(u, b)
    \/ \E u \in Everybody, n \in Budgets \cup Projects :
        \/ \E b \in AllBudgets : CreateNode(u, n, b) \/ ReparentNode(u, n, b)
        \/ ApproveNode(u, n) \/ RejectNode(u, n)
        \/ \E m \in People, atOnce \in BOOLEAN : RequestChange(u, n, {m}, atOnce)
    \/ \E u \in Everybody, m \in People :
        \/ \E n \in Nodes, admins \in {{}, {m}} : SetAdminScope(u, n, admins)
        \/ \E b \in Budgets : SetEligible(u, b, {m})
        \/ \E p \in Projects : TransferOwner(u, p, m) \/ ReleaseNode(u, p)
        \/ \E p \in Projects, b \in AllBudgets : PromoteNode(u, p, b, m)
    \/ \E p \in Projects, m \in People : Import(p) \/ Promote(p, {m})

ViewsNext == changes < MaxChanges /\ Operation /\ changes' = changes + 1

-----------------------------------------------------------------------------
(* Properties *)

\* The nearest managers above a node: of the first budget up from it that has
\* any; it is the one with the most budgets above it.
Nearest(n) ==
    LET managed == {b \in Above[n] : scope[b] # {}}
        nearest == CHOOSE b \in managed :
            \A c \in managed : Cardinality(Above[c]) <= Cardinality(Above[b])
    IN  scope[nearest]

\* ListToManage: what waits for a decision surfaces with the nearest managers
\* above it, however the tree was delegated and moved; whatever an inbox lists,
\* its reader may decide on; and the wide list leaves nothing of the narrow out.
InboxesComplete ==
    \A n \in Stored :
        status[n] \in Waiting => \A u \in Nearest(n) : n \in ListToManage(u, FALSE)

InboxesDecidable ==
    \A u \in Everybody :
        /\ ListToManage(u, FALSE) \subseteq ListToManage(u, TRUE)
        /\ \A n \in ListToManage(u, TRUE) : MayDecide(u, n) /\ n \in SearchNodes(u)

\* GetNode: what any list shows somebody they may open, and who sees what a node
\* consumes, or may set its attributes, is shown those too.
ListedCanBeOpened ==
    \A u \in Everybody :
        \A n \in UNION {ListMine(u), ListMyBudgets(u), ListEligibleForMe(u), SearchNodes(u),
                        ListToManage(u, TRUE)}
             \cup UNION {ListChildren(u, b, deep) : b \in AllBudgets, deep \in BOOLEAN} :
            GetNode(u, n)

ShownToTheResponsible ==
    \A u \in Everybody, n \in Stored :
        /\ MaySetAttributes(u, n) => AttributesVisible(u, n)
        /\ AttributesVisible(u, n) => UsageScope(u, n)

\* What a manager finds below a budget under somebody's name is what that person
\* has there by his own list.
FoundByName ==
    \A u \in Everybody, b \in Stored \cap AllBudgets : ManagesNode(u, b) =>
        \A g \in Everybody :
            Naming(ListChildren(u, b, TRUE), g) = {n \in ListMine(g) : b \in Above[n]}

ViewsAgree ==
    /\ InboxesComplete /\ InboxesDecidable
    /\ ListedCanBeOpened /\ FoundByName /\ ShownToTheResponsible
=============================================================================
