------------------------------ MODULE Callers ------------------------------
(***************************************************************************)
(* From a request to an entry of the history: who is let in, whose rights  *)
(* it is judged by and whose name is recorded, by the REST API and by the  *)
(* tools of an MCP client (identity/, webserver/), while people join and   *)
(* leave groups, tokens are revoked and others work on the same node.      *)
(*                                                                         *)
(* One request is taken step by step. The others run undisturbed, each in  *)
(* one step, between any two of its steps.                                 *)
(***************************************************************************)
EXTENDS Naturals, FiniteSets

CONSTANTS
    People,         \* by their addresses; a person's address is their own token
    RootAdmins,     \* the group that manages the root, and may act on behalf
    Managers,       \* the group that manages the budget of the node
    Requesters,     \* who may request something in that budget
    Keys,           \* API tokens
    Starts,         \* who is in which group at the start
    Handlers,       \* the routes and tools that are called
    MaxCalls,       \* bound: requests
    MaxMoves        \* bound: people who join or leave a group, and outages

Groups == {RootAdmins, Managers}
Names == {"old", "new"}     \* of the node
Nobody == "nobody"

-----------------------------------------------------------------------------
(* Routes and tools *)

RestReads ==
    {"getConfig", "getActAs", "searchPrincipals", "getNode", "listNodeChildren",
     "listAllocationSources", "getNodeUsage", "listCatalog", "getCatalogEntry",
     "getReconcilerStatus", "getUsageReport"}
RestLists ==
    {"listMyNodes", "listNodesToManage", "listMyBudgets", "listEligibleBudgets",
     "listEligibleBudgetsForOwner", "searchNodes"}
RestRequests == {"updateNode", "requestNodeChange"}
RestDecisions == {"approveNode", "rejectNode"}
RestGiveUps == {"releaseNode", "requestNodeDeletion"}
RestStructure ==
    {"reparentNode", "transferNodeOwner", "setNodeAttributes", "removeNodeExternalGroup",
     "setNodeAllocation", "promoteNode", "deleteNode"}
RestTokens == {"listTokens", "createToken", "deleteToken"}
RestAdmin ==
    {"triggerReconcile", "addCatalogEntry", "updateCatalogEntry", "withdrawCatalogEntry",
     "restoreCatalogEntry", "removeCatalogEntry"}

ToolReads ==
    {"list_my_projects", "list_my_budgets", "get_project", "search_projects",
     "list_requestable_budgets", "list_requests_to_decide", "list_budget_contents"}
ToolRequests == {"request_project_change"}
ToolEdits == {"rename_project", "set_project_admins"}
ToolDecisions == {"approve_request", "reject_request"}
ToolStructure ==
    {"set_project_allocation", "move_to_budget", "transfer_ownership", "adopt_imported_project"}
ToolGiveUps == {"release_project", "delete_project", "delete_budget"}

\* What makes a node, and leaves the one that is followed alone.
Creations == {"createNode", "create_project", "create_budget"}

\* What draws on a budget further up than the node's own.
SetsAllocation == {"setNodeAllocation", "set_project_allocation"}

Reads == RestReads \cup RestLists \cup ToolReads \cup {"listTokens"}
Rest == RestReads \cup RestLists \cup RestRequests \cup RestDecisions \cup RestGiveUps
        \cup RestStructure \cup RestTokens \cup RestAdmin \cup {"createNode"}
Tools == ToolReads \cup ToolRequests \cup ToolEdits \cup ToolDecisions \cup ToolStructure
         \cup ToolGiveUps \cup {"create_project", "create_budget"}

\* What the owner may do beside the managers, and with him the project's own admins,
\* who may what he may. Of an allocation, he may give something back.
OwnersToo ==
    RestRequests \cup ToolRequests \cup ToolEdits \cup SetsAllocation
    \cup {"releaseNode", "requestNodeDeletion", "release_project", "delete_project",
           "removeNodeExternalGroup"}

CallersAssumption ==
    /\ Groups \cap People = {} /\ Nobody \notin People \cup Keys
    /\ Requesters \subseteq People \cup Groups
    /\ Starts \subseteq [Groups -> SUBSET People]
    /\ Handlers \subseteq Rest \cup Tools
    /\ MaxCalls \in Nat /\ MaxMoves \in Nat

-----------------------------------------------------------------------------
VARIABLES
    group,          \* who is in which group, as the role provider knows it
    reachable,      \* the role provider answers
    key,            \* the API tokens issued
    node,           \* its owner, name, and whether it was released
    entry,          \* the newest entry of the history
    request,        \* the one that is followed
    calls, moves    \* bounds: so far

callersVars == <<group, reachable, key, node, entry, request, calls, moves>>

NoKey == [subject |-> Nobody, readOnly |-> FALSE, issuer |-> Nobody]
NoEntry == [email |-> Nobody, actedBy |-> Nobody]
NoRequest == [stage |-> "none"]
Stages == {"accepted", "actAs", "confirm", "perform"}

\* The tokens of a person, now.
TokensIn(groups, u) == {u} \cup {g \in Groups : u \in groups[g]}
Directory(u) == TokensIn(group, u)

CallersTypeOK ==
    /\ group \in [Groups -> SUBSET People]
    /\ reachable \in BOOLEAN
    /\ key \in [Keys -> [subject : People \cup {Nobody}, readOnly : BOOLEAN,
                         issuer : People \cup {Nobody}]]
    /\ node \in [owner : People, name : Names, released : BOOLEAN]
    /\ entry \in [email : People \cup {Nobody}, actedBy : People \cup {Nobody}]
    /\ \/ request = NoRequest
       \/ /\ request.stage \in Stages
          /\ request.actor \in People /\ request.as \in People
          /\ request.own \cup request.rights \subseteq People \cup Groups
          /\ request.actorHeld \cup request.held \subseteq People \cup Groups
          /\ request.named \subseteq Names
    /\ calls \in 0..MaxCalls /\ moves \in 0..MaxMoves

\* One token was issued; which, makes no difference.
First == CHOOSE k \in Keys : TRUE

CallersInit ==
    /\ group \in Starts
    /\ reachable = TRUE
    /\ \E u \in People, readOnly \in BOOLEAN :
        key = [k \in Keys |->
            IF k = First THEN [subject |-> u, readOnly |-> readOnly, issuer |-> u] ELSE NoKey]
    /\ node \in [owner : People, name : {"old"}, released : {FALSE}]
    /\ entry = NoEntry
    /\ request = NoRequest
    /\ calls = 0 /\ moves = 0

-----------------------------------------------------------------------------
(* The way of a request, as far as it gets: each step yields what is known  *)
(* after it                                                                 *)

Refused(q) == NoRequest
To(q, stage) == [q EXCEPT !.stage = stage]

\* CombinedAuthMiddleware: an API token stands for its subject, and carries
\* whether it may write; anybody else signed in as himself. Who names himself in
\* X-Act-As only differs from who names nobody if he sent a token. Beside what the
\* service knows, the record keeps who held what, and how the node was called,
\* since the request came (actorHeld, held, named).
Accepted(h, person, k, actAs, confirm) ==
    LET actor == IF k = Nobody THEN person ELSE key[k].subject
    IN  [stage |-> "accepted", handler |-> h, key |-> k,
         readOnly |-> k # Nobody /\ key[k].readOnly,
         tokenActsAs |-> k # Nobody /\ actAs # Nobody,
         person |-> IF k = Nobody THEN person ELSE key[k].issuer,
         actor |-> actor, as |-> IF actAs = Nobody THEN actor ELSE actAs,
         confirm |-> confirm, own |-> {}, rights |-> {},
         actorHeld |-> Directory(actor),
         held |-> Directory(IF actAs = Nobody THEN actor ELSE actAs),
         named |-> {node.name}]

\* GetUserTokens: without the role provider a person is just himself.
GetUserTokens(u) == IF reachable THEN Directory(u) ELSE {u}

\* Mutant of Writes: what is on no REST route is not looked at.
WritesOfRest(h) == h \in Rest \ Reads

\* RejectWritesForReadOnlyTokens reads a write off the method, and sits before
\* the REST routes; a tool says of itself whether it writes (mcpserve.AddTool).
Writes(h) == h \notin Reads

\* confirmName: a tool that destroys has the name echoed, of a node one may see.
Owner == {node.owner}
ConfirmName(q) ==
    IF q.rights \cap (Groups \cup Owner) # {} /\ q.confirm = node.name
    THEN To(q, "perform") ELSE Refused(q)

AfterActAs(q) == IF q.handler \in ToolGiveUps THEN To(q, "confirm") ELSE To(q, "perform")

\* EffectiveAuthMiddleware: on behalf of somebody else only signed in, and with
\* the actor's own tokens among the root admins'; then the person's count. A token
\* does not even act as the one it stands for.
ActAs(q) ==
    IF q.key # Nobody \/ RootAdmins \notin q.own THEN Refused(q)
    ELSE AfterActAs([q EXCEPT !.rights = GetUserTokens(q.as)])

ResolveUserTokens(q) ==
    LET own == GetUserTokens(q.actor)
        known == [q EXCEPT !.own = own, !.rights = own]
    IN  IF q.readOnly /\ Writes(q.handler) THEN Refused(q)
        ELSE IF q.as # q.actor \/ q.tokenActsAs THEN To(known, "actAs")
        ELSE AfterActAs(known)

Proceeds(q) ==
    CASE q.stage = "accepted" -> ResolveUserTokens(q)
      [] q.stage = "actAs"    -> ActAs(q)
      [] q.stage = "confirm"  -> ConfirmName(q)
      [] OTHER                -> q

\* Whose rights suffice: the root admins manage the budget of the node, too, and all
\* that is above it.
Entitled(h) ==
    (IF h \in RestAdmin \cup SetsAllocation THEN {RootAdmins} ELSE Groups)
    \cup (IF h \in OwnersToo THEN Owner ELSE {})
    \cup (IF h \in Creations THEN Requesters ELSE {})

\* uiActor, serviceActor: the person acted as, and who acted for them.
ActorOf(q) ==
    [email |-> q.as, actedBy |-> IF q.as = q.actor THEN Nobody ELSE q.actor]

-----------------------------------------------------------------------------
(* What the operations do *)

\* createToken: for oneself, and after signing in only.
CreateToken(q, readOnly) ==
    /\ q.handler = "createToken"
    /\ q.as = q.actor /\ q.key = Nobody
    /\ \E k \in Keys :
        /\ key[k] = NoKey
        /\ key' = [key EXCEPT ![k] =
                [subject |-> q.as, readOnly |-> readOnly, issuer |-> q.person]]
    /\ UNCHANGED <<node, entry>>

\* deleteToken: one's own, or those of the person one acts for.
DeleteToken(q) ==
    /\ q.handler = "deleteToken"
    /\ \E k \in Keys :
        /\ key[k] # NoKey /\ key[k].subject = q.as
        /\ key' = [key EXCEPT ![k] = NoKey]
    /\ UNCHANGED <<node, entry>>

\* The service judges by the rights that were resolved, and by the node as it is.
Changes(q) ==
    /\ q.handler \notin Reads \cup RestTokens
    /\ q.rights \cap Entitled(q.handler) # {}
    /\ UNCHANGED key

\* The catalogue notes the admin who did it, whomever he acted for.
EditCatalog(q) ==
    /\ q.handler \in RestAdmin /\ Changes(q)
    /\ entry' = [email |-> q.actor, actedBy |-> Nobody]
    /\ UNCHANGED node

ChangeNode(q) ==
    /\ q.handler \notin RestAdmin /\ Changes(q)
    /\ \/ q.handler \in Creations
       \/ node.released <=> q.handler \in {"requestNodeDeletion", "delete_project"}
    /\ entry' = ActorOf(q)
    /\ CASE q.handler \in {"updateNode", "rename_project"} ->
                \E n \in Names : node' = [node EXCEPT !.name = n]
         [] q.handler \in {"transferNodeOwner", "transfer_ownership"} ->
                \E o \in People : node' = [node EXCEPT !.owner = o]
         [] q.handler \in {"releaseNode", "release_project"} ->
                node' = [node EXCEPT !.released = TRUE]
         [] OTHER -> UNCHANGED node

Performs(q) ==
    \/ \E readOnly \in BOOLEAN : CreateToken(q, readOnly)
    \/ DeleteToken(q)
    \/ EditCatalog(q)
    \/ ChangeNode(q)

-----------------------------------------------------------------------------
(* Steps *)

\* Somebody signed in, or anybody with one of the tokens, sends a request.
Arriving ==
    {Accepted(h, u, Nobody, a, n) :
        h \in Handlers, u \in People, a \in People \cup {Nobody}, n \in Names}
    \cup {Accepted(h, Nobody, k, a, n) :
        h \in Handlers, k \in {x \in Keys : key[x] # NoKey}, a \in People \cup {Nobody},
        n \in Names}

\* A name is only asked for by the tools that destroy.
Sensible(q) == q.handler \in ToolGiveUps \/ q.confirm = "old"

Calls ==
    /\ calls < MaxCalls /\ calls' = calls + 1
    /\ UNCHANGED <<group, reachable, moves>>

Arrive ==
    /\ request = NoRequest /\ Calls
    /\ \E q \in Arriving : Sensible(q) /\ request' = q
    /\ UNCHANGED <<key, node, entry>>

Proceed ==
    /\ request # NoRequest /\ request.stage # "perform"
    /\ request' = Proceeds(request)
    /\ UNCHANGED <<group, reachable, key, node, entry, calls, moves>>

Noticed(q, n) == IF q = NoRequest THEN q ELSE [q EXCEPT !.named = @ \cup {n}]

Perform ==
    /\ request # NoRequest /\ request.stage = "perform"
    /\ Performs(request)
    /\ request' = NoRequest
    /\ UNCHANGED <<group, reachable, calls, moves>>

\* One that only read, or that the service refuses or has nothing to do for.
Answer ==
    /\ request # NoRequest /\ request.stage = "perform"
    /\ request' = NoRequest
    /\ UNCHANGED <<group, reachable, key, node, entry, calls, moves>>

\* Another request runs meanwhile.
Undisturbed ==
    /\ request # NoRequest /\ Calls
    /\ \E q \in Arriving :
        LET done == Proceeds(Proceeds(Proceeds(q)))
        IN  Sensible(q) /\ done.stage = "perform" /\ Performs(done)
    /\ request' = Noticed(request, node'.name)

\* Somebody joins or leaves a group, or the role provider comes and goes.
Held(q) ==
    IF q = NoRequest THEN q
    ELSE [q EXCEPT !.actorHeld = @ \cup TokensIn(group', q.actor),
                   !.held = @ \cup TokensIn(group', q.as)]

MembershipChanges ==
    /\ moves < MaxMoves /\ moves' = moves + 1
    /\ \/ \E g \in Groups, u \in People :
            /\ group' = [group EXCEPT ![g] = IF u \in @ THEN @ \ {u} ELSE @ \cup {u}]
            /\ UNCHANGED reachable
       \/ reachable' = ~reachable /\ UNCHANGED group
    /\ request' = Held(request)
    /\ UNCHANGED <<key, node, entry, calls>>

CallersNext == Arrive \/ Proceed \/ Perform \/ Answer \/ Undisturbed \/ MembershipChanges

-----------------------------------------------------------------------------
(* Properties *)

\* Who was let in did not only read, on no path; he could not act for somebody
\* but signed in and as a root admin; what he did, the person he acted as was
\* entitled to at some time since he asked; what he destroyed had the name he
\* gave; and the history names him, not only the person he acted as.
Accountable(q, e) ==
    /\ ~q.readOnly
    /\ q.as # q.actor => q.key = Nobody /\ RootAdmins \in q.actorHeld
    /\ q.handler \notin RestTokens =>
        /\ q.held \cap Entitled(q.handler) # {}
        /\ q.person = IF e.actedBy = Nobody THEN e.email ELSE e.actedBy
        /\ q.handler \in ToolGiveUps => q.confirm \in q.named

\* A token belongs to who made it: nobody leaves one for somebody else.
OwnKeys == \A k \in Keys : key[k].subject = key[k].issuer

AccountableStep ==
    /\ OwnKeys'
    /\ Perform => Accountable(request, entry')

\* CombinedAuthMiddleware, EffectiveAuthMiddleware: all of it of every change, whomever
\* it was made for and by which path.
ChangesAccountable == [][AccountableStep]_callersVars
=============================================================================
