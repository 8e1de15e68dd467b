------------------------------- MODULE Access -------------------------------
(***************************************************************************)
(* Who may work in a project: the Keystone accounts, groups and roles that *)
(* a pass brings in line with the owner and the authorized users of a node *)
(* (reconciler/members.go, client/members.go, users.go, federated.go).     *)
(*                                                                         *)
(* The service knows people by their address. Keystone may have several    *)
(* accounts of one address: one this service made ahead of the first       *)
(* login, the one a login made, and one that is neither. Calls to Keystone *)
(* fail one by one, and the pass goes on without what failed.              *)
(***************************************************************************)
EXTENDS Naturals, FiniteSets

CONSTANTS
    People,         \* addresses
    Groups,         \* group tokens
    Offered,        \* common.OpenstackRoles
    OwnerRole,      \* common.OwnerOpenstackRole
    OldRoles,       \* stored once, and not offered any more
    NoRole,
    Starts,         \* nodes to begin with
    MaxEdits,       \* bound: changes of the node and of the role provider
    MaxMishaps      \* bound: calls that fail, and ends of the process

AccessAssumption ==
    /\ OwnerRole \in Offered /\ Offered \cap OldRoles = {}
    /\ NoRole \notin Offered \cup OldRoles
    /\ \A n \in Starts : n.owner \in People \cup {NoRole}
    /\ \A n \in Starts : n.may \in [People \cup Groups -> Offered \cup OldRoles \cup {NoRole}]
    /\ MaxEdits \in Nat /\ MaxMishaps \in Nat

Roles == Offered \cup OldRoles
\* "ours" carries ManagedUserDescription and the link of the login, "login" has
\* the derived id, "local" is somebody else's of the same name.
Accounts == People \X {"ours", "login", "local"}
Holders == Accounts \cup Groups
Of(u) == {a \in Accounts : a[1] = u}
NoAccount == <<NoRole, "none">>

\* An owner that is not of People is anybody else.
Nodes == [owner : People \cup {NoRole}, may : [People \cup Groups -> Roles \cup {NoRole}]]

VARIABLES
    federated,      \* OPENSTACK_FEDERATED_PROVISIONING
    tree,           \* the node as stored
    provided,       \* what the role provider says who is in a group
    accounts,       \* those there are
    roles,          \* in the project
    elsewhere,      \* accounts with a role in another project
    group,          \* "none", "ours" or "foreign": a group of that name
    members,        \* accounts in the groups
    at,             \* what the pass does next
    leaf,           \* the node as loaded
    todo,           \* groups or people the loop has still to go through
    resolved,       \* groupTokenToOSID
    syncing,        \* the group whose members are looked up, or who is given a role
    found,          \* desiredUserIDs of that group, or the account for the role
    listed,         \* the roles, as listed
    edits, mishaps

inputs == <<federated, tree, provided, edits>>
keystone == <<accounts, roles, group, members>>
accessPass == <<at, leaf, todo, resolved, syncing, found, listed>>
accessVars == <<inputs, keystone, elsewhere, accessPass, mishaps>>

AccessSteps ==
    {"idle", "groups", "lookup", "member", "account", "add", "assignment", "delete"}

AccessTypeOK ==
    /\ federated \in BOOLEAN
    /\ tree \in Nodes /\ leaf \in Nodes
    /\ provided \in [Groups -> SUBSET People]
    /\ accounts \subseteq Accounts /\ elsewhere \subseteq Accounts
    /\ roles \in [Holders -> SUBSET Roles] /\ listed \in [Holders -> SUBSET Roles]
    /\ group \in [Groups -> {"none", "ours", "foreign"}]
    /\ members \in [Groups -> SUBSET Accounts]
    /\ at \in AccessSteps
    /\ todo \subseteq People \cup Groups \cup Accounts
    /\ resolved \subseteq Groups /\ syncing \in Groups \cup People \cup {NoRole}
    /\ found \subseteq Accounts
    /\ edits \in 0..MaxEdits /\ mishaps \in 0..MaxMishaps

NoRoles == [h \in Holders |-> {}]

\* The project is an import, adopted with whoever works in it, or a new one. An
\* account made ahead that is there already has a role in another project. Without
\* federated accounts it decides nothing which other kind an account is of. Nobody
\* asks who is in a group whose name is taken.
AccessInit ==
    /\ federated \in BOOLEAN
    /\ tree \in Starts
    /\ provided \in [Groups -> SUBSET People]
    /\ accounts \in {S \in SUBSET Accounts :
                        /\ \A u \in People : Cardinality(S \cap Of(u)) <= 1
                        /\ ~federated => \A u \in People : <<u, "login">> \notin S}
    /\ elsewhere = {a \in accounts : a[2] = "ours"}
    /\ roles \in {NoRoles, [h \in Holders |-> IF h \in accounts THEN {OwnerRole} ELSE {}]}
    /\ group \in [Groups -> {"none", "foreign"}]
    /\ \A g \in Groups : group[g] = "foreign" => provided[g] = {}
    /\ members = [g \in Groups |-> {}]
    /\ at = "idle" /\ leaf = tree
    /\ todo = {} /\ resolved = {} /\ syncing = NoRole /\ found = {} /\ listed = NoRoles
    /\ edits = 0 /\ mishaps = 0

-----------------------------------------------------------------------------
(* What the node asks for *)

\* allowedRole
Allowed(role) == IF role \in Offered THEN role ELSE OwnerRole

\* buildDesiredMembers, keyed by address: an entry of its own wins over the owner's.
DesiredRole(n, u) ==
    IF n.may[u] # NoRole THEN Allowed(n.may[u])
    ELSE IF n.owner = u THEN OwnerRole
    ELSE NoRole

\* collectGroupTokens
Tokens(n) == {g \in Groups : n.may[g] # NoRole}

-----------------------------------------------------------------------------
(* Keystone *)

Mishap == mishaps < MaxMishaps /\ mishaps' = mishaps + 1
Smooth == UNCHANGED mishaps

\* DeleteUser: the roles and memberships of an account go with it.
Dropped(gone) ==
    [accounts |-> accounts \ gone,
     roles |-> [h \in Holders |-> IF h \in gone THEN {} ELSE roles[h]],
     members |-> [g \in Groups |-> members[g] \ gone]]

\* FindOrCreateUser: the accounts it may return, with what there is then. By
\* name either of two accounts may come first. The one a login binds to wins,
\* and the one made ahead of it is removed, if that is what was found by name.
\* One without a link is a conflict.
Resolution(u) ==
    LET here == accounts \cap Of(u)
        new == [Dropped({}) EXCEPT !.accounts = accounts \cup {<<u, "ours">>}]
        login == <<u, "login">>
    IN  IF here = {} THEN {[id |-> <<u, "ours">>, now |-> new]}
        ELSE IF ~federated THEN {[id |-> a, now |-> Dropped({})] : a \in here}
        ELSE IF login \in here
        THEN {[id |-> login, now |-> Dropped({a} \cap {<<u, "ours">>})] : a \in here}
             \cup {[id |-> login, now |-> Dropped({})]}
        ELSE {[id |-> IF a[2] = "ours" THEN a ELSE NoAccount, now |-> Dropped({})] : a \in here}

Becomes(now) ==
    accounts' = now.accounts /\ roles' = now.roles /\ members' = now.members

NextGroup ==
    /\ todo' = todo \ {syncing}
    /\ at' = "groups" /\ syncing' = NoRole /\ found' = {}

-----------------------------------------------------------------------------
(* syncGroups *)

LoadLeaf ==
    /\ at = "idle"
    /\ leaf' = tree /\ todo' = Tokens(tree)
    /\ at' = "groups"
    /\ UNCHANGED <<inputs, keystone, elsewhere, resolved, syncing, found, listed, mishaps>>

\* Found, or made. Then the role provider is asked.
ResolveGroup(g) ==
    /\ at = "groups" /\ g \in todo \cap Groups
    /\ group[g] # "foreign"
    /\ group' = [group EXCEPT ![g] = "ours"]
    /\ resolved' = resolved \cup {g} /\ syncing' = g
    /\ at' = "lookup" /\ todo' = todo \cup provided[g]
    /\ UNCHANGED <<inputs, accounts, roles, members, elsewhere, leaf, found, listed, mishaps>>

\* Somebody else's, or not found, or not made.
SkipGroup(g) ==
    /\ at = "groups" /\ g \in todo \cap Groups
    /\ IF group[g] = "foreign" THEN Smooth ELSE Mishap
    /\ todo' = todo \ {g}
    /\ UNCHANGED <<inputs, keystone, elsewhere, at, leaf, resolved, syncing, found, listed>>

\* The role provider did not answer, or the members could not be listed.
GroupFails ==
    /\ at = "lookup" /\ Mishap
    /\ todo' = (todo \cap Groups) \ {syncing}
    /\ at' = "groups" /\ syncing' = NoRole /\ found' = {}
    /\ UNCHANGED <<inputs, keystone, elsewhere, leaf, resolved, listed>>

\* Who cannot be found or made is left out, and so is who is in conflict.
LookUp(u) ==
    /\ at = "lookup" /\ u \in todo
    /\ \/ /\ \E r \in Resolution(u) :
               Becomes(r.now) /\ found' = found \cup ({r.id} \ {NoAccount})
          /\ Smooth
       \/ Mishap /\ UNCHANGED <<accounts, roles, members, found>>
    /\ todo' = todo \ {u}
    /\ UNCHANGED <<inputs, group, elsewhere, at, leaf, resolved, syncing, listed>>

\* Who is missing is added, and who was not found is removed. One of the calls
\* may fail.
SyncGroupMembers ==
    LET now == members[syncing]
        add == (found \cap accounts) \ now
    IN  /\ at = "lookup" /\ todo \cap People = {}
        /\ \/ members' = [members EXCEPT ![syncing] = (now \cap found) \cup add] /\ Smooth
           \/ \E a \in add \cup (now \ found) :
                /\ Mishap
                /\ members' = [members EXCEPT ![syncing] =
                        IF a \in add THEN ((now \cap found) \cup add) \ {a}
                        ELSE (now \cap found) \cup add \cup {a}]
        /\ NextGroup
        /\ UNCHANGED <<inputs, accounts, roles, group, elsewhere, leaf, resolved, listed>>

-----------------------------------------------------------------------------
(* syncMembers *)

\* An account that cannot be read is passed over.
ListMembers ==
    /\ at = "groups" /\ todo = {}
    /\ \/ listed' = roles /\ Smooth
       \/ \E a \in accounts : listed' = [roles EXCEPT ![a] = {}] /\ Mishap
    /\ at' = "member" /\ todo' = People
    /\ UNCHANGED <<inputs, keystone, elsewhere, leaf, resolved, syncing, found>>

ListMembersFails ==
    /\ at = "groups" /\ todo = {} /\ Mishap
    /\ at' = "member"
    /\ UNCHANGED <<inputs, keystone, elsewhere, leaf, todo, resolved, syncing, found, listed>>

\* The roles of a person: of every account with that address.
Held(f, u) == UNION {f[a] : a \in Of(u)}

\* Mutant of Reduced: every role that was listed goes.
ReducedToNone(u, keep, failed) ==
    [h \in Holders |-> IF h \in Of(u) /\ h \notin failed THEN roles[h] \ listed[h] ELSE roles[h]]

\* Removes what was listed but for one role; perhaps one removal fails.
Reduced(u, keep, failed) ==
    [h \in Holders |->
        IF h \in Of(u) /\ h \notin failed THEN roles[h] \ (listed[h] \ {keep}) ELSE roles[h]]

\* A wrong role goes first, and the loop goes on if that fails. It is done with whom
\* it found the right one listed of.
SyncMember(u) ==
    LET want == DesiredRole(leaf, u)
    IN  /\ at = "member" /\ u \in todo
        /\ want # NoRole
        /\ \/ roles' = Reduced(u, want, {}) /\ Smooth
           \/ \E a \in Of(u) :
                listed[a] \ {want} # {} /\ roles' = Reduced(u, want, {a}) /\ Mishap
        /\ IF want \in Held(listed, u) THEN UNCHANGED <<at, syncing>>
           ELSE at' = "account" /\ syncing' = u
        /\ todo' = todo \ {u}
        /\ UNCHANGED <<inputs, accounts, group, members, elsewhere, leaf, resolved, found, listed>>

\* FindOrCreateUser. Who is in conflict is left out.
FindAccount ==
    /\ at = "account"
    /\ \E r \in Resolution(syncing) :
        /\ Becomes(r.now)
        /\ IF r.id = NoAccount THEN at' = "member" /\ syncing' = NoRole /\ UNCHANGED found
           ELSE at' = "add" /\ found' = {r.id} /\ UNCHANGED syncing
    /\ UNCHANGED <<inputs, group, elsewhere, leaf, todo, resolved, listed, mishaps>>

\* AddProjectMember
AddMember ==
    /\ at = "add"
    /\ roles' = [h \in Holders |->
                    IF h \in found THEN roles[h] \cup {DesiredRole(leaf, syncing)} ELSE roles[h]]
    /\ at' = "member" /\ syncing' = NoRole /\ found' = {}
    /\ UNCHANGED <<inputs, accounts, group, members, elsewhere, leaf, todo, resolved, listed,
                   mishaps>>

\* The account, the role or adding it: the loop goes on with the next.
MemberFails ==
    /\ at \in {"account", "add"} /\ Mishap
    /\ at' = "member" /\ syncing' = NoRole /\ found' = {}
    /\ UNCHANGED <<inputs, keystone, elsewhere, leaf, todo, resolved, listed>>

RemoveMember(u) ==
    /\ at = "member" /\ u \in todo
    /\ DesiredRole(leaf, u) = NoRole
    /\ \/ roles' = Reduced(u, NoRole, {}) /\ Smooth
       \/ \E a \in Of(u) : listed[a] # {} /\ roles' = Reduced(u, NoRole, {a}) /\ Mishap
    /\ todo' = todo \ {u}
    /\ UNCHANGED <<inputs, accounts, group, members, elsewhere, at, leaf, resolved, syncing,
                   found, listed>>

-----------------------------------------------------------------------------
(* syncGroupAssignments *)

\* Mutant of ListAssignments: only the groups of the node are gone through.
ListAssignmentsOfNode ==
    /\ at = "member" /\ todo = {} /\ Tokens(leaf) \subseteq resolved
    /\ listed' = roles
    /\ at' = "assignment" /\ todo' = Tokens(leaf) /\ resolved' = {}
    /\ UNCHANGED <<inputs, keystone, elsewhere, leaf, syncing, found, mishaps>>

\* Only with every group of the node, and the list.
ListAssignments ==
    /\ at = "member" /\ todo = {} /\ Tokens(leaf) \subseteq resolved
    /\ listed' = roles
    /\ at' = "assignment" /\ todo' = Groups /\ resolved' = {}
    /\ UNCHANGED <<inputs, keystone, elsewhere, leaf, syncing, found, mishaps>>

SkipAssignments ==
    /\ at = "member" /\ todo = {}
    /\ IF Tokens(leaf) \subseteq resolved THEN Mishap ELSE Smooth
    /\ at' = "assignment" /\ resolved' = {} /\ listed' = NoRoles
    /\ UNCHANGED <<inputs, keystone, elsewhere, leaf, todo, syncing, found>>

\* Of several roles of a group the map keeps the one listed last. The role is
\* the stored one.
SyncAssignment(g) ==
    LET want == leaf.may[g]
    IN  /\ at = "assignment" /\ g \in todo
        /\ \E last \in IF listed[g] = {} THEN {NoRole} ELSE listed[g] :
            \/ /\ want # NoRole /\ last = want
               /\ Smooth /\ UNCHANGED roles
            \/ /\ want # NoRole /\ last # want
               /\ roles' = [roles EXCEPT ![g] = (@ \ {last}) \cup {want}] /\ Smooth
            \/ /\ want = NoRole
               /\ roles' = [roles EXCEPT ![g] = @ \ {last}] /\ Smooth
            \/ /\ want # NoRole /\ last # want      \* one of the calls fails
               /\ roles' \in {[roles EXCEPT ![g] = @ \ {last}], [roles EXCEPT ![g] = @ \cup {want}]}
               /\ Mishap
            \/ want = NoRole /\ last # NoRole /\ Mishap /\ UNCHANGED roles
        /\ todo' = todo \ {g}
        /\ UNCHANGED <<inputs, accounts, group, members, elsewhere, at, leaf, resolved, syncing,
                       found, listed>>

-----------------------------------------------------------------------------
(* pruneOrphanedUsers *)

\* ListUserProjectAssignments, with what comes by a group.
HasRole(a) ==
    \/ roles[a] # {} \/ a \in elsewhere
    \/ \E g \in Groups : a \in members[g] /\ roles[g] # {}

\* CollectOrphanedManagedUsers
Orphans == {a \in accounts : a[2] = "ours" /\ ~HasRole(a)}

CollectOrphans ==
    /\ at = "assignment" /\ todo = {}
    /\ at' = "delete" /\ todo' = Orphans /\ listed' = NoRoles
    /\ UNCHANGED <<inputs, keystone, elsewhere, leaf, resolved, syncing, found, mishaps>>

DeleteOrphan(a) ==
    /\ at = "delete" /\ a \in todo
    /\ \/ Becomes(Dropped({a})) /\ Smooth
       \/ Mishap /\ UNCHANGED <<accounts, roles, members>>
    /\ todo' = todo \ {a}
    /\ UNCHANGED <<inputs, group, elsewhere, at, leaf, resolved, syncing, found, listed>>

\* Nothing of a pass outlives it.
PassForgotten ==
    /\ at' = "idle" /\ leaf' = tree
    /\ todo' = {} /\ resolved' = {} /\ syncing' = NoRole /\ found' = {} /\ listed' = NoRoles

AccessDone ==
    /\ at = "delete" /\ todo = {}
    /\ PassForgotten
    /\ UNCHANGED <<inputs, keystone, elsewhere, mishaps>>

AccessCrash ==
    /\ at # "idle" /\ Mishap
    /\ PassForgotten
    /\ UNCHANGED <<inputs, keystone, elsewhere>>

-----------------------------------------------------------------------------
(* Meanwhile *)

Edit == edits < MaxEdits /\ edits' = edits + 1

\* The owner or an entry of the authorized users changes.
EditNode ==
    /\ Edit
    /\ \/ \E u \in People \cup {NoRole} : u # tree.owner /\ tree' = [tree EXCEPT !.owner = u]
       \/ \E h \in People \cup Groups, r \in Offered \cup {NoRole} :
            r # tree.may[h] /\ tree' = [tree EXCEPT !.may[h] = r]
    /\ leaf' = IF at = "idle" THEN tree' ELSE leaf
    /\ UNCHANGED <<federated, provided, keystone, elsewhere, at, todo, resolved, syncing, found,
                   listed, mishaps>>

EditGroup(g, u) ==
    /\ Edit
    /\ provided' = [provided EXCEPT ![g] = IF u \in @ THEN @ \ {u} ELSE @ \cup {u}]
    /\ UNCHANGED <<federated, tree, keystone, elsewhere, accessPass, mishaps>>

\* A login uses the account it is linked to, or makes one of its own.
LogIn(u) ==
    /\ federated /\ <<u, "login">> \notin accounts
    /\ accounts' = accounts \cup {<<u, "login">>}
    /\ UNCHANGED <<inputs, roles, group, members, elsewhere, accessPass, mishaps>>

-----------------------------------------------------------------------------
AccessStep ==
    \/ LoadLeaf \/ GroupFails \/ SyncGroupMembers
    \/ \E g \in Groups : ResolveGroup(g) \/ SkipGroup(g) \/ SyncAssignment(g)
    \/ \E u \in People : LookUp(u) \/ SyncMember(u) \/ RemoveMember(u)
    \/ ListMembers \/ ListMembersFails
    \/ FindAccount \/ AddMember \/ MemberFails
    \/ ListAssignments \/ SkipAssignments
    \/ CollectOrphans \/ AccessDone
    \/ \E a \in Accounts : DeleteOrphan(a)

AccessNext ==
    \/ AccessStep \/ AccessCrash \/ EditNode
    \/ \E g \in Groups, u \in People : EditGroup(g, u)
    \/ \E u \in People : LogIn(u)

-----------------------------------------------------------------------------
(* Properties *)

\* No account of the address, or one that a role may be given to.
Unambiguous(u) == federated => <<u, "local">> \notin accounts \/ <<u, "login">> \in accounts

\* "The desired state is in the tree": whatever failed, and wherever passes
\* ended, everybody the node names ends with exactly the role it names, and
\* nobody else with one. A group gets its role, and loses it, unless one of
\* them has the name of somebody else's group.
Reached ==
    /\ \A u \in People : Unambiguous(u) =>
            Held(roles, u) = {DesiredRole(tree, u)} \ {NoRole}
    /\ (\A g \in Tokens(tree) : group[g] # "foreign") =>
            \A g \in Groups :
                IF tree.may[g] = NoRole THEN roles[g] = {} ELSE tree.may[g] \in roles[g]

MembersReached == <>[]Reached

\* findOrCreateFederatedUser: "the account a login actually lands on wins whenever it
\* exists", and the one made ahead of it goes, with the role it held until then.
Superseded(u) ==
    /\ federated /\ <<u, "login">> \in accounts
    /\ <<u, "ours">> \in accounts /\ <<u, "ours">> \notin accounts'

\* A pass that works on the node as it is never takes from somebody the very role
\* the node names for him, at any of its steps, whatever fails and wherever it ends,
\* unless it is that of an account made ahead, which it removes when it finds the
\* one he logs in with. The role comes back with a later step, or a later pass
\* (MembersReached).
RoleKept ==
    [][leaf = tree =>
        /\ \A u \in People :
            DesiredRole(tree, u) \in Held(roles, u) =>
                DesiredRole(tree, u) \in Held(roles', u) \/ Superseded(u)
        /\ \A g \in Groups :
            tree.may[g] \in roles[g] => tree.may[g] \in roles'[g] ]_accessVars

\* "Should a login nevertheless spawn its own shadow account, the next sync
\* notices" (federated.go): whoever has logged in ends with his role on the
\* account he logs in with.
LoginsReached ==
    \A u \in People :
        <<u, "login">> \in accounts /\ DesiredRole(tree, u) # NoRole
            => DesiredRole(tree, u) \in roles[<<u, "login">>]

LoginReached == <>[]LoginsReached

=============================================================================
