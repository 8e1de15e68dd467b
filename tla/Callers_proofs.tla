---------------------------- MODULE Callers_proofs ----------------------------
(***************************************************************************)
(* Proofs about Callers, for any people, tokens, routes and tools.         *)
(*                                                                         *)
(* ChangesAccountable says of the last step of a request what was looked   *)
(* at in the first ones. Knows carries that along: what each stage         *)
(* established, and that neither the rights it found nor the name it       *)
(* compared are more than what was held, and named, since the request came.*)
(***************************************************************************)
EXTENDS Callers, TLAPS

CallersSpec == CallersInit /\ [][CallersNext]_callersVars

Tokens == People \cup Groups

RequestRecords ==
    [stage : Stages, handler : Handlers, key : Keys \cup {Nobody}, readOnly : BOOLEAN,
     tokenActsAs : BOOLEAN, person : People, actor : People, as : People, confirm : Names,
     own : SUBSET Tokens, rights : SUBSET Tokens, actorHeld : SUBSET Tokens,
     held : SUBSET Tokens, named : SUBSET Names]

KeyRecords == [subject : People, readOnly : BOOLEAN, issuer : People]

\* The types the proof needs.
Typed ==
    /\ group \in [Groups -> SUBSET People]
    /\ key \in [Keys -> KeyRecords \cup {NoKey}]
    /\ node \in [owner : People, name : Names, released : BOOLEAN]
    /\ request = NoRequest \/ request \in RequestRecords

\* What is known of a request, by the stage it has come to.
Knows(q) ==
    /\ q.person = q.actor
    /\ q.own \subseteq q.actorHeld
    /\ q.stage # "actAs" => q.rights \subseteq q.held
    /\ q.stage # "accepted" => ~(q.readOnly /\ Writes(q.handler))
    /\ q.stage \in {"confirm", "perform"} =>
        (q.as # q.actor => q.key = Nobody /\ RootAdmins \in q.own)
    /\ q.stage = "perform" /\ q.handler \in ToolGiveUps => q.confirm \in q.named

\* What it has held since it came is what is held now, and more.
Witnessed(q) ==
    /\ TokensIn(group, q.actor) \subseteq q.actorHeld
    /\ TokensIn(group, q.as) \subseteq q.held
    /\ node.name \in q.named

IInv ==
    /\ Typed /\ OwnKeys
    /\ request # NoRequest => Knows(request) /\ Witnessed(request)

\* No record of a request is NoRequest: its stage is another.
LEMMA NotNoRequest ==
    ASSUME NEW q \in RequestRecords
    PROVE  q # NoRequest
BY DEF RequestRecords, NoRequest, Stages

\* The tokens of a person are among the person's own and the groups.
LEMMA TokensOfPerson ==
    ASSUME NEW g, NEW u \in People
    PROVE  TokensIn(g, u) \in SUBSET Tokens
BY DEF TokensIn, Tokens

\* CombinedAuthMiddleware: who signed in, or holds a token, is a person, and one
\* only acts as a person.
LEMMA PersonsAccepted ==
    ASSUME CallersAssumption, IInv, NEW h \in Handlers, NEW u, NEW k,
           NEW a \in People \cup {Nobody}, NEW n \in Names,
           \/ u \in People /\ k = Nobody
           \/ k \in Keys /\ key[k] # NoKey
    PROVE  LET q == Accepted(h, u, k, a, n)
           IN  /\ q.actor \in People /\ q.as \in People /\ q.person = q.actor
               /\ q.readOnly \in BOOLEAN /\ q.key \in Keys \cup {Nobody}
<1>1. CASE k = Nobody
    BY <1>1 DEF Accepted, CallersAssumption
<1>2. CASE k # Nobody
    <2>1. k \in Keys /\ key[k] \in KeyRecords /\ key[k].subject = key[k].issuer
        BY <1>2 DEF IInv, Typed, OwnKeys
    <2>2. key[k].subject \in People /\ key[k].readOnly \in BOOLEAN
        BY <2>1 DEF KeyRecords
    <2>3. QED
        BY <1>2, <2>1, <2>2 DEF Accepted, CallersAssumption
<1>3. QED
    BY <1>1, <1>2

\* What is known of a request that has just come.
LEMMA KnownWhenAccepted ==
    ASSUME CallersAssumption, IInv, NEW h \in Handlers, NEW u, NEW k,
           NEW a \in People \cup {Nobody}, NEW n \in Names,
           \/ u \in People /\ k = Nobody
           \/ k \in Keys /\ key[k] # NoKey
    PROVE  LET q == Accepted(h, u, k, a, n)
           IN  q \in RequestRecords /\ Knows(q) /\ Witnessed(q)
<1> DEFINE q == Accepted(h, u, k, a, n)
<1>1. /\ q.actor \in People /\ q.as \in People /\ q.person = q.actor
      /\ q.readOnly \in BOOLEAN /\ q.key \in Keys \cup {Nobody}
    BY PersonsAccepted
<1>2. /\ q.actorHeld = TokensIn(group, q.actor)
      /\ q.held = TokensIn(group, q.as)
      /\ q.named = {node.name} /\ node.name \in Names
      /\ q.own = {} /\ q.rights = {} /\ q.stage = "accepted"
      /\ q.handler = h /\ q.confirm = n /\ q.tokenActsAs \in BOOLEAN
    BY DEF Accepted, Directory, IInv, Typed
<1>3. q \in RequestRecords
    <2>1. q.actorHeld \in SUBSET Tokens /\ q.held \in SUBSET Tokens
        BY <1>1, <1>2, TokensOfPerson
    <2>2. q = [stage |-> q.stage, handler |-> q.handler, key |-> q.key,
               readOnly |-> q.readOnly, tokenActsAs |-> q.tokenActsAs, person |-> q.person,
               actor |-> q.actor, as |-> q.as, confirm |-> q.confirm, own |-> q.own,
               rights |-> q.rights, actorHeld |-> q.actorHeld, held |-> q.held,
               named |-> q.named]
        BY DEF Accepted
    <2>3. QED
        BY <1>1, <1>2, <2>1, <2>2 DEF RequestRecords, Stages
<1>4. QED
    BY <1>1, <1>2, <1>3 DEF Knows, Witnessed

\* Arriving holds what anybody can send, and nothing else.
LEMMA SentRequests ==
    ASSUME CallersAssumption, IInv, NEW q \in Arriving
    PROVE  q \in RequestRecords /\ Knows(q) /\ Witnessed(q)
<1>1. CASE \E h \in Handlers, u \in People, a \in People \cup {Nobody}, n \in Names :
            q = Accepted(h, u, Nobody, a, n)
    BY <1>1, KnownWhenAccepted
<1>2. CASE \E h \in Handlers, k \in {x \in Keys : key[x] # NoKey}, a \in People \cup {Nobody},
                n \in Names : q = Accepted(h, Nobody, k, a, n)
    BY <1>2, KnownWhenAccepted
<1>3. QED
    BY <1>1, <1>2 DEF Arriving

\* A request that is followed, as the stages before left it.
Known(q) == q \in RequestRecords /\ Knows(q) /\ Witnessed(q)

\* GetUserTokens: never more than the person holds.
LEMMA TokensHeld ==
    ASSUME NEW u \in People
    PROVE  GetUserTokens(u) \subseteq TokensIn(group, u) /\ GetUserTokens(u) \in SUBSET Tokens
BY TokensOfPerson DEF GetUserTokens, Directory, TokensIn, Tokens

\* A request that goes on from the stages of signing in, once nothing refuses it.
LEMMA KnownAfterActAs ==
    ASSUME NEW q, Known(q), ~(q.readOnly /\ Writes(q.handler)), q.rights \subseteq q.held,
           q.as # q.actor => q.key = Nobody /\ RootAdmins \in q.own
    PROVE  Known(AfterActAs(q))
BY DEF Known, AfterActAs, To, RequestRecords, Stages, Knows, Witnessed

\* confirmName
LEMMA KnownAfterConfirm ==
    ASSUME NEW q, Known(q), q.stage = "confirm", ConfirmName(q) # NoRequest
    PROVE  Known(ConfirmName(q))
<1>1. ConfirmName(q) = To(q, "perform") /\ q.confirm = node.name
    BY DEF ConfirmName, Refused
<1>2. QED
    BY <1>1 DEF Known, To, RequestRecords, Stages, Knows, Witnessed

\* EffectiveAuthMiddleware
LEMMA KnownAfterActing ==
    ASSUME NEW q, Known(q), q.stage = "actAs", ActAs(q) # NoRequest
    PROVE  Known(ActAs(q))
<1> DEFINE r == [q EXCEPT !.rights = GetUserTokens(q.as)]
<1>1. q.key = Nobody /\ RootAdmins \in q.own /\ ActAs(q) = AfterActAs(r)
    BY DEF ActAs, Refused
<1>2. q.as \in People
    BY DEF Known, RequestRecords
<1>3. Known(r)
    BY <1>2, TokensHeld DEF Known, RequestRecords, Knows, Witnessed
<1>4. ~(r.readOnly /\ Writes(r.handler)) /\ r.key = q.key /\ r.own = q.own
    BY DEF Known, RequestRecords, Knows
<1>5. r.rights \subseteq r.held
    BY <1>2, TokensHeld DEF Known, RequestRecords, Witnessed
<1>6. QED
    BY <1>1, <1>3, <1>4, <1>5, KnownAfterActAs

\* CombinedAuthMiddleware and RejectWritesForReadOnlyTokens
LEMMA KnownAfterResolving ==
    ASSUME NEW q, Known(q), q.stage = "accepted", ResolveUserTokens(q) # NoRequest
    PROVE  Known(ResolveUserTokens(q))
<1> DEFINE own == GetUserTokens(q.actor)
           r == [q EXCEPT !.own = own, !.rights = own]
<1>1. q.actor \in People /\ ~(q.readOnly /\ Writes(q.handler))
    BY DEF Known, RequestRecords, ResolveUserTokens, Refused
<1>2. own \subseteq q.actorHeld /\ own \in SUBSET Tokens
    BY <1>1, TokensHeld DEF Known, Witnessed
<1>3. CASE q.as # q.actor \/ q.tokenActsAs
    <2>1. ResolveUserTokens(q) = To(r, "actAs")
        BY <1>1, <1>3 DEF ResolveUserTokens
    <2>2. QED
        BY <1>1, <1>2, <1>3, <2>1 DEF Known, To, RequestRecords, Stages, Knows, Witnessed
<1>4. CASE ~(q.as # q.actor \/ q.tokenActsAs)
    <2>1. ResolveUserTokens(q) = AfterActAs(r)
        BY <1>1, <1>4 DEF ResolveUserTokens
    <2>2. own \subseteq q.held
        BY <1>1, <1>4, TokensHeld DEF Known, Witnessed
    <2>3. Known(r)
        BY <1>1, <1>2, <2>2 DEF Known, RequestRecords, Knows, Witnessed
    <2>4. ~(r.readOnly /\ Writes(r.handler)) /\ r.as = r.actor /\ r.rights \subseteq r.held
        BY <1>1, <1>4, <2>2 DEF Known, RequestRecords
    <2>5. QED
        BY <2>1, <2>3, <2>4, KnownAfterActAs
<1>5. QED
    BY <1>3, <1>4

\* Every stage refuses, or adds to what is known.
LEMMA KnownGoesOn ==
    ASSUME NEW q, Known(q)
    PROVE  Proceeds(q) = NoRequest \/ Known(Proceeds(q))
<1>1. CASE q.stage = "accepted"
    BY <1>1, KnownAfterResolving DEF Proceeds
<1>2. CASE q.stage = "actAs"
    BY <1>2, KnownAfterActing DEF Proceeds
<1>3. CASE q.stage = "confirm"
    BY <1>3, KnownAfterConfirm DEF Proceeds
<1>4. CASE q.stage = "perform"
    BY <1>4 DEF Proceeds
<1>5. QED
    BY <1>1, <1>2, <1>3, <1>4 DEF Known, RequestRecords, Stages

-----------------------------------------------------------------------------
(* What a request that gets through may do *)

\* createToken: a token belongs to who made it.
LEMMA OwnKeysKept ==
    ASSUME CallersAssumption, IInv, NEW q, Known(q), Performs(q)
    PROVE  key' \in [Keys -> KeyRecords \cup {NoKey}] /\ OwnKeys'
<1>1. ASSUME NEW readOnly \in BOOLEAN, CreateToken(q, readOnly)
      PROVE  key' \in [Keys -> KeyRecords \cup {NoKey}] /\ OwnKeys'
    <2>1. q.as \in People /\ q.person = q.as
        BY <1>1 DEF CreateToken, Known, RequestRecords, Knows
    <2>2. QED
        BY <1>1, <2>1 DEF CreateToken, KeyRecords, OwnKeys, IInv, Typed
<1>2. CASE DeleteToken(q)
    BY <1>2 DEF DeleteToken, OwnKeys, IInv, Typed, NoKey
<1>3. CASE EditCatalog(q) \/ ChangeNode(q)
    BY <1>3 DEF EditCatalog, ChangeNode, Changes, OwnKeys, IInv, Typed
<1>4. QED
    BY <1>1, <1>2, <1>3 DEF Performs

\* The node keeps its type.
LEMMA NodeTyped ==
    ASSUME IInv, NEW q, Performs(q)
    PROVE  node' \in [owner : People, name : Names, released : BOOLEAN]
<1>1. CASE ChangeNode(q)
    BY <1>1 DEF ChangeNode, IInv, Typed
<1>2. CASE ~ChangeNode(q)
    BY <1>2 DEF Performs, CreateToken, DeleteToken, EditCatalog, IInv, Typed
<1>3. QED
    BY <1>1, <1>2

\* No operation that performs something is one that reads.
LEMMA PerformsWrites ==
    ASSUME NEW q, Performs(q)
    PROVE  Writes(q.handler)
<1>1. "createToken" \notin Reads /\ "deleteToken" \notin Reads
    BY DEF Reads, RestReads, RestLists, ToolReads
<1>2. QED
    BY <1>1 DEF Performs, CreateToken, DeleteToken, EditCatalog, ChangeNode, Changes, Writes

\* What is performed is accounted for.
LEMMA PerformedAccountable ==
    ASSUME CallersAssumption, IInv, NEW q, Known(q), q.stage = "perform", Performs(q)
    PROVE  Accountable(q, entry')
<1>1. ~q.readOnly /\ (q.as # q.actor => q.key = Nobody /\ RootAdmins \in q.actorHeld)
    BY PerformsWrites DEF Known, Knows, RequestRecords
<1>2. ASSUME q.handler \notin RestTokens
      PROVE  /\ q.held \cap Entitled(q.handler) # {}
             /\ q.person = IF entry'.actedBy = Nobody THEN entry'.email ELSE entry'.actedBy
             /\ q.handler \in ToolGiveUps => q.confirm \in q.named
    <2>1. EditCatalog(q) \/ ChangeNode(q)
        BY <1>2 DEF Performs, CreateToken, DeleteToken, RestTokens
    <2>2. q.held \cap Entitled(q.handler) # {}
        BY <2>1 DEF EditCatalog, ChangeNode, Changes, Known, Knows, RequestRecords
    <2>3. q.person = q.actor /\ q.actor # Nobody
        BY DEF Known, Knows, RequestRecords, CallersAssumption
    <2>4. \/ entry' = [email |-> q.actor, actedBy |-> Nobody]
          \/ entry' = [email |-> q.as, actedBy |-> IF q.as = q.actor THEN Nobody ELSE q.actor]
        BY <2>1 DEF EditCatalog, ChangeNode, ActorOf
    <2>5. q.person = IF entry'.actedBy = Nobody THEN entry'.email ELSE entry'.actedBy
        BY <2>3, <2>4
    <2>6. q.handler \in ToolGiveUps => q.confirm \in q.named
        BY DEF Known, Knows
    <2>7. QED
        BY <2>2, <2>5, <2>6
<1>3. QED
    BY <1>1, <1>2 DEF Accountable

-----------------------------------------------------------------------------
(* The invariant *)

\* Nobody has asked for anything yet.
LEMMA InvInit ==
    ASSUME CallersAssumption
    PROVE  CallersInit => IInv
<1> SUFFICES ASSUME CallersInit
             PROVE  IInv
    OBVIOUS
<1>1. \E u \in People, readOnly \in BOOLEAN :
        key = [k \in Keys |->
            IF k = First THEN [subject |-> u, readOnly |-> readOnly, issuer |-> u] ELSE NoKey]
    BY DEF CallersInit
<1>2. key \in [Keys -> KeyRecords \cup {NoKey}] /\ OwnKeys
    BY <1>1 DEF KeyRecords, OwnKeys, NoKey
<1>3. group \in [Groups -> SUBSET People] /\ request = NoRequest
    BY DEF CallersInit, CallersAssumption
<1>4. node \in [owner : People, name : Names, released : BOOLEAN]
    BY DEF CallersInit, Names
<1>5. QED
    BY <1>2, <1>3, <1>4 DEF IInv, Typed

\* The followed request arrives, goes on or ends, and what it performs is typed.
LEMMA InvFollowed ==
    ASSUME CallersAssumption, IInv, Arrive \/ Proceed \/ Perform \/ Answer
    PROVE  IInv'
<1>1. CASE Arrive
    <2>1. /\ request' \in RequestRecords /\ Knows(request') /\ Witnessed(request')
          /\ UNCHANGED <<group, key, node>>
        BY <1>1, SentRequests DEF Arrive, Calls
    <2>2. QED
        BY <2>1 DEF IInv, Typed, OwnKeys, Witnessed
<1>2. CASE Proceed
    <2>1. Known(request)
        BY <1>2 DEF Proceed, IInv, Typed, Known
    <2>2. /\ request' = NoRequest \/ Known(request')
          /\ UNCHANGED <<group, key, node>>
        BY <1>2, <2>1, KnownGoesOn DEF Proceed
    <2>3. QED
        BY <2>2 DEF IInv, Typed, OwnKeys, Known, Witnessed
<1>3. CASE Perform
    <2>1. Known(request) /\ Performs(request) /\ request' = NoRequest /\ UNCHANGED group
        BY <1>3 DEF Perform, IInv, Typed, Known
    <2>2. QED
        BY <2>1, OwnKeysKept, NodeTyped DEF IInv, Typed
<1>4. CASE Answer
    BY <1>4 DEF Answer, IInv, Typed, OwnKeys
<1>5. QED
    BY <1>1, <1>2, <1>3, <1>4

\* Another request, from its arrival to its end, changes what it is allowed to.
LEMMA InvUndisturbed ==
    ASSUME CallersAssumption, IInv, Undisturbed
    PROVE  IInv'
<1>1. PICK q \in Arriving :
            /\ Proceeds(Proceeds(Proceeds(q))).stage = "perform"
            /\ Performs(Proceeds(Proceeds(Proceeds(q))))
    BY DEF Undisturbed
<1> DEFINE done == Proceeds(Proceeds(Proceeds(q)))
<1>2. Proceeds(NoRequest) = NoRequest
    BY DEF Proceeds, NoRequest
<1>3. Known(q)
    BY SentRequests DEF Known
<1>4. Known(done)
    <2>1. done # NoRequest
        BY <1>1 DEF NoRequest
    <2>2. QED
        BY <1>2, <1>3, <2>1, KnownGoesOn
<1>5. key' \in [Keys -> KeyRecords \cup {NoKey}] /\ OwnKeys'
    BY <1>1, <1>4, OwnKeysKept
<1>6. node' \in [owner : People, name : Names, released : BOOLEAN]
    BY <1>1, NodeTyped
<1>7. /\ request # NoRequest /\ UNCHANGED group
      /\ request' = [request EXCEPT !.named = @ \cup {node'.name}]
    BY DEF Undisturbed, Calls, Noticed
<1>8. request \in RequestRecords /\ Knows(request) /\ Witnessed(request)
    BY <1>7 DEF IInv, Typed
<1>9. request' = [request EXCEPT !.named = request.named \cup {node'.name}]
    BY <1>7, <1>8 DEF RequestRecords
<1>10. node'.name \in Names
    BY <1>6
<1>11. request' \in RequestRecords
    BY <1>8, <1>9, <1>10 DEF RequestRecords
<1>12. Knows(request') /\ Witnessed(request)'
    BY <1>7, <1>8, <1>9 DEF RequestRecords, Knows, Witnessed, TokensIn
<1>13. QED
    BY <1>5, <1>6, <1>7, <1>11, <1>12 DEF IInv, Typed

\* Somebody joins or leaves a group: what was held stays on record.
LEMMA InvMove ==
    ASSUME CallersAssumption, IInv, MembershipChanges
    PROVE  IInv'
<1>1. group' \in [Groups -> SUBSET People]
    BY DEF MembershipChanges, IInv, Typed
<1>2. UNCHANGED <<key, node>> /\ request' = Held(request)
    BY DEF MembershipChanges
<1>3. CASE request = NoRequest
    BY <1>1, <1>2, <1>3 DEF Held, IInv, Typed, OwnKeys
<1>4. CASE request # NoRequest
    <2>1. request \in RequestRecords /\ Knows(request) /\ Witnessed(request)
        BY <1>4 DEF IInv, Typed
    <2>2. /\ TokensIn(group', request.actor) \in SUBSET Tokens
          /\ TokensIn(group', request.as) \in SUBSET Tokens
        BY <2>1, TokensOfPerson DEF RequestRecords
    <2>3. request' = [request EXCEPT
                        !.actorHeld = @ \cup TokensIn(group', request.actor),
                        !.held = @ \cup TokensIn(group', request.as)]
        BY <1>2, <1>4 DEF Held
    <2>4. request' \in RequestRecords
        BY <2>1, <2>2, <2>3 DEF RequestRecords
    <2>5. Knows(request') /\ Witnessed(request)'
        BY <1>2, <2>1, <2>3 DEF RequestRecords, Knows, Witnessed
    <2>6. QED
        BY <1>1, <1>2, <2>4, <2>5 DEF IInv, Typed, OwnKeys
<1>5. QED
    BY <1>3, <1>4

\* Each group of steps has its lemma above.
LEMMA InvStep ==
    ASSUME CallersAssumption
    PROVE  IInv /\ [CallersNext]_callersVars => IInv'
<1>1. ASSUME IInv, CallersNext
      PROVE  IInv'
    BY <1>1, InvFollowed, InvUndisturbed, InvMove DEF CallersNext
<1>2. ASSUME IInv, UNCHANGED callersVars
      PROVE  IInv'
    BY <1>2 DEF IInv, Typed, OwnKeys, Witnessed, TokensIn, callersVars
<1>3. QED
    BY <1>1, <1>2

\* CombinedAuthMiddleware, EffectiveAuthMiddleware and the tools: for any people,
\* groups' members, tokens, routes and tools, and whatever happens meanwhile, who
\* changed something was entitled to it, and the history names them.
THEOREM AccountableAlways ==
    ASSUME CallersAssumption
    PROVE  CallersSpec => ChangesAccountable
<1>1. CallersInit => IInv
    BY InvInit
<1>2. IInv /\ [CallersNext]_callersVars => IInv'
    BY InvStep
<1>3. ASSUME IInv, IInv', [CallersNext]_callersVars
      PROVE  AccountableStep
    <2>1. OwnKeys'
        BY <1>3 DEF IInv
    <2>2. ASSUME Perform
          PROVE  Accountable(request, entry')
        <3>1. Known(request) /\ request.stage = "perform" /\ Performs(request)
            BY <1>3, <2>2 DEF Perform, IInv, Typed, Known
        <3>2. QED
            BY <1>3, <3>1, PerformedAccountable
    <2>3. QED
        BY <2>1, <2>2 DEF AccountableStep
<1>4. IInv /\ IInv' /\ [CallersNext]_callersVars => [AccountableStep]_callersVars
    BY <1>3
<1>5. QED
    BY <1>1, <1>2, <1>4, PTL DEF CallersSpec, ChangesAccountable
=============================================================================
