------------------------- MODULE Availability_proofs -------------------------
(***************************************************************************)
(* Proofs about Availability, for any number of root admins, operations    *)
(* and calls that fail.                                                    *)
(*                                                                         *)
(* A withdrawal holds because of the order in it: the entry changes before *)
(* the rewrite, and the rewrite waits for a request that was valid before; *)
(* a pass writes what an import holds, and to nothing else                 *)
(* (WithdrawnStays). A removal has looked for holders and for grants, one  *)
(* after the other: what it found stays true, as long as no other admin    *)
(* offers the availability again (RemovingStays, LookedStays). That admins *)
(* came one after the other gives OneAtATime.                              *)
(***************************************************************************)
EXTENDS Availability, TLAPS

AvailabilitySpec == AvailabilityInit /\ [][AvailabilityNext]_availabilityVars

\* Whoever is between taking approvalMu and giving it back, has it.
Locked ==
    /\ \A a \in Admins : op[a] \in {"rewrite", "adoptlocked", "forgetlocked"} => lock = a
    /\ request # NoKey <=> lock = "request"

\* A project in force stays one, and only an import is promoted.
Known ==
    /\ seen.standing = "project" => standing = "project"
    /\ promotes => standing \in Imports \cup {"pending"}

\* A request for what is withdrawn is neither under way, nor can one begin.
WithdrawnStays == withdrawn => entry # "active" /\ ~HeldInTree /\ request # 1

\* Since an operation began while no other was under way.
OneAtATime ==
    ~overlapping => \A a, b \in Admins : op[a] # "idle" /\ op[b] # "idle" => a = b

\* What a removal found when it looked for holders, and then for grants.
Removing(a) == op[a] \in {"holders", "granted", "forget", "forgetlocked", "remove"}
Checked(a) == op[a] \in {"granted", "forget", "forgetlocked", "remove"}

\* A rewrite waits for a request, so none is under way for what is not offered
\* any more once the rewrite has begun.
RemovingStays ==
    ~overlapping =>
        /\ entry = "removed" => ~HeldInTree /\ \A a \in Admins : op[a] = "idle"
        /\ \A a \in Admins : Removing(a) => entry = "withdrawn"
        /\ \A a \in Admins : Checked(a) => ~HeldInTree
        /\ entry # "active" /\ (\A a \in Admins : op[a] # "withdraw") => request # 1

\* A grant that is there by then was made by hand, or by a pass that came too late.
LookedStays ==
    /\ standing = "none" /\ granted => stray
    /\ ~overlapping /\ (entry = "removed" \/ Looked) /\ granted => stray

IInv ==
    /\ AvailabilityTypeOK
    /\ Locked /\ Known /\ WithdrawnStays
    /\ OneAtATime /\ RemovingStays /\ LookedStays

\* The service starts with an entry offered and nobody at work.
LEMMA InvInit ==
    ASSUME AvailabilityAssumption
    PROVE  AvailabilityInit => IInv
<1> SUFFICES ASSUME AvailabilityInit PROVE IInv
    OBVIOUS
<1>1. 0 \in 0..MaxOperations /\ 0 \in 0..MaxRefusals
    BY DEF AvailabilityAssumption
<1>2. op \in [Admins -> AdminSteps] /\ \A a \in Admins : op[a] = "idle"
    BY DEF AvailabilityInit, AdminSteps
<1>3. standing \in Standings /\ held \in Amounts /\ stray \in BOOLEAN
    BY DEF AvailabilityInit, Standings, Imports, Amounts, NoKey
<1>4. seen \in [standing : Standings, held : Amounts]
    BY DEF AvailabilityInit, Unseen, Standings, Amounts, NoKey
<1>5. AvailabilityTypeOK
    BY <1>1, <1>2, <1>3, <1>4 DEF AvailabilityInit, AvailabilityTypeOK, Amounts, NoKey, Free
<1>6. Locked /\ Known /\ WithdrawnStays /\ OneAtATime
    BY <1>2 DEF AvailabilityInit, Locked, Known, WithdrawnStays, OneAtATime, Unseen, NoKey, Free
<1>7. RemovingStays /\ LookedStays
    BY <1>2 DEF AvailabilityInit, RemovingStays, LookedStays, Removing, Checked, Looked, NoKey
<1>8. QED
    BY <1>5, <1>6, <1>7 DEF IInv

\* An admin begins one of the three operations.
LEMMA InvStarts ==
    ASSUME AvailabilityAssumption, IInv, NEW a \in Admins,
           StartWithdraw(a) \/ StartRestore(a) \/ StartRemove(a)
    PROVE  IInv'
<1> USE DEF IInv
<1>1. Starts(a)
    BY DEF StartWithdraw, StartRestore, StartRemove
<1>2. /\ op' \in [Admins -> AdminSteps] /\ op'[a] \in {"withdraw", "adopt", "holders"}
      /\ \A b \in Admins \ {a} : op'[b] = op[b]
    BY DEF StartWithdraw, StartRestore, StartRemove, Goes, AvailabilityTypeOK, AdminSteps
<1>3. operations' \in 0..MaxOperations
    BY <1>1 DEF Starts, AvailabilityAssumption, AvailabilityTypeOK
<1>4. UNCHANGED <<inTree, openStack, asking, passing>>
    BY DEF StartWithdraw, StartRestore, StartRemove
<1>5. AvailabilityTypeOK'
  <2>1. overlapping' \in BOOLEAN /\ withdrawn' \in BOOLEAN
      BY <1>1, Zenon DEF Starts, StartWithdraw, StartRestore, StartRemove, AvailabilityTypeOK
  <2>2. entry' \in {"active", "withdrawn", "removed"} /\ UNCHANGED <<root, refusals>>
      BY DEF StartWithdraw, StartRestore, StartRemove
  <2>3. QED
      BY <1>2, <1>3, <1>4, <2>1, <2>2
         DEF AvailabilityTypeOK, inTree, openStack, asking, passing
<1>6. Locked' /\ Known'
    BY <1>2, <1>4 DEF Locked, Known, inTree, asking, passing
<1>7. WithdrawnStays'
    BY <1>4 DEF WithdrawnStays, HeldInTree, inTree, asking, StartWithdraw, StartRestore, StartRemove
<1>8. ~overlapping' => ~overlapping /\ \A b \in Admins : op[b] = "idle"
    BY <1>1 DEF Starts, AvailabilityTypeOK
<1>9. OneAtATime'
    BY <1>2, <1>8 DEF OneAtATime
<1>10. HeldInTree' = HeldInTree /\ request' = request
    BY <1>4 DEF HeldInTree, inTree, asking
<1>11. RemovingStays'
  <2> HIDE DEF HeldInTree
  <2>1. CASE StartWithdraw(a)
      BY <1>2, <1>8, <1>10, <2>1 DEF StartWithdraw, Goes, AvailabilityTypeOK, RemovingStays,
             Removing, Checked
  <2>2. CASE StartRestore(a)
      BY <1>2, <1>8, <1>10, <2>2 DEF StartRestore, Goes, AvailabilityTypeOK, RemovingStays,
             Removing, Checked
  <2>3. CASE StartRemove(a)
      BY <1>2, <1>8, <1>10, <2>3 DEF StartRemove, Goes, AvailabilityTypeOK, RemovingStays,
             Removing, Checked
  <2>4. QED
      BY <2>1, <2>2, <2>3
<1>12. LookedStays'
    BY <1>2, <1>4, <1>8 DEF LookedStays, Looked, inTree, openStack, StartWithdraw, StartRestore,
           StartRemove
<1>13. QED
    BY <1>5, <1>6, <1>7, <1>9, <1>11, <1>12

\* Each step of an operation but its first.
LEMMA InvAdmin ==
    ASSUME AvailabilityAssumption, IInv, NEW a \in Admins, AdminStep(a)
    PROVE  IInv'
<1> USE DEF AvailabilityAssumption, IInv, AvailabilityTypeOK, AdminSteps, Locked, WithdrawnStays,
        OneAtATime, RemovingStays, LookedStays, Removing, Checked, Looked, Comes, Goes, Takes,
        Refusal, Free, NoKey, Amounts, HeldInTree, Known, inTree, openStack, asking, passing, history
<1>1. CASE LockRewrite(a)
    BY <1>1 DEF LockRewrite
<1>2. CASE Rewrite(a)
  <2>1. lock = a /\ request = NoKey /\ op' \in [Admins -> AdminSteps] /\ op'[a] = "idle"
        /\ \A b \in Admins \ {a} : op'[b] = op[b] /\ op[b] # "rewrite"
      BY <1>2 DEF Rewrite
  <2>2. root' \in {0, 1, NoKey} /\ held' \in {0, 1, NoKey} /\ (held' = 1 => held = 1)
      BY <1>2 DEF Rewrite, Rewritten
  <2>3. refusals' \in 0..MaxRefusals
      BY <1>2 DEF Rewrite
  <2>4. AvailabilityTypeOK'
    <3>1. /\ lock' = Free /\ withdrawn' \in BOOLEAN
          /\ UNCHANGED <<entry, standing, openStack, request, promotes, passing, overlapping,
               operations>>
        BY <1>2, Zenon DEF Rewrite
    <3> HIDE DEF Locked, Known, WithdrawnStays, OneAtATime, RemovingStays, LookedStays, Looked
    <3>2. QED
        BY <2>1, <2>2, <2>3, <3>1
  <2>5. Locked' /\ Known'
      BY <1>2, <2>1 DEF Rewrite
  <2>6. WithdrawnStays'
    <3>1. Rewritten(held, 0) # 1
        BY DEF Rewritten
    <3>2. \/ held' # 1 /\ withdrawn' = (entry = "withdrawn")
          \/ UNCHANGED withdrawn
        BY <1>2, <3>1, Zenon DEF Rewrite
    <3>3. withdrawn' => withdrawn \/ (entry = "withdrawn" /\ held' # 1)
        BY <3>2, Zenon
    <3>4. QED
        BY <1>2, <2>1, <2>2, <3>3 DEF Rewrite
  <2>7. OneAtATime'
      BY <1>2, <2>1 DEF Rewrite
  <2>8. RemovingStays'
      BY <1>2, <2>1, <2>2 DEF Rewrite
  <2>9. LookedStays'
      BY <1>2, <2>1 DEF Rewrite
  <2> HIDE DEF AvailabilityTypeOK, Locked, Known, WithdrawnStays, OneAtATime, RemovingStays,
         LookedStays
  <2>10. QED
      BY <2>4, <2>5, <2>6, <2>7, <2>8, <2>9
<1>3. CASE LockAdopt(a)
    BY <1>3 DEF LockAdopt
<1>4. CASE Adopt(a)
    BY <1>4 DEF Adopt
<1>5. CASE CheckHolders(a)
    BY <1>5 DEF CheckHolders
<1>6. CASE CheckGranted(a)
    BY <1>6 DEF CheckGranted
<1>7. CASE LockForget(a)
    BY <1>7 DEF LockForget
<1>8. CASE Forget(a)
    BY <1>8 DEF Forget
<1>9. CASE MarkRemoved(a)
    BY <1>9 DEF MarkRemoved
<1>10. QED
    BY <1>1, <1>2, <1>3, <1>4, <1>5, <1>6, <1>7, <1>8, <1>9 DEF AdminStep

\* Requests and passes.
LEMMA InvOthers ==
    ASSUME AvailabilityAssumption, IInv,
           (\E amount \in {0, 1} : BeginRequest(amount)) \/ WriteRequest \/ PassStep \/ GrantByHand
    PROVE  IInv'
<1> USE DEF AvailabilityAssumption, IInv, AvailabilityTypeOK, AdminSteps, Locked, WithdrawnStays,
        OneAtATime, RemovingStays, LookedStays, Removing, Checked, Looked, Takes, Refusal, Free,
        NoKey, Amounts, HeldInTree, Known, inTree, openStack, asking, passing, history
<1> DEFINE PassOK ==
        /\ pass' \in {"idle", "sync", "grant", "store"}
        /\ seen' \in [standing : Standings, held : Amounts]
        /\ offered' \in BOOLEAN /\ reading' \in Amounts
<1>0. PassForgotten => PassOK
  <2>1. Unseen \in [standing : Standings, held : Amounts]
      BY DEF Unseen, Standings
  <2>2. QED
      BY <2>1 DEF PassForgotten
<1>1. CASE \E amount \in {0, 1} : BeginRequest(amount)
  <2>1. PICK amount \in {0, 1} : BeginRequest(amount)
      BY <1>1
  <2>2. QED
      BY <2>1 DEF BeginRequest, Imports
<1>2. CASE WriteRequest
  <2>1. AvailabilityTypeOK'
    <3> HIDE DEF Locked, Known, WithdrawnStays, OneAtATime, RemovingStays, LookedStays, Looked
    <3>1. standing' \in Standings
        BY <1>2 DEF WriteRequest, Standings, Imports
    <3>2. held' \in Amounts /\ lock' = Free /\ request' = NoKey /\ promotes' = FALSE
        BY <1>2 DEF WriteRequest
    <3>3. PassOK
        BY <1>2 DEF WriteRequest
    <3>4. UNCHANGED <<entry, root, openStack, op, history, refusals>>
        BY <1>2 DEF WriteRequest
    <3>5. QED
        BY <3>1, <3>2, <3>3, <3>4
  <2>2. Locked' /\ Known'
      BY <1>2 DEF WriteRequest, Imports
  <2>3. WithdrawnStays' /\ OneAtATime'
      BY <1>2 DEF WriteRequest
  <2>4. RemovingStays'
      BY <1>2 DEF WriteRequest
  <2>5. LookedStays'
      BY <1>2 DEF WriteRequest
  <2> HIDE DEF AvailabilityTypeOK, Locked, Known, WithdrawnStays, OneAtATime, RemovingStays,
         LookedStays
  <2>6. QED
      BY <2>1, <2>2, <2>3, <2>4, <2>5
<1>3. CASE LoadNode
    BY <1>3 DEF LoadNode
<1>4. CASE ReadCatalogue
    BY <1>4 DEF ReadCatalogue
<1>5. CASE GrantOrRevoke
  <2>1. AvailabilityTypeOK'
    <3> HIDE DEF Locked, Known, WithdrawnStays, OneAtATime, RemovingStays, LookedStays, Looked
    <3>1. PassOK
        BY <1>0, <1>5 DEF GrantOrRevoke
    <3>2. granted' \in BOOLEAN /\ stray' \in BOOLEAN
        BY <1>5, Zenon DEF GrantOrRevoke
    <3>3. refusals' \in 0..MaxRefusals
        BY <1>5 DEF GrantOrRevoke
    <3>4. UNCHANGED <<entry, root, inTree, asking, op, history>>
        BY <1>5 DEF GrantOrRevoke
    <3>5. QED
        BY <3>1, <3>2, <3>3, <3>4
  <2>2. Locked' /\ Known'
      BY <1>5 DEF GrantOrRevoke, PassForgotten, Unseen, Standings
  <2>3. WithdrawnStays' /\ OneAtATime'
      BY <1>5 DEF GrantOrRevoke, PassForgotten, Unseen, Standings
  <2>4. RemovingStays'
      BY <1>5 DEF GrantOrRevoke, PassForgotten, Unseen, Standings
  <2>5. LookedStays'
      BY <1>5 DEF GrantOrRevoke, PassForgotten, Unseen, Standings
  <2> HIDE DEF AvailabilityTypeOK, Locked, Known, WithdrawnStays, OneAtATime, RemovingStays,
         LookedStays
  <2>6. QED
      BY <2>1, <2>2, <2>3, <2>4, <2>5
<1>6. CASE Promote
  <2>1. AvailabilityTypeOK'
    <3> HIDE DEF Locked, Known, WithdrawnStays, OneAtATime, RemovingStays, LookedStays, Looked
    <3>1. PassOK
        BY <1>0, <1>6 DEF Promote
    <3>2. QED
        BY <1>6, <3>1 DEF Promote, Standings, Imports
  <2>2. Locked' /\ Known'
      BY <1>6 DEF Promote, PassForgotten, Unseen, Standings, Imports
  <2>3. WithdrawnStays' /\ OneAtATime'
      BY <1>6 DEF Promote, PassForgotten, Unseen, Standings, Imports
  <2>4. RemovingStays'
      BY <1>6 DEF Promote, PassForgotten, Unseen, Standings, Imports
  <2>5. LookedStays'
      BY <1>6 DEF Promote, PassForgotten, Unseen, Standings, Imports
  <2> HIDE DEF AvailabilityTypeOK, Locked, Known, WithdrawnStays, OneAtATime, RemovingStays,
         LookedStays
  <2>6. QED
      BY <2>1, <2>2, <2>3, <2>4, <2>5
<1>7. CASE ImportGrants
    BY <1>7 DEF ImportGrants
<1>8. CASE AddImport
  <2>1. AvailabilityTypeOK'
    <3> HIDE DEF Locked, Known, WithdrawnStays, OneAtATime, RemovingStays, LookedStays, Looked
    <3>1. PassOK
        BY <1>0, <1>8 DEF AddImport
    <3>2. QED
        BY <1>8, <3>1 DEF AddImport, Standings, Imports
  <2>2. Locked' /\ Known'
      BY <1>8 DEF AddImport, PassForgotten, Unseen, Standings, Imports
  <2>3. WithdrawnStays' /\ OneAtATime'
      BY <1>8 DEF AddImport, PassForgotten, Unseen, Standings, Imports
  <2>4. RemovingStays'
      BY <1>8 DEF AddImport, PassForgotten, Unseen, Standings, Imports
  <2>5. LookedStays'
      BY <1>8 DEF AddImport, PassForgotten, Unseen, Standings, Imports
  <2> HIDE DEF AvailabilityTypeOK, Locked, Known, WithdrawnStays, OneAtATime, RemovingStays,
         LookedStays
  <2>6. QED
      BY <2>1, <2>2, <2>3, <2>4, <2>5
<1>9. CASE RefreshImport
  <2>1. AvailabilityTypeOK'
    <3> HIDE DEF Locked, Known, WithdrawnStays, OneAtATime, RemovingStays, LookedStays, Looked
    <3>1. PassOK
        BY <1>0, <1>9 DEF RefreshImport
    <3>2. QED
        BY <1>9, <3>1 DEF RefreshImport, Standings
  <2>2. Locked' /\ Known'
      BY <1>9 DEF RefreshImport, PassForgotten, Unseen, Standings
  <2>3. WithdrawnStays' /\ OneAtATime'
      BY <1>9 DEF RefreshImport, PassForgotten, Unseen, Standings
  <2>4. RemovingStays'
      BY <1>9 DEF RefreshImport, PassForgotten, Unseen, Standings
  <2>5. LookedStays'
      BY <1>9 DEF RefreshImport, PassForgotten, Unseen, Standings
  <2> HIDE DEF AvailabilityTypeOK, Locked, Known, WithdrawnStays, OneAtATime, RemovingStays,
         LookedStays
  <2>6. QED
      BY <2>1, <2>2, <2>3, <2>4, <2>5
<1>10. CASE GrantByHand
    BY <1>10 DEF GrantByHand
<1>11. QED
    BY <1>1, <1>2, <1>3, <1>4, <1>5, <1>6, <1>7, <1>8, <1>9, <1>10 DEF PassStep

\* Each group of steps has its lemma above.
LEMMA InvStep ==
    ASSUME AvailabilityAssumption, IInv, [AvailabilityNext]_availabilityVars
    PROVE  IInv'
<1>1. CASE AvailabilityNext
    BY <1>1, InvStarts, InvAdmin, InvOthers DEF AvailabilityNext
<1>2. CASE UNCHANGED availabilityVars
    BY <1>2 DEF availabilityVars, IInv, AvailabilityTypeOK, Locked, Known, WithdrawnStays,
           OneAtATime, RemovingStays, LookedStays, Removing, Checked, Looked, HeldInTree, inTree,
           openStack, asking, passing, history
<1>3. QED
    BY <1>1, <1>2

\* After a withdrawal no project holds the availability, whatever requests, passes
\* and promotions of imports were under way, and none will before it is offered
\* again; an import may, as the next pass writes what it is granted by hand. And
\* what a root admin removed is held by none but an import, and granted to none but
\* by hand or by a pass that came too late, as long as no two admins operated on it
\* at a time (Withdraw, Remove of catalog/admin.go; RefreshImport).
THEOREM TakenAlways ==
    ASSUME AvailabilityAssumption
    PROVE  AvailabilitySpec => []TakenFromAll
<1>1. IInv => TakenFromAll
    BY DEF IInv, WithdrawnStays, RemovingStays, LookedStays, TakenFromAll, WithdrawnFromAll,
           RemovedFromAll
<1>2. QED
    BY InvInit, InvStep, <1>1, PTL DEF AvailabilitySpec

=============================================================================
