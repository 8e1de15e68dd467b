---------------------------- MODULE Quotas_proofs ----------------------------
(***************************************************************************)
(* Proofs about Quotas, for any resources, limits, measurements, number of *)
(* projects and of calls that fail.                                        *)
(*                                                                         *)
(* What a pass writes as the errors of the node is the sum of what its     *)
(* steps did before: Accounted says that whatever is not on the list of    *)
(* failures yet, and was looked at, is as the limit asks. It holds of the  *)
(* project the pass works on, which can only go meanwhile (Works), so that *)
(* nothing else has to be known of it.                                     *)
(***************************************************************************)
EXTENDS Quotas, FiniteSetTheorems, TLAPS

QuotasSpec == QuotasInit /\ [][QuotasNext]_quotasVars

-----------------------------------------------------------------------------
(* Conversions *)

\* toOSQuota: no limit stays no limit and nothing else becomes one, and a product
\* that leaves the range of a quota is cut off instead of wrapping around.
LEMMA ToOSQuotaInRange ==
    ASSUME QuotasAssumption, NEW v \in Int, NEW m \in Nat \ {0}
    PROVE  /\ ToOSQuota(v, m) \in Unlimited..MaxOSQuota
           /\ ToOSQuota(v, m) = Unlimited <=> v = Unlimited
           /\ v >= 0 => ToOSQuota(v, m) <= v * m
<1> MaxOSQuota \in Nat
    BY DEF QuotasAssumption
<1>1. CASE v <= 0
    BY <1>1 DEF ToOSQuota, Unlimited
<1>2. CASE v > MaxOSQuota \div m
    <2>1. v * m > MaxOSQuota
        BY <1>2
    <2>2. QED
        BY <1>2, <2>1 DEF ToOSQuota, Unlimited
<1>3. CASE v > 0 /\ v <= MaxOSQuota \div m
    <2>1. v * m <= MaxOSQuota
        BY <1>3
    <2>2. v * m \in Nat
        BY <1>3
    <2>3. ToOSQuota(v, m) = v * m
        BY <1>3 DEF ToOSQuota, Unlimited
    <2>4. QED
        BY <1>3, <2>1, <2>2, <2>3 DEF Unlimited
<1>4. QED
    BY <1>1, <1>2, <1>3

\* ProjectQuotaToQuotaSet, ProjectInUse: a limit and a use, each in its units.
LEMMA Converted ==
    ASSUME QuotasAssumption, NEW w \in Wants, NEW u \in Uses
    PROVE  /\ QuotaSet(w.limit) \in [Counts -> Unlimited..MaxOSQuota]
           /\ InUse(u) \in [Counts -> Nat]
           /\ UseOfGrants(u) \in [Avail -> Nat]
           /\ Overcommitted(w.limit, u) \in BOOLEAN
<1>1. QuotaSet(w.limit) \in [Counts -> Unlimited..MaxOSQuota]
    <2>1. \A c \in Counts : w.limit[c] \in Int /\ Multiplier[c] \in Nat \ {0}
        BY DEF QuotasAssumption
    <2>2. QED
        BY <2>1, ToOSQuotaInRange DEF QuotaSet
<1>2. InUse(u) \in [Counts -> Nat]
    <2>1. \A c \in Counts : u[c] \in Nat /\ Multiplier[c] \in Nat \ {0}
        BY DEF QuotasAssumption
    <2>2. ASSUME NEW c \in Counts
          PROVE  u[c] \div Multiplier[c] \in Nat
        BY <2>1
    <2>3. QED
        BY <2>2 DEF InUse
<1>3. UseOfGrants(u) \in [Avail -> Nat]
    BY DEF QuotasAssumption, UseOfGrants
<1>4. Overcommitted(w.limit, u) \in BOOLEAN
    BY DEF Overcommitted
<1>5. QED
    BY <1>1, <1>2, <1>3, <1>4

-----------------------------------------------------------------------------
(* Types *)

\* The ids are given out in order, and no project has none.
LEMMA ProjectIds ==
    ASSUME QuotasAssumption
    PROVE  /\ NoProject \notin Projects
           /\ \A n \in {NoProject} \cup Projects :
                n < Cardinality(Projects) => n + 1 \in Projects
BY FS_CardinalityType DEF QuotasAssumption, NoProject

\* A node in force, and no project yet.
LEMMA TypeInit ==
    ASSUME QuotasAssumption
    PROVE  QuotasInit => QuotasTypeOK
<1> SUFFICES ASSUME QuotasInit PROVE QuotasTypeOK
    OBVIOUS
<1>1. 0 \in 0..MaxEdits /\ 0 \in 0..MaxMishaps /\ 0 \in Unlimited..MaxOSQuota
    BY DEF QuotasAssumption, Unlimited
<1>2. /\ quota \in [Counts -> Unlimited..MaxOSQuota]
      /\ grants \in [Projects -> [Avail -> {"none", "pending", "yes"}]]
    BY <1>1 DEF QuotasInit, NoGrants
<1>3. QED
    BY <1>1, <1>2 DEF QuotasInit, QuotasTypeOK, QuotaSteps, NoProject

\* A call that fails is counted, within the bound.
LEMMA MishapsBounded ==
    ASSUME QuotasAssumption, QuotasTypeOK, Mishap \/ Smooth
    PROVE  mishaps' \in 0..MaxMishaps
BY DEF QuotasAssumption, QuotasTypeOK, Mishap, Smooth

\* An availability is granted, revoked or half granted to the project of the pass.
LEMMA GrantWritten ==
    ASSUME QuotasTypeOK, NEW p \in Projects, NEW a \in Avail,
           NEW state \in {"none", "pending", "yes"}, grants' = [grants EXCEPT ![p][a] = state]
    PROVE  /\ grants' \in [Projects -> [Avail -> {"none", "pending", "yes"}]]
           /\ grants'[p][a] = state
           /\ \A b \in Avail \ {a} : grants'[p][b] = grants[p][b]
<1>1. grants[p] \in [Avail -> {"none", "pending", "yes"}]
    BY DEF QuotasTypeOK
<1>2. QED
    BY <1>1 DEF QuotasTypeOK

\* Every step of a pass, of people and of OpenStack writes what there is room for.
LEMMA TypeLoads ==
    ASSUME QuotasAssumption, QuotasTypeOK,
           LoadLeaf \/ ReadGrantUse \/ CreateProject \/ FillNothing \/ RecordProject
           \/ GrantsDone \/ RecordSyncErrors \/ ProjectDeleted \/ RevokesDone \/ EndQuotaPass
           \/ Edit \/ DeletedByHand \/ CrashInPass
    PROVE  QuotasTypeOK'
<1>0. edits \in 0..MaxEdits /\ mishaps \in 0..MaxMishaps
    BY DEF QuotasTypeOK
<1> USE DEF Step, openstack, loaded, quotaPass
<1>1. CASE LoadLeaf
    BY <1>1 DEF LoadLeaf, QuotasTypeOK, QuotaSteps
<1>2. CASE ReadGrantUse
    <2>1. grantUse' \in [Avail -> Nat] \cup {NotMeasured}
        BY <1>2, Converted DEF ReadGrantUse, QuotasTypeOK
    <2>2. QED
        BY <1>2, <2>1, MishapsBounded DEF ReadGrantUse, QuotasTypeOK, QuotaSteps
<1>3. CASE CreateProject
    <2>1. made + 1 \in Projects
        BY <1>3, ProjectIds DEF CreateProject, QuotasTypeOK
    <2>2. quota' \in [Counts -> Unlimited..MaxOSQuota]
        BY <1>3 DEF CreateProject, Unlimited, QuotasAssumption
    <2>3. QED
        BY <1>3, <2>1, <2>2 DEF CreateProject, QuotasTypeOK, QuotaSteps
<1>4. CASE FillNothing
    BY <1>4 DEF FillNothing, QuotasTypeOK, QuotaSteps
<1>5. CASE RecordProject
    BY <1>5, MishapsBounded DEF RecordProject, QuotasTypeOK, QuotaSteps
<1>6. CASE GrantsDone
    BY <1>6 DEF GrantsDone, QuotasTypeOK, QuotaSteps
<1>7. CASE RecordSyncErrors
    BY <1>7, MishapsBounded DEF RecordSyncErrors, QuotasTypeOK, QuotaSteps
<1>8. CASE ProjectDeleted
    BY <1>8 DEF ProjectDeleted, QuotasTypeOK, QuotaSteps
<1>9. CASE RevokesDone \/ EndQuotaPass
    BY <1>9 DEF RevokesDone, EndQuotaPass, QuotasTypeOK, QuotaSteps
<1>10. CASE Edit
    <2>1. edits' \in 0..MaxEdits
        BY <1>0, <1>10 DEF Edit, QuotasAssumption
    <2>2. want' \in Wants /\ used' \in Uses /\ inForce' \in BOOLEAN
        BY <1>10 DEF Edit, QuotasTypeOK
    <2>3. UNCHANGED <<node, project, made, quota, static, grants, at, leaf, retired, target, listed,
                      grantUse, measured, todo, failing, attempted, mishaps>>
        BY <1>10 DEF Edit
    <2>4. QED
        BY <2>1, <2>2, <2>3 DEF QuotasTypeOK
<1>11. CASE DeletedByHand
    BY <1>11, MishapsBounded DEF DeletedByHand, QuotasTypeOK
<1>12. CASE CrashInPass
    BY <1>12, MishapsBounded DEF CrashInPass, QuotasTypeOK, QuotaSteps
<1>13. QED
    BY <1>1, <1>2, <1>3, <1>4, <1>5, <1>6, <1>7, <1>8, <1>9, <1>10, <1>11, <1>12

\* The quotas are set, and the use measured and recorded.
LEMMA TypeQuotas ==
    ASSUME QuotasAssumption, QuotasTypeOK,
           FillQuotas \/ UpdateQuota("compute", "block") \/ UpdateQuota("block", "measure")
           \/ Measure \/ RecordObservation
    PROVE  QuotasTypeOK'
<1> USE DEF Step, openstack, loaded
<1>1. QuotaSet(leaf.limit) \in [Counts -> Unlimited..MaxOSQuota]
    BY Converted DEF QuotasTypeOK
<1>2. CASE FillQuotas
    <2>1. quota' \in [Counts -> Unlimited..MaxOSQuota] /\ static' \in BOOLEAN
        BY <1>1, <1>2 DEF FillQuotas, QuotasTypeOK
    <2>2. QED
        BY <1>2, <2>1, MishapsBounded DEF FillQuotas, QuotasTypeOK, QuotaSteps
<1>3. ASSUME NEW service \in {"compute", "block"}, NEW next \in {"block", "measure"},
             UpdateQuota(service, next)
      PROVE  QuotasTypeOK'
    <2>1. quota' \in [Counts -> Unlimited..MaxOSQuota]
        BY <1>1, <1>3 DEF UpdateQuota, QuotasTypeOK
    <2>2. failing' \subseteq Resources /\ attempted' \subseteq Resources
        BY <1>3 DEF UpdateQuota, QuotasTypeOK, Resources
    <2>3. QED
        BY <1>3, <2>1, <2>2, MishapsBounded DEF UpdateQuota, QuotasTypeOK, QuotaSteps
<1>4. CASE Measure
    <2>1. measured' \in Measurements \cup {NotMeasured}
        BY <1>4, Converted DEF Measure, QuotasTypeOK, Measurements
    <2>2. mishaps' \in 0..MaxMishaps
        BY <1>4, MishapsBounded DEF Measure
    <2>3. QED
        BY <1>4, <2>1, <2>2 DEF Measure, QuotasTypeOK, QuotaSteps
<1>5. CASE RecordObservation
    <2>1. Observed \in Measurements \cup {NotMeasured}
        <3>1. node.seen \in Measurements \cup {NotMeasured}
            BY DEF QuotasTypeOK
        <3>2. ASSUME measured # NotMeasured, measured.grantUse = NotMeasured,
                     node.seen # NotMeasured
              PROVE  [measured EXCEPT !.grantUse = node.seen.grantUse] \in Measurements
            BY <3>1, <3>2 DEF QuotasTypeOK, Measurements
        <3>3. QED
            BY <3>1, <3>2 DEF Observed, QuotasTypeOK
    <2>2. node' \in [external : {NoProject} \cup Projects, errors : SUBSET Resources,
                     seen : Measurements \cup {NotMeasured}]
        BY <1>5, <2>1 DEF RecordObservation, QuotasTypeOK
    <2>3. mishaps' \in 0..MaxMishaps
        BY <1>5, MishapsBounded DEF RecordObservation
    <2>4. QED
        BY <1>5, <2>2, <2>3 DEF RecordObservation, QuotasTypeOK, QuotaSteps
<1>6. QED
    BY <1>2, <1>3, <1>4, <1>5

\* syncGrants, revokeGrants and sweepOrphanedGrants, one availability after the other.
LEMMA TypeGrants ==
    ASSUME QuotasAssumption, QuotasTypeOK, NEW a \in Avail,
           SyncGrant(a) \/ RevokeGrant(a) \/ SweepShares(a)
    PROVE  QuotasTypeOK'
<1>1. grants' \in [Projects -> [Avail -> {"none", "pending", "yes"}]]
    <2>1. CASE SweepShares(a)
        <3>1. ASSUME NEW p \in Projects
              PROVE  /\ grants[p] \in [Avail -> {"none", "pending", "yes"}]
                     /\ [grants[p] EXCEPT ![a] = "none"] \in [Avail -> {"none", "pending", "yes"}]
            BY DEF QuotasTypeOK
        <3>2. QED
            BY <2>1, <3>1 DEF SweepShares, QuotasTypeOK
    <2>2. CASE SyncGrant(a) \/ RevokeGrant(a)
        <3>1. \A p \in Projects : grants[p] \in [Avail -> {"none", "pending", "yes"}]
            BY DEF QuotasTypeOK
        <3>2. \/ UNCHANGED grants
              \/ \E state \in {"none", "pending", "yes"} :
                    grants' = [grants EXCEPT ![target][a] = state]
            BY <2>2 DEF SyncGrant, RevokeGrant, AddGrant, RemoveGrant
        <3>3. QED
            BY <3>1, <3>2 DEF QuotasTypeOK
    <2>3. QED
        BY <2>1, <2>2
<1>2. failing' \subseteq Resources
    BY DEF SyncGrant, RevokeGrant, SweepShares, AddGrant, RemoveGrant, QuotasTypeOK, Resources
<1>3. mishaps' \in 0..MaxMishaps
    BY MishapsBounded DEF SyncGrant, RevokeGrant, SweepShares, AddGrant, RemoveGrant
<1>4. QED
    BY <1>1, <1>2, <1>3 DEF SyncGrant, RevokeGrant, SweepShares, QuotasTypeOK, loaded

-----------------------------------------------------------------------------
(* Errors *)

\* The availability is as the pass wants it, on the project it works on, if that
\* is still there.
AsWanted(a) ==
    \/ grants[target][a] = (IF a \in leaf.holds THEN "yes" ELSE "none")
    \/ target # project

\* A pass over a project that is there has one, which no other can become.
Works ==
    /\ at = "read" => listed = target
    /\ at \in {"compute", "block", "measure", "persist", "grants", "errors"} => target \in Projects

\* What was looked at, and is not on the list of failures, is as wanted.
Accounted ==
    /\ at = "grants" => \A a \in Avail \ (todo \cup failing) : AsWanted(a)
    /\ at = "errors" /\ attempted = Resources => \A a \in Avail \ failing : AsWanted(a)

IInv == QuotasTypeOK /\ Works /\ Accounted

\* Nothing has begun.
LEMMA InvInit ==
    ASSUME QuotasAssumption
    PROVE  QuotasInit => IInv
BY TypeInit DEF QuotasInit, IInv, Works, Accounted

\* Outside syncGrants nothing is granted or revoked that the pass still counts on.
LEMMA InvOthers ==
    ASSUME QuotasAssumption, IInv, QuotasTypeOK',
           LoadLeaf \/ ReadGrantUse \/ CreateProject \/ FillQuotas \/ FillNothing \/ RecordProject
           \/ Measure \/ RecordObservation \/ RecordSyncErrors \/ ProjectDeleted \/ RevokesDone
           \/ EndQuotaPass \/ CrashInPass \/ \E a \in Avail : RevokeGrant(a) \/ SweepShares(a)
    PROVE  IInv'
<1> USE DEF Step, loaded, quotaPass, openstack
<1>1. at' # "errors" /\ (at' = "grants" => todo' = Avail)
    BY DEF LoadLeaf, ReadGrantUse, CreateProject, FillQuotas, FillNothing, RecordProject, Measure,
           RecordObservation, RecordSyncErrors, ProjectDeleted, RevokesDone, EndQuotaPass,
           CrashInPass, RevokeGrant, SweepShares
<1>2. Accounted'
    BY <1>1 DEF Accounted
<1>3. Works'
    <2>1. CASE LoadLeaf
        BY <2>1 DEF LoadLeaf, Works
    <2>2. CASE ReadGrantUse
        BY <2>2 DEF ReadGrantUse, Works, IInv, QuotasTypeOK
    <2>3. CASE ~LoadLeaf /\ ~ReadGrantUse
        <3>1. /\ at' # "read"
              /\ at' \in {"compute", "block", "measure", "persist", "grants", "errors"}
                    => /\ at \in {"compute", "block", "measure", "persist", "grants", "errors"}
                       /\ target' = target
            BY <2>3 DEF CreateProject, FillQuotas, FillNothing, RecordProject, Measure,
                   RecordObservation, RecordSyncErrors, ProjectDeleted, RevokesDone, EndQuotaPass,
                   CrashInPass, RevokeGrant, SweepShares
        <3>2. QED
            BY <3>1 DEF Works, IInv
    <2>4. QED
        BY <2>1, <2>2, <2>3
<1>4. QED
    BY <1>2, <1>3 DEF IInv

\* A quota that is refused ends the pass before it comes to the availabilities: it
\* attempted the quotas only.
LEMMA InvUpdate ==
    ASSUME QuotasAssumption, IInv, QuotasTypeOK',
           NEW service \in {"compute", "block"}, NEW next \in {"block", "measure"},
           UpdateQuota(service, next)
    PROVE  IInv'
<1> USE DEF loaded
<1>1. Works'
    BY DEF UpdateQuota, IInv, Works
<1>2. at' = "errors" => attempted' = Counts
    BY DEF UpdateQuota
<1>3. Counts = Resources => Avail = {}
    BY DEF Resources, QuotasAssumption
<1>4. at' # "grants" /\ Resources' = Resources
    BY DEF UpdateQuota, Resources
<1>5. Accounted'
    BY <1>2, <1>3, <1>4 DEF Accounted
<1>6. QED
    BY <1>1, <1>5 DEF IInv

\* What was granted or revoked is as wanted, or on the list.
LEMMA InvSyncGrant ==
    ASSUME QuotasAssumption, IInv, QuotasTypeOK', NEW a \in Avail, SyncGrant(a)
    PROVE  IInv'
<1>1. /\ at = "grants" /\ at' = "grants" /\ todo' = todo \ {a} /\ target \in Projects
      /\ UNCHANGED <<leaf, target, listed, project>>
    BY DEF SyncGrant, IInv, Works, loaded
<1>2. Works'
    BY <1>1 DEF Works
<1>3. \/ /\ a \in failing' /\ failing' = failing \cup {a}
         /\ \A b \in Avail \ {a} : grants'[target][b] = grants[target][b]
      \/ /\ failing' = failing
         /\ grants'[target][a] = (IF a \in leaf.holds THEN "yes" ELSE "none")
         /\ \A b \in Avail \ {a} : grants'[target][b] = grants[target][b]
    BY <1>1, GrantWritten DEF SyncGrant, AddGrant, RemoveGrant, IInv
<1>4. \A b \in Avail \ (todo' \cup failing') : AsWanted(b)'
    BY <1>1, <1>3 DEF IInv, Accounted, AsWanted
<1>5. QED
    BY <1>1, <1>2, <1>4 DEF IInv, Accounted

\* All of them were looked at. And the project of the pass goes, if it goes, for good.
LEMMA InvGoesOn ==
    ASSUME QuotasAssumption, IInv, QuotasTypeOK', GrantsDone \/ Edit \/ DeletedByHand
    PROVE  IInv'
<1> USE DEF Step, loaded, quotaPass, openstack
<1>1. CASE GrantsDone
    BY <1>1 DEF GrantsDone, IInv, Works, Accounted, AsWanted
<1>2. CASE Edit
    BY <1>2 DEF Edit, IInv, Works, Accounted, AsWanted
<1>3. CASE DeletedByHand
    <2>1. at \in {"grants", "errors"} => \A a \in Avail : AsWanted(a)'
        BY <1>3, ProjectIds DEF DeletedByHand, IInv, Works, AsWanted
    <2>2. QED
        BY <1>3, <2>1 DEF DeletedByHand, IInv, Works, Accounted
<1>4. QED
    BY <1>1, <1>2, <1>3

\* Each group of steps has its lemma above.
LEMMA InvStep ==
    ASSUME QuotasAssumption, IInv, [QuotasNext]_quotasVars
    PROVE  IInv'
<1>1. CASE UNCHANGED quotasVars
    <2>1. QuotasTypeOK'
        BY <1>1 DEF quotasVars, openstack, loaded, quotaPass, IInv, QuotasTypeOK
    <2>2. Works' /\ Accounted'
        BY <1>1 DEF quotasVars, openstack, loaded, quotaPass, IInv, Works, Accounted, AsWanted
    <2>3. QED
        BY <2>1, <2>2 DEF IInv
<1>2. CASE QuotasNext
    <2>1. QuotasTypeOK'
        BY <1>2, TypeLoads, TypeQuotas, TypeGrants DEF IInv, QuotasNext, QuotasStep
    <2>2. QED
        BY <1>2, <2>1, InvOthers, InvUpdate, InvSyncGrant, InvGoesOn DEF QuotasNext, QuotasStep
<1>3. QED
    BY <1>1, <1>2

\* What the record of errors on the node says of a pass that reached the
\* availabilities.
ErrorsComplete ==
    (at = "errors" /\ attempted = Resources /\ node' # node) =>
        \A a \in Avail \ node'.errors :
            \/ grants[target][a] = IF a \in leaf.holds THEN "yes" ELSE "none"
            \/ target # project

\* recordSyncErrors: for any availabilities, in whatever order calls failed, and
\* whatever earlier passes left, what is not as the limit asks shows an error on
\* the node.
THEOREM FailuresShown ==
    ASSUME QuotasAssumption
    PROVE  QuotasSpec => NothingFailsSilently
<1>1. ASSUME IInv, [QuotasNext]_quotasVars
      PROVE  ErrorsComplete
    <2>1. SUFFICES ASSUME at = "errors", attempted = Resources, node' # node,
                          NEW a \in Avail, a \notin node'.errors
                   PROVE  AsWanted(a)
        BY DEF ErrorsComplete, AsWanted
    <2>2. RecordSyncErrors
        BY <1>1, <2>1 DEF QuotasNext, QuotasStep, quotasVars, Step, LoadLeaf, ReadGrantUse,
               CreateProject, FillQuotas, FillNothing, RecordProject, UpdateQuota, Measure,
               RecordObservation, SyncGrant, RevokeGrant, SweepShares, GrantsDone, ProjectDeleted,
               RevokesDone, EndQuotaPass, Edit, DeletedByHand, CrashInPass
    <2>3. a \notin failing
        BY <1>1, <2>1, <2>2 DEF RecordSyncErrors, IInv, QuotasTypeOK
    <2>4. QED
        BY <1>1, <2>1, <2>3 DEF IInv, Accounted
<1>2. IInv /\ [QuotasNext]_quotasVars => [ErrorsComplete]_quotasVars
    BY <1>1
<1>3. QED
    BY <1>2, InvInit, InvStep, PTL DEF QuotasSpec, NothingFailsSilently, ErrorsComplete

\* Every variable keeps its type; for a quota that is the range of the field in
\* OpenStack, whatever limit is multiplied with whatever unit.
THEOREM QuotasTyped ==
    ASSUME QuotasAssumption
    PROVE  QuotasSpec => []QuotasTypeOK
BY InvInit, InvStep, PTL DEF QuotasSpec, IInv

=============================================================================
