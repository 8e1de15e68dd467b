------------------------------ MODULE Lab_proofs ------------------------------
(***************************************************************************)
(* Proofs about Lab, for any resources, limits, grace period and number of *)
(* changes and faults.                                                     *)
(*                                                                         *)
(* A pass works on the node as it loaded it. As long as nothing changes,   *)
(* what it loaded is the node (SeenAsItIs), and a pass that loaded none    *)
(* loaded none because there was none to carry out (NoneToCarryOut). Both  *)
(* hold although the pass itself writes to the node: it does so only with  *)
(* a leaf (Carries), after its last look at it.                            *)
(***************************************************************************)
EXTENDS Lab, TLAPS

LabSpec == LabInit /\ [][LabNext]_labVars

\* Only a pass with a leaf gets to what is done for one.
Carries == step \in {"carry", "remove", "unbind", "record"} => leaf # NoProject

SeenAsItIs ==
    step \in {"list", "budgets", "carry"} /\ leaf # NoProject /\ ~changed => leaf = NodeNow

NoneToCarryOut ==
    step # "idle" /\ leaf = NoProject /\ ~changed
        => ~(status \in CarriedOut /\ Concerns(limit, bound))

LabInv == LabTypeOK /\ Carries /\ SeenAsItIs /\ NoneToCarryOut

-----------------------------------------------------------------------------
(* What is sent *)

\* A node is told apart from none, and so is a project over there.
LEMMA NodeIsOne ==
    /\ NodeNow # NoProject
    /\ \A n, i : Wanted(n, i) # NoProject
<1>1. DOMAIN NoProject = {"none"}
    BY DEF NoProject
<1>2. NodeNow # NoProject
    <2>1. "status" \in DOMAIN NodeNow
        BY DEF NodeNow
    <2> QED BY <1>1, <2>1
<1>3. ASSUME NEW n, NEW i PROVE Wanted(n, i) # NoProject
    <2>1. "ends" \in DOMAIN Wanted(n, i)
        BY DEF Wanted
    <2> QED BY <1>1, <2>1
<1> QED BY <1>2, <1>3

\* Of every limit the client sends an amount, or leaves it out.
LEMMA SentIsAmount ==
    ASSUME LabAssumption, NEW l \in Limits
    PROVE  ProjectFor(l) \in [LabResources -> Nat \cup {NotSent}]
<1> SUFFICES ASSUME NEW r \in LabResources PROVE Sent(r, l[r]) \in Nat \cup {NotSent}
    BY DEF ProjectFor
<1>1. l[r] \in Nat \cup {-1}
    BY DEF LabAssumption, Unlimited
<1>2. Kind[r] \in {"window", "rate", "pool", "storage", "model", "gpus"}
    BY DEF LabAssumption
<1>3. CASE l[r] = 0
    BY <1>3 DEF Sent
<1>4. CASE l[r] # 0 /\ Kind[r] = "window"
    BY <1>1, <1>4 DEF Sent, Unlimited, NoCap
<1>5. CASE l[r] # 0 /\ Kind[r] \in {"rate", "storage", "pool"}
    BY <1>1, <1>5 DEF Sent, Unlimited, Much
<1>6. CASE l[r] # 0 /\ Kind[r] = "model"
    BY <1>6 DEF Sent
<1>7. CASE l[r] # 0 /\ Kind[r] = "gpus"
    BY <1>1, <1>7 DEF Sent
<1> QED BY <1>2, <1>3, <1>4, <1>5, <1>6, <1>7

\* What a pass asks for of a node it loaded is a project over there.
LEMMA WantedIsProject ==
    ASSUME LabAssumption, LabTypeOK, NEW n \in Nodes, NEW i \in 0..1
    PROVE  Wanted(n, i) \in LabProjects
<1>1. ProjectFor(n.limit) \in [LabResources -> Nat \cup {NotSent}]
    BY SentIsAmount DEF Nodes
<1>2. n.end \in Int /\ n.released \in Int /\ today \in Int /\ Grace \in Int
    BY DEF Nodes, Days, NoDay, LabAssumption, LabTypeOK
<1>3. EndOf(n) \in Int
    BY <1>2 DEF EndOf
<1>4. DeleteAt(n) \in Int
    BY <1>2, <1>3 DEF DeleteAt, NoDay
<1>5. (IF n.status \in Retired THEN today - 1 ELSE n.end) \in Int
    BY <1>2
<1> QED BY <1>1, <1>4, <1>5 DEF Wanted, LabProjects

-----------------------------------------------------------------------------
(* The invariant *)

\* A node that waits for its approval, and no pass.
LEMMA LabInvInit ==
    ASSUME LabAssumption
    PROVE  LabInit => LabInv
<1> SUFFICES ASSUME LabInit PROVE LabInv
    OBVIOUS
<1>1. 0 \in Days /\ 0 \in 0..MaxChanges /\ 0 \in 0..MaxFaults
    BY DEF LabAssumption, Days
<1>2. /\ status \in InForce \cup Retired \cup {"pending", "gone"}
      /\ step \in {"idle", "list", "budgets", "carry", "record", "remove", "unbind", "orphans"}
    BY DEF LabInit
<1>3. /\ limit \in Limits /\ proposed \in Limits
      /\ end \in Days \cup {NoDay} /\ released \in Days \cup {NoDay}
      /\ terms \in 0..1
    BY <1>1 DEF LabInit
<1>b. asked \in BOOLEAN /\ leaving \in BOOLEAN /\ there \in BOOLEAN /\ changed \in BOOLEAN
    <2>1. asked = FALSE /\ leaving = FALSE /\ there = FALSE /\ changed = FALSE
        BY DEF LabInit
    <2> QED BY <2>1, Zenon
<1>4. /\ bound \subseteq {"lab", "openstack"} /\ today \in Days
      /\ lab = NoProject /\ leaf = NoProject
    BY <1>1 DEF LabInit
<1>5. /\ chain \in 0..1
      /\ changes \in 0..MaxChanges /\ faults \in 0..MaxFaults
    BY <1>1 DEF LabInit
<1>6. LabTypeOK
    BY <1>2, <1>3, <1>b, <1>4, <1>5 DEF LabTypeOK
<1> QED BY <1>6 DEF LabInit, LabInv, Carries, SeenAsItIs, NoneToCarryOut

\* What people, OpenStack and the calendar do; a pass that is under way knows
\* no better.
TreeStep ==
    \/ Approve \/ ProposeChange \/ DecideChange \/ ChangeEnd \/ ChangeTerms \/ Release
    \/ AskDeletion \/ OpenStackCarriesOut \/ Archive
    \/ OpenStackRemoves /\ Deletable("openstack")

\* The reconciler leaves a node to the AI service.
OpenStackLeaves ==
    \/ OpenStackRemoves /\ ~Deletable("openstack")
    \/ OpenStackUnbinds

\* Each of them is noticed as a change, and leaves the pass alone.
LEMMA TreeStepChanges ==
    ASSUME TreeStep
    PROVE  changed' = TRUE /\ UNCHANGED <<leaving, lab, today, step, leaf, there, chain, faults>>
BY DEF TreeStep, Approve, ProposeChange, DecideChange, ChangeEnd, ChangeTerms, Release,
       AskDeletion, OpenStackCarriesOut, Archive, OpenStackRemoves, Change, UnchangedLab

\* What they write is typed.
LEMMA TreeStepTyped ==
    ASSUME LabAssumption, LabTypeOK, TreeStep
    PROVE  /\ status' \in InForce \cup Retired \cup {"pending", "gone"}
           /\ limit' \in Limits /\ proposed' \in Limits
           /\ end' \in Days \cup {NoDay} /\ released' \in Days \cup {NoDay}
           /\ asked' \in BOOLEAN /\ terms' \in 0..1
           /\ bound' \subseteq {"lab", "openstack"}
           /\ changes' \in 0..MaxChanges
<1> USE DEF LabTypeOK, Change
<1>c. changes < MaxChanges => changes + 1 \in 0..MaxChanges
    BY DEF LabAssumption
<1>1. CASE Approve
    BY <1>1, <1>c DEF Approve, InForce
<1>2. CASE ProposeChange
    BY <1>2, <1>c DEF ProposeChange, InForce
<1>3. CASE DecideChange
    BY <1>3, <1>c DEF DecideChange, InForce
<1>4. CASE ChangeEnd
    BY <1>4, <1>c DEF ChangeEnd
<1>5. CASE ChangeTerms
    BY <1>5, <1>c DEF ChangeTerms
<1>6. CASE Release
    BY <1>6, <1>c DEF Release, Retired
<1>7. CASE AskDeletion
    BY <1>7, <1>c DEF AskDeletion
<1>8. CASE OpenStackCarriesOut
    BY <1>8, <1>c DEF OpenStackCarriesOut, node
<1>9. CASE Archive
    BY <1>9 DEF Archive, Retired
<1>10. CASE OpenStackRemoves /\ Deletable("openstack")
    BY <1>10 DEF OpenStackRemoves, Deleted
<1> QED BY <1>1, <1>2, <1>3, <1>4, <1>5, <1>6, <1>7, <1>8, <1>9, <1>10 DEF TreeStep

\* Load: from here on the pass has the node as it is, or none to carry out.
LEMMA LoadKeeps ==
    ASSUME LabInv, Load
    PROVE  LabInv'
<1> USE DEF LabInv, Load, UnchangedTree, node
<1>1. CASE status \in CarriedOut /\ Concerns(limit, bound)
    <2>1. leaf' = NodeNow /\ leaf' # NoProject
        BY <1>1, NodeIsOne DEF NodeNow
    <2>2. leaf' \in Nodes
        BY <1>1, <2>1 DEF NodeNow, Nodes, CarriedOut, LabTypeOK
    <2>3. LabTypeOK'
        BY <2>2 DEF LabTypeOK
    <2>4. SeenAsItIs'
        BY <2>1 DEF SeenAsItIs, NodeNow
    <2> QED BY <2>1, <2>3, <2>4 DEF Carries, NoneToCarryOut
<1>2. CASE ~(status \in CarriedOut /\ Concerns(limit, bound))
    <2>1. leaf' = NoProject
        BY <1>2
    <2>2. LabTypeOK'
        BY <2>1 DEF LabTypeOK
    <2>3. NoneToCarryOut'
        BY <1>2 DEF NoneToCarryOut, Concerns, CarriedOut
    <2> QED BY <2>1, <2>2, <2>3 DEF Carries, SeenAsItIs
<1> QED BY <1>1, <1>2

\* A step of the pass that leaves the node and what it loaded alone.
LEMMA PassTyped ==
    ASSUME LabTypeOK, UNCHANGED <<node, leaving, today, leaf, chain, changed, changes>>,
           bound' \subseteq {"lab", "openstack"},
           lab' = NoProject \/ lab' \in LabProjects,
           step' \in {"idle", "list", "budgets", "carry", "record", "remove", "unbind", "orphans"},
           there' \in BOOLEAN, faults' \in 0..MaxFaults
    PROVE  LabTypeOK'
<1>1. /\ (status \in InForce \cup Retired \cup {"pending", "gone"})'
      /\ (limit \in Limits /\ proposed \in Limits)'
      /\ (end \in Days \cup {NoDay} /\ released \in Days \cup {NoDay})'
      /\ (terms \in 0..1 /\ today \in Days)'
    BY DEF LabTypeOK, node
<1>2. (asked \in BOOLEAN /\ leaving \in BOOLEAN /\ changed \in BOOLEAN)'
    BY Zenon DEF LabTypeOK, node
<1>3. /\ (leaf = NoProject \/ leaf \in Nodes)'
      /\ (chain \in 0..1 /\ changes \in 0..MaxChanges)'
    BY DEF LabTypeOK
<1> QED BY <1>1, <1>2, <1>3 DEF LabTypeOK

\* One step per action; those of the pass that write to the node have a leaf.
LEMMA LabInvNext ==
    ASSUME LabAssumption
    PROVE  LabInv /\ [LabNext]_labVars => LabInv'
<1> SUFFICES ASSUME LabInv, [LabNext]_labVars PROVE LabInv'
    OBVIOUS
<1> USE DEF LabInv
<1>f. faults < MaxFaults => faults + 1 \in 0..MaxFaults
    BY DEF LabAssumption, LabTypeOK
<1>1. CASE TreeStep
    <2>1. LabTypeOK'
        BY <1>1, TreeStepTyped, TreeStepChanges DEF LabTypeOK
    <2> QED BY <1>1, <2>1, TreeStepChanges DEF Carries, SeenAsItIs, NoneToCarryOut
<1>2. CASE NextDay
    <2>1. LabTypeOK'
        BY <1>2 DEF NextDay, node, LabTypeOK, Days, LabAssumption
    <2>2. SeenAsItIs' /\ NoneToCarryOut'
        BY <1>2 DEF NextDay, node, SeenAsItIs, NoneToCarryOut, NodeNow, Concerns, CarriedOut
    <2> QED BY <1>2, <2>1, <2>2 DEF NextDay, Carries
<1>3. CASE Load
    BY <1>3, LoadKeeps
<1>4. CASE List
    <2>b. there' \in BOOLEAN
        <3>1. CASE there' = (lab # NoProject)
            BY <3>1
        <3>2. CASE there' = there
            BY <3>2, Zenon DEF LabTypeOK
        <3> QED BY <1>4, <3>1, <3>2 DEF List
    <2>f. faults' \in 0..MaxFaults
        BY <1>4, <1>f DEF List, Fault, LabTypeOK
    <2>s. /\ step' \in {"budgets", "idle"}
          /\ UNCHANGED <<node, bound, leaving, lab, today, leaf, chain, changed, changes>>
        BY <1>4 DEF List, UnchangedTree
    <2>1. LabTypeOK'
        BY <2>b, <2>f, <2>s, PassTyped DEF LabTypeOK
    <2> USE <2>s DEF node
    <2>2. SeenAsItIs' /\ NoneToCarryOut'
        BY <1>4 DEF List, SeenAsItIs, NoneToCarryOut, NodeNow, Concerns, CarriedOut
    <2> QED BY <2>1, <2>2 DEF Carries
<1>5. CASE LoadBudgets
    <2> USE <1>5 DEF LoadBudgets, UnchangedTree, node
    <2>1. LabTypeOK'
        BY DEF LabTypeOK
    <2>2. SeenAsItIs' /\ NoneToCarryOut'
        BY DEF SeenAsItIs, NoneToCarryOut, NodeNow, Concerns, CarriedOut
    <2> QED BY <2>1, <2>2 DEF Carries
<1>6. CASE DeleteRetired
    <2> USE <1>6 DEF DeleteRetired, UnchangedTree, node
    <2>1. leaf # NoProject
        BY DEF Carries
    <2>2. LabTypeOK'
        BY <1>f DEF LabTypeOK, Fault
    <2> QED BY <2>1, <2>2 DEF Carries, SeenAsItIs, NoneToCarryOut
<1>7. CASE RemoveNode
    <2> USE <1>7 DEF RemoveNode, Deleted
    <2>1. leaf # NoProject
        BY DEF Carries
    <2>f. faults' \in 0..MaxFaults
        BY <1>f DEF Fault, LabTypeOK
    <2>s. /\ step' \in {"orphans", "unbind"} /\ status' \in {status, "gone"}
          /\ bound' \subseteq bound
        OBVIOUS
    <2>2. LabTypeOK'
        <3>1. (asked \in BOOLEAN /\ leaving \in BOOLEAN /\ there \in BOOLEAN /\ changed \in BOOLEAN)'
            BY Zenon DEF LabTypeOK
        <3> QED BY <2>f, <2>s, <3>1 DEF LabTypeOK
    <2> QED BY <2>1, <2>2 DEF Carries, SeenAsItIs, NoneToCarryOut
<1>8. CASE DeleteExpired
    <2> USE <1>8 DEF DeleteExpired, UnchangedTree, node
    <2>1. leaf # NoProject
        BY DEF Carries
    <2>2. LabTypeOK'
        BY <1>f DEF LabTypeOK, Fault
    <2> QED BY <2>1, <2>2 DEF Carries, SeenAsItIs, NoneToCarryOut
<1>9. CASE Put
    <2> USE <1>9 DEF Put, UnchangedTree, node
    <2>1. leaf # NoProject
        BY DEF Carries
    <2>2. Wanted(leaf, chain) \in LabProjects
        BY <2>1, WantedIsProject DEF LabTypeOK
    <2>3. LabTypeOK'
        BY <1>f, <2>2 DEF LabTypeOK, Fault
    <2> QED BY <2>1, <2>3 DEF Carries, SeenAsItIs, NoneToCarryOut
<1>10. CASE Record
    <2>1. leaf # NoProject
        BY <1>10 DEF Record, Carries
    <2>f. faults' \in 0..MaxFaults
        BY <1>10, <1>f DEF Record, Fault, LabTypeOK
    <2>s. /\ step' = "orphans" /\ bound' \subseteq bound \cup {"lab"}
          /\ UNCHANGED <<node, leaving, lab, today, leaf, there, chain, changed, changes>>
        BY <1>10 DEF Record
    <2>b. there' \in BOOLEAN
        BY <2>s, Zenon DEF LabTypeOK
    <2>2. LabTypeOK'
        BY <2>b, <2>f, <2>s, PassTyped DEF LabTypeOK
    <2> QED BY <2>1, <2>2, <2>s DEF Carries, SeenAsItIs, NoneToCarryOut
<1>11. CASE DeleteOrphan
    <2> USE <1>11 DEF DeleteOrphan, UnchangedTree, node
    <2>b. there' \in BOOLEAN
        <3>1. there' = FALSE
            OBVIOUS
        <3> QED BY <3>1, Zenon
    <2>1. /\ leaf' = NoProject /\ chain' \in 0..1
          /\ step' \in {"idle", "list", "budgets", "carry", "record", "remove", "unbind", "orphans"}
        OBVIOUS
    <2>2. (lab' = NoProject \/ lab' \in LabProjects) /\ faults' \in 0..MaxFaults
        BY <1>f DEF LabTypeOK, Fault
    <2>3. LabTypeOK'
        BY <2>b, <2>1, <2>2 DEF LabTypeOK
    <2> QED BY <2>1, <2>3 DEF Carries, SeenAsItIs, NoneToCarryOut
<1>12. CASE LabCrash
    <2> USE <1>12 DEF LabCrash, UnchangedTree, node
    <2>b. there' \in BOOLEAN
        <3>1. there' = FALSE
            OBVIOUS
        <3> QED BY <3>1, Zenon
    <2>1. /\ leaf' = NoProject /\ chain' \in 0..1
          /\ step' \in {"idle", "list", "budgets", "carry", "record", "remove", "unbind", "orphans"}
        OBVIOUS
    <2>2. (lab' = NoProject \/ lab' \in LabProjects) /\ faults' \in 0..MaxFaults
        BY <1>f DEF LabTypeOK, Fault
    <2>3. LabTypeOK'
        BY <2>b, <2>1, <2>2 DEF LabTypeOK
    <2> QED BY <2>1, <2>3 DEF Carries, SeenAsItIs, NoneToCarryOut
<1>13. CASE Unbind
    <2>1. leaf # NoProject
        BY <1>13 DEF Unbind, Carries
    <2>f. faults' \in 0..MaxFaults
        BY <1>13, <1>f DEF Unbind, Fault, LabTypeOK
    <2>s. /\ step' = "orphans" /\ bound' \subseteq bound \cup {"lab"}
          /\ UNCHANGED <<node, leaving, lab, today, leaf, there, chain, changed, changes>>
        BY <1>13 DEF Unbind, Unbound
    <2>b. there' \in BOOLEAN
        BY <2>s, Zenon DEF LabTypeOK
    <2>2. LabTypeOK'
        BY <2>b, <2>f, <2>s, PassTyped DEF LabTypeOK
    <2> QED BY <2>1, <2>2, <2>s DEF Carries, SeenAsItIs, NoneToCarryOut
<1>14. CASE OpenStackLeaves
    <2> USE <1>14 DEF OpenStackLeaves, OpenStackRemoves, OpenStackUnbinds, Unbound, node
    <2>b. leaving' \in BOOLEAN
        <3>1. leaving' = TRUE \/ leaving' = FALSE
            OBVIOUS
        <3> QED BY <3>1, Zenon
    <2>1. /\ UNCHANGED <<node, lab, today, step, leaf, there, chain, changed, changes, faults>>
          /\ bound' \subseteq bound /\ ("lab" \in bound' <=> "lab" \in bound)
        OBVIOUS
    <2> HIDE <1>14 DEF OpenStackLeaves, OpenStackRemoves, OpenStackUnbinds, Unbound
    <2>2. LabTypeOK'
        BY <2>b, <2>1 DEF LabTypeOK
    <2>3. SeenAsItIs' /\ NoneToCarryOut'
        BY <2>1 DEF SeenAsItIs, NoneToCarryOut, NodeNow, Concerns, CarriedOut
    <2> QED BY <2>1, <2>2, <2>3 DEF Carries
<1>15. CASE UNCHANGED labVars
    BY <1>15 DEF labVars, node, LabTypeOK, Carries, SeenAsItIs, NoneToCarryOut, NodeNow,
       Concerns, CarriedOut
<1> QED
    BY <1>1, <1>2, <1>3, <1>4, <1>5, <1>6, <1>7, <1>8, <1>9, <1>10, <1>11, <1>12, <1>13, <1>14,
       <1>15
    DEF LabNext, LabStep, TreeStep, OpenStackLeaves

\* Everything that is stored and loaded is of its type, and a leaf that nothing changed
\* meanwhile is the node (Pass of internal/provider/aiaas, which loads the
\* leaves once).
THEOREM LabInvAlways ==
    ASSUME LabAssumption
    PROVE  LabSpec => []LabInv
BY LabInvInit, LabInvNext, PTL DEF LabSpec

-----------------------------------------------------------------------------
(* The project over there *)

\* The only steps that delete a project are those of a leaf that is due, and the one that
\* removes a project without a leaf; both looked at the node.
LEMMA TakenAwayStep ==
    ASSUME LabInv, [LabNext]_labVars, lab # NoProject, lab' = NoProject
    PROVE  \/ changed
           \/ status \in {"pending", "gone"} \/ ~Concerns(limit, bound)
           \/ Expired(NodeNow)
           \/ status \in Retired /\ asked
<1>1. DeleteRetired \/ DeleteExpired \/ Put \/ DeleteOrphan
    BY TreeStepChanges
    DEF LabNext, LabStep, TreeStep, OpenStackRemoves, OpenStackUnbinds, NextDay, Load, List,
        LoadBudgets, RemoveNode, Unbind, Record, LabCrash, labVars
<1>2. CASE DeleteRetired
    <2>1. changed \/ leaf = NodeNow
        BY <1>2 DEF DeleteRetired, LabInv, Carries, SeenAsItIs
    <2>2. leaf.status \in Retired /\ (Expired(leaf) \/ leaf.asked)
        BY <1>2 DEF DeleteRetired, GoesForGood
    <2>3. NodeNow.status = status /\ NodeNow.asked = asked
        BY DEF NodeNow
    <2> QED BY <2>1, <2>2, <2>3
<1>3. CASE DeleteExpired
    <2>1. changed \/ leaf = NodeNow
        BY <1>3 DEF DeleteExpired, LabInv, Carries, SeenAsItIs
    <2> QED BY <1>3, <2>1 DEF DeleteExpired
<1>4. CASE Put
    BY <1>4, NodeIsOne DEF Put
<1>5. CASE DeleteOrphan
    <2>1. leaf = NoProject /\ step # "idle"
        BY <1>5 DEF DeleteOrphan
    <2>2. changed \/ status \notin CarriedOut \/ ~Concerns(limit, bound)
        BY <2>1 DEF LabInv, NoneToCarryOut
    <2> QED BY <2>2 DEF LabInv, LabTypeOK, CarriedOut
<1> QED BY <1>1, <1>2, <1>3, <1>4, <1>5

\* Whatever failed or crashed, and however the pass, the calendar and the other
\* provider interleave, a project in force and not expired is deleted over there
\* by no pass but one that loaded the node before it changed (Pass of the AI
\* service works on its leaves of the start).
THEOREM TakenAwayOnlyStale ==
    ASSUME LabAssumption
    PROVE  LabSpec => NothingTakenAway
<1>1. LabInv /\ [LabNext]_labVars =>
        [(lab # NoProject /\ lab' = NoProject)
            => \/ changed
               \/ status \in {"pending", "gone"} \/ ~Concerns(limit, bound)
               \/ Expired(NodeNow)
               \/ status \in Retired /\ asked]_labVars
    BY TakenAwayStep
<1> QED BY <1>1, LabInvAlways, PTL DEF LabSpec, NothingTakenAway
=============================================================================
