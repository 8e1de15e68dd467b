-------------------------------- MODULE Lab --------------------------------
(***************************************************************************)
(* The AI service as a second provider of the tree (provider/aiaas): its   *)
(* pass carries the projects that hold workspaces or language models out   *)
(* over there, ends them with their nodes, deletes them after a grace      *)
(* period, and removes the node when no other provider carries it out.     *)
(*                                                                         *)
(* One project, which OpenStack may carry out as well. A pass is several   *)
(* calls, any of which may fail, on what it loaded at its start; the tree  *)
(* and the calendar go on meanwhile. Passes are one after the other.       *)
(***************************************************************************)
EXTENDS Integers

CONSTANTS
    Kind,           \* what a resource is: window, rate, pool, storage, model or gpus
    Limits,         \* bound: the limits a project may have, functions of the resources
    Grace,          \* GraceDays; 0 = never deleted
    LastDay,        \* bound: of the calendar
    MaxChanges,     \* bound: what people change
    MaxFaults       \* bound: calls that fail, and crashes

LabResources == DOMAIN Kind

Unlimited == -1
Much == 1000        \* more than any limit: unlimitedLLM, unlimitedStorage, unlimitedRate
NoCap == 0          \* an amount of 0 is no cap to a window over there
NotSent == -2
NoDay == 999
NoProject == [none |-> TRUE]

LabAssumption ==
    /\ \A r \in LabResources :
        Kind[r] \in {"window", "rate", "pool", "storage", "model", "gpus"}
    /\ Limits \subseteq [LabResources -> Nat \cup {Unlimited}]
    /\ Grace \in Nat /\ LastDay \in Nat /\ MaxChanges \in Nat /\ MaxFaults \in Nat

VARIABLES
    status, limit, proposed, end, released, asked,  \* the node
    terms,          \* the strictest of what the budgets above it set
    bound,          \* the providers with a binding of it
    leaving,        \* the reconciler of OpenStack did not delete it, and unbinds it next
    lab,            \* the project over there
    today,
    step,           \* what the pass does next
    leaf,           \* the node as the pass loaded it
    there,          \* the pass saw a project over there
    chain,          \* terms as the pass loaded them
    changed,        \* the node changed since the pass loaded it
    changes, faults

labVars ==
    <<status, limit, proposed, end, released, asked, terms, bound, leaving, lab, today, step, leaf,
      there, chain, changed, changes, faults>>

node == <<status, limit, proposed, end, released, asked, terms>>

InForce == {"approved", "change_pending"}
Retired == {"released", "archived"}
Days == 0..LastDay

Nodes ==
    [status : InForce \cup Retired, limit : Limits, end : Days \cup {NoDay},
     released : Days \cup {NoDay}, asked : BOOLEAN]
LabProjects ==
    [amounts : [LabResources -> Nat \cup {NotSent}], ends : Int, terms : 0..1, deleteAt : Int]

LabTypeOK ==
    /\ status \in InForce \cup Retired \cup {"pending", "gone"}
    /\ limit \in Limits /\ proposed \in Limits
    /\ end \in Days \cup {NoDay} /\ released \in Days \cup {NoDay}
    /\ asked \in BOOLEAN /\ terms \in 0..1
    /\ bound \subseteq {"lab", "openstack"} /\ leaving \in BOOLEAN
    /\ lab = NoProject \/ lab \in LabProjects
    /\ today \in Days
    /\ step \in {"idle", "list", "budgets", "carry", "record", "remove", "unbind", "orphans"}
    /\ leaf = NoProject \/ leaf \in Nodes
    /\ there \in BOOLEAN /\ chain \in 0..1 /\ changed \in BOOLEAN
    /\ changes \in 0..MaxChanges /\ faults \in 0..MaxFaults

LabInit ==
    /\ status = "pending"
    /\ limit \in Limits /\ proposed = limit
    /\ end \in {NoDay, 0} /\ released = NoDay /\ asked = FALSE /\ terms = 0
    /\ bound = {} /\ leaving = FALSE /\ lab = NoProject /\ today = 0
    /\ step = "idle" /\ leaf = NoProject /\ there = FALSE /\ chain = 0 /\ changed = FALSE
    /\ changes = 0 /\ faults = 0

-----------------------------------------------------------------------------
(* What is sent *)

\* concerns: bound, or more than zero of something.
Concerns(l, b) == "lab" \in b \/ \E r \in LabResources : l[r] > 0 \/ l[r] = Unlimited

\* ProjectFor: an amount of 0 is left out, which takes it away.
Sent(r, v) ==
    CASE v = 0 -> NotSent
      [] v # 0 /\ Kind[r] = "window" -> IF v = Unlimited THEN NoCap ELSE v
      [] v # 0 /\ Kind[r] \in {"rate", "storage", "pool"} -> IF v = Unlimited THEN Much ELSE v
      [] v # 0 /\ Kind[r] = "model" -> IF v = 1 THEN 1 ELSE NotSent
      [] v # 0 /\ Kind[r] = "gpus" -> IF v > 0 THEN v ELSE NotSent

ProjectFor(l) == [r \in LabResources |-> Sent(r, l[r])]

\* EndOf: its end, or the day before it was released if that came first.
EndOf(n) ==
    IF n.status \in Retired /\ n.released # NoDay /\ n.released - 1 < n.end
    THEN n.released - 1
    ELSE n.end

DeleteAt(n) == IF Grace = 0 \/ EndOf(n) = NoDay THEN NoDay ELSE EndOf(n) + 1 + Grace

Expired(n) == DeleteAt(n) # NoDay /\ today >= DeleteAt(n)

\* A retired one ended the day before: nobody starts anything.
Wanted(n, inherited) ==
    [amounts |-> ProjectFor(n.limit),
     ends |-> IF n.status \in Retired THEN today - 1 ELSE n.end,
     terms |-> inherited,
     deleteAt |-> DeleteAt(n)]

-----------------------------------------------------------------------------
(* The tree *)

Change == changes < MaxChanges /\ changes' = changes + 1 /\ changed' = TRUE
UnchangedLab == UNCHANGED <<leaving, lab, today, step, leaf, there, chain, faults>>

Approve ==
    /\ status = "pending" /\ status' = "approved"
    /\ Change /\ UnchangedLab
    /\ UNCHANGED <<limit, proposed, end, released, asked, terms, bound>>

\* The limit in force stays until somebody decides.
ProposeChange ==
    /\ status = "approved" /\ status' = "change_pending"
    /\ proposed' \in Limits \ {limit}
    /\ Change /\ UnchangedLab
    /\ UNCHANGED <<limit, end, released, asked, terms, bound>>

DecideChange ==
    /\ status = "change_pending" /\ status' = "approved"
    /\ limit' \in {limit, proposed} /\ proposed' = limit'
    /\ Change /\ UnchangedLab
    /\ UNCHANGED <<end, released, asked, terms, bound>>

ChangeEnd ==
    /\ status \in InForce
    /\ end' \in (Days \cup {NoDay}) \ {end}
    /\ Change /\ UnchangedLab
    /\ UNCHANGED <<status, limit, proposed, released, asked, terms, bound>>

ChangeTerms ==
    /\ status \in InForce
    /\ terms' = 1 - terms
    /\ Change /\ UnchangedLab
    /\ UNCHANGED <<status, limit, proposed, end, released, asked, bound>>

Release ==
    /\ status \in InForce /\ status' = "released" /\ released' = today
    /\ Change /\ UnchangedLab
    /\ UNCHANGED <<limit, proposed, end, asked, terms, bound>>

AskDeletion ==
    /\ status \in Retired /\ ~asked /\ asked' = TRUE
    /\ Change /\ UnchangedLab
    /\ UNCHANGED <<status, limit, proposed, end, released, terms, bound>>

NextDay ==
    /\ today < LastDay /\ today' = today + 1
    /\ UNCHANGED <<node, bound, leaving, lab, step, leaf, there, chain, changed, changes, faults>>

-----------------------------------------------------------------------------
(* OpenStack *)

OpenStackCarriesOut ==
    /\ status \in InForce /\ "openstack" \notin bound
    /\ bound' = bound \cup {"openstack"}
    /\ Change /\ UnchangedLab
    /\ UNCHANGED node

\* MarkArchived
Archive ==
    /\ status = "released" /\ "openstack" \in bound /\ status' = "archived"
    /\ changed' = TRUE /\ UnchangedLab
    /\ UNCHANGED <<limit, proposed, end, released, asked, terms, bound, changes>>

\* RemoveRetired of a provider is two transactions: DeleteNodeIf, unless another
\* provider carries it out, and then UpdateNode, which drops the provider's binding.
Deletable(provider) == status \in Retired /\ bound \subseteq {provider}
Deleted == status' = "gone" /\ bound' = {}
Unbound(provider) == bound' = IF status \in Retired THEN bound \ {provider} ELSE bound

\* Its project is gone, or it never had one and nobody else carries it out.
OpenStackRemoves ==
    /\ ~leaving /\ status \in Retired /\ bound # {"lab"}
    /\ IF Deletable("openstack") THEN Deleted /\ changed' = TRUE /\ UNCHANGED leaving
       ELSE leaving' = TRUE /\ UNCHANGED <<status, bound, changed>>
    /\ UNCHANGED <<limit, proposed, end, released, asked, terms, lab, today, step, leaf, there,
                   chain, changes, faults>>

\* It may fail, or the process end before it.
OpenStackUnbinds ==
    /\ leaving /\ leaving' = FALSE
    /\ Unbound("openstack") \/ UNCHANGED bound
    /\ UNCHANGED <<node, lab, today, step, leaf, there, chain, changed, changes, faults>>

-----------------------------------------------------------------------------
(* A pass *)

\* Mutant of CarriedOut: a project whose change is being decided is left out.
CarriedOutAsApproved == {"approved"} \cup Retired

CarriedOut == InForce \cup Retired

Fault == faults < MaxFaults /\ faults' = faults + 1
UnchangedTree == UNCHANGED <<node, bound, leaving, today, changes>>

Load ==
    /\ step = "idle" /\ step' = "list"
    /\ leaf' = IF status \in CarriedOut /\ Concerns(limit, bound)
               THEN [status |-> status, limit |-> limit, end |-> end, released |-> released,
                     asked |-> asked]
               ELSE NoProject
    /\ changed' = FALSE
    /\ UnchangedTree /\ UNCHANGED <<lab, there, chain, faults>>

List ==
    /\ step = "list"
    /\ \/ step' = "budgets" /\ there' = (lab # NoProject) /\ UNCHANGED faults
       \/ step' = "idle" /\ Fault /\ UNCHANGED there
    /\ UnchangedTree /\ UNCHANGED <<lab, leaf, chain, changed>>

LoadBudgets ==
    /\ step = "budgets"
    /\ step' = IF leaf = NoProject THEN "orphans" ELSE "carry"
    /\ chain' = terms
    /\ UnchangedTree /\ UNCHANGED <<lab, leaf, there, changed, faults>>

\* Mutant of GoesForGood: a requested deletion waits for the day.
GoesForGoodWhenDue == leaf.status \in Retired /\ Expired(leaf)

GoesForGood == leaf.status \in Retired /\ (Expired(leaf) \/ leaf.asked)

\* Its part over there first, then the node.
DeleteRetired ==
    /\ step = "carry" /\ GoesForGood
    /\ \/ step' = "remove" /\ lab' = (IF there THEN NoProject ELSE lab) /\ UNCHANGED faults
       \/ there /\ Fault /\ step' = "orphans" /\ lab' \in {lab, NoProject}
    /\ UnchangedTree /\ UNCHANGED <<leaf, there, chain, changed>>

RemoveNode ==
    /\ step = "remove"
    /\ \/ Deletable("lab") /\ Deleted /\ step' = "orphans" /\ UNCHANGED faults
       \/ ~Deletable("lab") /\ step' = "unbind" /\ UNCHANGED <<status, bound, faults>>
       \/ Fault /\ step' = "orphans" /\ UNCHANGED <<status, bound>>
    /\ UNCHANGED <<limit, proposed, end, released, asked, terms, leaving, lab, today, leaf, there,
                   chain, changed, changes>>

Unbind ==
    /\ step = "unbind" /\ step' = "orphans"
    /\ \/ Unbound("lab") /\ UNCHANGED faults
       \/ Fault /\ UNCHANGED bound
    /\ UNCHANGED <<node, leaving, lab, today, leaf, there, chain, changed, changes>>

DeleteExpired ==
    /\ step = "carry" /\ ~GoesForGood /\ Expired(leaf)
    /\ step' = "orphans"
    /\ \/ lab' = (IF there THEN NoProject ELSE lab) /\ UNCHANGED faults
       \/ there /\ Fault /\ lab' \in {lab, NoProject}
    /\ UnchangedTree /\ UNCHANGED <<leaf, there, chain, changed>>

Put ==
    /\ step = "carry" /\ ~GoesForGood /\ ~Expired(leaf)
    /\ \/ step' = "record" /\ lab' = Wanted(leaf, chain) /\ UNCHANGED faults
       \/ step' = "orphans" /\ Fault /\ lab' \in {lab, Wanted(leaf, chain)}
    /\ UnchangedTree /\ UNCHANGED <<leaf, there, chain, changed>>

\* RecordObservation, on the node as it is.
Record ==
    /\ step = "record" /\ step' = "orphans"
    /\ \/ bound' = (IF status = "gone" THEN bound ELSE bound \cup {"lab"}) /\ UNCHANGED faults
       \/ Fault /\ UNCHANGED bound
    /\ UNCHANGED <<node, leaving, lab, today, leaf, there, chain, changed, changes>>

\* A project whose leaf the pass did not load.
DeleteOrphan ==
    /\ step = "orphans" /\ step' = "idle"
    /\ \/ lab' = (IF there /\ leaf = NoProject THEN NoProject ELSE lab) /\ UNCHANGED faults
       \/ there /\ leaf = NoProject /\ Fault /\ lab' \in {lab, NoProject}
    /\ leaf' = NoProject /\ there' = FALSE /\ chain' = 0
    /\ UnchangedTree /\ UNCHANGED changed

LabCrash ==
    /\ step # "idle" /\ step' = "idle"
    /\ Fault
    /\ leaf' = NoProject /\ there' = FALSE /\ chain' = 0
    /\ UnchangedTree /\ UNCHANGED <<lab, changed>>

-----------------------------------------------------------------------------
LabStep ==
    \/ Load \/ List \/ LoadBudgets \/ DeleteRetired \/ RemoveNode \/ Unbind \/ DeleteExpired \/ Put
    \/ Record \/ DeleteOrphan

LabNext ==
    \/ Approve \/ ProposeChange \/ DecideChange \/ ChangeEnd \/ ChangeTerms \/ Release
    \/ AskDeletion \/ NextDay
    \/ OpenStackCarriesOut \/ Archive \/ OpenStackRemoves \/ OpenStackUnbinds
    \/ LabStep \/ LabCrash

-----------------------------------------------------------------------------
(* Properties *)

NodeNow ==
    [status |-> status, limit |-> limit, end |-> end, released |-> released, asked |-> asked]

\* What the AI service has is what the node asks for: nothing without a node,
\* for one that waits, and after the grace period; the amounts, the end and the
\* terms in force otherwise.
InLine ==
    IF status \in CarriedOut /\ Concerns(limit, bound) /\ ~Expired(NodeNow)
       /\ ~(status \in Retired /\ asked)
    THEN lab = Wanted(NodeNow, terms)
    ELSE lab = NoProject

\* "Pass brings the AI service in line with the tree": whatever failed, crashed
\* or changed while a pass worked on what it had loaded, once nothing changes any
\* more the service is in line with the tree, and stays so.
LabFollows == <>[]InLine

\* A project in force and not expired is never deleted over there, except by a
\* pass that loaded the node before it changed.
NothingTakenAway ==
    [][(lab # NoProject /\ lab' = NoProject)
        => \/ changed
           \/ status \in {"pending", "gone"} \/ ~Concerns(limit, bound)
           \/ Expired(NodeNow)
           \/ status \in Retired /\ asked]_labVars
=============================================================================
