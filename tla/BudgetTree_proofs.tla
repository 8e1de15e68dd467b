-------------------------- MODULE BudgetTree_proofs --------------------------
(***************************************************************************)
(* Proofs about BudgetTree, for every set of nodes and every bound.        *)
(*                                                                         *)
(* TypeCorrect: the types. Then the shape of the tree. A chain is the walk *)
(* up from a budget, here without induction: b leads to a when no set that *)
(* has b, lacks a and is closed under parent exists. Shape, the inductive  *)
(* invariant, says that the structural budgets stay, that what is absent   *)
(* hangs nowhere, that parents are in force and that all leads to the root;*)
(* each of these is needed to carry another over a step. Every step is of  *)
(* one of three kinds (StepKinds): it keeps the tree, hangs one node       *)
(* somewhere, or cuts some nodes off, and each kind preserves Shape.       *)
(*                                                                         *)
(* On Shape rest the other two parts: allocations come from above (Draws), *)
(* and the tree implements NodeLifecycle (ProposalsWait).                  *)
(***************************************************************************)
EXTENDS BudgetTree, TLAPS

USE BudgetsAssumption, LimitsAssumption, BoundsAssumption

\* The two structural budgets of ensureBootstrapNodes are typed.
THEOREM TypeInit == Init => TypeOK
BY DEF Init, TypeOK, Nodes, Limits, BudgetStatuses, ProjectStatuses

\* Asked for is a limit, be it proposed or the node's own.
LEMMA AskedIsLimit ==
    ASSUME TypeOK, NEW n \in Nodes
    PROVE  Asked(n) \in Limits
BY DEF TypeOK, Asked

\* Deleting nodes leaves a typed store.
LEMMA RemoveType ==
    ASSUME TypeOK, NEW S, Remove(S)
    PROVE  TypeOK'
BY DEF TypeOK, Remove, Nodes, Limits, BudgetStatuses, ProjectStatuses

\* Every operation writes values of the fields' types.
LEMMA TypeStep == TypeOK /\ [Next]_vars => TypeOK'
<1> SUFFICES ASSUME TypeOK, [Next]_vars
             PROVE  TypeOK'
    OBVIOUS
<1> USE DEF TypeOK, Nodes, Limits, BudgetStatuses, ProjectStatuses
<1>1. CASE RequestProject
    BY <1>1 DEF RequestProject, CreateProject
<1>2. CASE RequestBudget
    <2>1. ASSUME NEW c \in Budgets, NEW b \in Budgets, CreateInheriting(c, b)
          PROVE  TypeOK'
        BY <2>1 DEF CreateInheriting
    <2>2. ASSUME NEW c \in Budgets, NEW b \in Budgets, NEW l \in BudgetLimits,
                 NEW granted \in BOOLEAN, CreateBudget(c, b, l, granted)
          PROVE  TypeOK'
        BY <2>2 DEF CreateBudget
    <2>3. QED
        BY <1>2, <2>1, <2>2 DEF RequestBudget
<1>3. ASSUME NEW n \in Nodes, NEW l \in Limits, AmendRequest(n, l)
      PROVE  TypeOK'
    BY <1>3 DEF AmendRequest
<1>4. ASSUME NEW p \in Projects, NEW l \in Limits, ChangeDirectly(p, l)
      PROVE  TypeOK'
    BY <1>4 DEF ChangeDirectly
<1>5. ASSUME NEW n \in Nodes, NEW l \in Limits \cup {NoProposal}, ProposeChange(n, l)
      PROVE  TypeOK'
    BY <1>5 DEF ProposeChange
<1>6. ASSUME NEW n \in Nodes, NEW l \in Limits, ApproveNode(n, l)
      PROVE  TypeOK'
    BY <1>6 DEF ApproveNode
<1>7. ASSUME NEW n \in Nodes, RejectNode(n)
      PROVE  TypeOK'
    BY <1>7 DEF RejectNode
<1>8. ASSUME NEW n \in Nodes, Decide(n)
      PROVE  TypeOK'
    BY <1>6, <1>7, <1>8, AskedIsLimit DEF Decide
<1>9. ASSUME NEW b \in Budgets, NEW l \in Limits, UpdateLimit(b, l)
      PROVE  TypeOK'
    BY <1>9 DEF UpdateLimit
<1>10. CASE EditBudget
    <2>1. ASSUME NEW b \in Budgets, KeepInheritedLimit(b)
          PROVE  TypeOK'
        BY <1>9, <2>1 DEF KeepInheritedLimit
    <2>2. ASSUME NEW b \in Budgets, UpdateInherits(b)
          PROVE  TypeOK'
        BY <2>2 DEF UpdateInherits
    <2>3. QED
        BY <1>9, <1>10, <2>1, <2>2 DEF EditBudget
<1>11. CASE Move
    BY <1>11 DEF Move, ReparentNode
<1>12. CASE Allocate
    BY <1>12 DEF Allocate, SetAllocation
<1>13. CASE PromoteImport
    BY <1>13 DEF PromoteImport, PromoteNode
<1>14. CASE Delete
    BY <1>14, RemoveType DEF Delete, DeleteNode
<1>15. CASE ObserveImport
    <2>1. ASSUME NEW p \in Imports, NEW l \in ImportLimits,
                 NEW used \in InUseLevels \cup {NotMeasured}, AddImport(p, l, used)
          PROVE  TypeOK'
        BY <2>1 DEF AddImport
    <2>2. ASSUME NEW p \in Imports, NEW l \in ImportLimits,
                 NEW used \in InUseLevels \cup {NotMeasured}, RefreshImport(p, l, used)
          PROVE  TypeOK'
        BY <2>2 DEF RefreshImport
    <2>3. QED
        BY <1>15, <2>1, <2>2 DEF ObserveImport
<1>16. CASE Observe
    BY <1>16 DEF Observe, RecordObservation
<1>17. CASE Retire
    <2>1. ASSUME NEW p \in Projects, ReleaseNode(p) PROVE TypeOK'
        BY <2>1 DEF ReleaseNode
    <2>2. ASSUME NEW p \in Projects, MarkArchived(p) PROVE TypeOK'
        BY <2>2 DEF MarkArchived
    <2>3. ASSUME NEW p \in Projects, RemoveRetired(p) PROVE TypeOK'
        BY <2>3, RemoveType DEF RemoveRetired
    <2>4. QED
        BY <1>17, <2>1, <2>2, <2>3 DEF Retire
<1>18. CASE Adopt
    <2>1. ASSUME NEW p \in Imports, Promote(p) PROVE TypeOK'
        BY <2>1 DEF Promote
    <2>2. ASSUME NEW p \in Imports, RemoveImport(p) PROVE TypeOK'
        BY <2>2, RemoveType DEF RemoveImport
    <2>3. QED
        BY <1>18, <2>1, <2>2 DEF Adopt
<1>19. CASE UNCHANGED vars
    BY <1>19 DEF vars
<1>20. CASE ChangeProject
    BY <1>3, <1>4, <1>5, <1>20 DEF ChangeProject
<1>21. CASE ChangeBudget
    BY <1>3, <1>5, <1>21 DEF ChangeBudget
<1>22. CASE ProposeOther
    BY <1>5, <1>22 DEF ProposeOther
<1>23. QED
    BY <1>1, <1>2, <1>8, <1>10, <1>11, <1>12, <1>13, <1>14, <1>15, <1>16, <1>17,
       <1>18, <1>19, <1>20, <1>21, <1>22 DEF Next

\* The fields of the nodes keep their types over every operation of the tree
\* service and of ProviderSync; budgets never take a status of projects only.
THEOREM TypeCorrect == Spec => []TypeOK
BY TypeInit, TypeStep, PTL DEF Spec

-----------------------------------------------------------------------------
(* Walks up the tree, as sets that are closed under parent *)

\* A chain starts with its own budget.
LEMMA LeadsToItself == ASSUME NEW b PROVE LeadsTo(b, b)
BY DEF LeadsTo

\* What is above a budget above is above.
LEMMA LeadsToTransitive ==
    ASSUME NEW a, NEW b, NEW c, LeadsTo(a, b), LeadsTo(b, c)
    PROVE  LeadsTo(a, c)
<1>1. SUFFICES ASSUME NEW S \in SUBSET (Budgets \ {c}), a \in S, Closed(S)
               PROVE  FALSE
    BY DEF LeadsTo
<1>2. CASE b \in S
    BY <1>1, <1>2 DEF LeadsTo
<1>3. CASE b \notin S
    BY <1>1, <1>3 DEF LeadsTo
<1>4. QED
    BY <1>2, <1>3

\* A chain goes on with the parent.
LEMMA LeadsToParent ==
    ASSUME NEW b, parent[b] # NoParent
    PROVE  LeadsTo(b, parent[b])
BY DEF LeadsTo, Closed

\* And has nothing that is not above the parent, but the budget itself.
LEMMA LeadsOn ==
    ASSUME NEW b \in Budgets, NEW a, LeadsTo(b, a), a # b
    PROVE  parent[b] # NoParent /\ LeadsTo(parent[b], a)
<1>1. parent[b] # NoParent
    <2>1. SUFFICES ASSUME parent[b] = NoParent PROVE FALSE
        OBVIOUS
    <2>2. Closed({b}) /\ {b} \in SUBSET (Budgets \ {a})
        BY <2>1 DEF Closed
    <2>3. QED
        BY <2>2 DEF LeadsTo
<1>2. SUFFICES ASSUME NEW S \in SUBSET (Budgets \ {a}), parent[b] \in S, Closed(S)
               PROVE  FALSE
    BY <1>1 DEF LeadsTo
<1>3. Closed(S \cup {b}) /\ S \cup {b} \in SUBSET (Budgets \ {a})
    BY <1>2 DEF Closed
<1>4. QED
    BY <1>3 DEF LeadsTo

\* Nothing is above a budget without a parent.
LEMMA TopEndsChains ==
    ASSUME NEW b \in Budgets, NEW a, parent[b] = NoParent, LeadsTo(b, a)
    PROVE  a = b
BY LeadsOn

-----------------------------------------------------------------------------
(* The shape of the tree: the inductive invariant *)

\* The structural budgets stay where they are, in force.
StructuralFixed ==
    /\ Active(Root) /\ parent[Root] = NoParent /\ Root \notin inherits
    /\ Unassigned \in Budgets => Active(Unassigned) /\ parent[Unassigned] = Root

AbsentDetached == \A n \in Nodes : ~Present(n) => parent[n] = NoParent

ParentsInForce ==
    \A n \in Nodes \ {Root} : Present(n) => parent[n] \in Budgets /\ Active(parent[n])

AllLeadToRoot == \A b \in Budgets : Present(b) => LeadsTo(b, Root)

Shape ==
    /\ TypeOK
    /\ StructuralFixed
    /\ AbsentDetached
    /\ ParentsInForce
    /\ AllLeadToRoot

(* What one step does to the shape of the tree, whatever else it does *)

\* No node comes, goes or moves, and no budget goes out of force.
Keeps ==
    /\ parent' = parent
    /\ \A n \in Nodes : Present(n)' <=> Present(n)
    /\ \A b \in Budgets : Active(b) => Active(b)'

\* A node is put under t, new or from elsewhere.
Hangs(n, t) ==
    /\ n \in Nodes \ {Root, Unassigned}
    /\ t \in Budgets /\ Active(t) /\ ~LeadsTo(t, n)
    /\ parent' = [parent EXCEPT ![n] = t]
    /\ Present(n)'
    /\ \A m \in Nodes \ {n} : status'[m] = status[m]
    /\ n \in Budgets /\ Active(n) => Active(n)'

\* The nodes of S go, and nothing stays below them.
Cuts(S) ==
    /\ S \subseteq Nodes \ {Root, Unassigned}
    /\ \A n \in Nodes \ S : parent[n] \notin S /\ parent'[n] = parent[n] /\ status'[n] = status[n]
    /\ \A n \in S : parent'[n] = NoParent /\ ~Present(n)'

\* Only a budget is on a chain.
LEMMA ProjectsOffChains ==
    ASSUME NEW t \in Budgets, NEW p \in Projects, Closed(Budgets)
    PROVE  ~LeadsTo(t, p)
BY BudgetsAssumption DEF LeadsTo

\* A walk up from a budget meets budgets only.
LEMMA BudgetsClosed == TypeOK => Closed(Budgets)
BY DEF TypeOK, Closed, Nodes

\* A budget that is not there is on no chain of one that is.
LEMMA AbsentOffChains ==
    ASSUME Shape, NEW t \in Budgets, Present(t), NEW c \in Budgets, ~Present(c)
    PROVE  ~LeadsTo(t, c)
<1> DEFINE There == {b \in Budgets : Present(b)}
<1>1. Closed(There)
    BY DEF Shape, StructuralFixed, ParentsInForce, Closed, Nodes, Active, Present
<1>2. QED
    BY <1>1 DEF LeadsTo

\* Forgetting a project cuts it off.
LEMMA RemoveProjectCuts ==
    ASSUME Shape, NEW p \in Projects, Remove({p})
    PROVE  Cuts({p})
BY BudgetsAssumption DEF Shape, TypeOK, Remove, Cuts, Nodes, Present

\* Deleting a budget cuts off everything below it.
LEMMA DeleteCuts ==
    ASSUME Shape, NEW b \in Budgets, DeleteNode(b)
    PROVE  Cuts({b} \cup {n \in Nodes : parent[n] \in Below(b)})
<1> DEFINE below == {n \in Nodes : parent[n] \in Below(b)}
           S == {b} \cup below
<1>1. Remove(S) /\ Present(b) /\ b \notin {Root, Unassigned}
    BY DEF DeleteNode
<1>2. b \in Below(b)
    BY <1>1, LeadsToItself DEF Below
<1>3. Root \notin S /\ Unassigned \notin S
    <2>1. Root \notin Below(b) /\ NoParent \notin Below(b)
        BY <1>1, TopEndsChains, BudgetsAssumption DEF Below, Shape, StructuralFixed
    <2>2. QED
        BY <1>1, <2>1, BudgetsAssumption DEF Shape, StructuralFixed, Nodes
<1>4. ASSUME NEW n \in Nodes \ S
      PROVE  parent[n] \notin S
    <2>1. SUFFICES ASSUME parent[n] \in below PROVE FALSE
        BY <1>2
    <2> DEFINE m == parent[n]
    <2>2. m \in Budgets /\ parent[m] \in Below(b)
        BY <2>1, BudgetsAssumption DEF Shape, TypeOK, Nodes
    <2>3. parent[m] # NoParent /\ LeadsTo(parent[m], b)
        BY <2>2, BudgetsAssumption DEF Below
    <2>4. Present(m)
        BY <2>2, <2>3 DEF Shape, AbsentDetached, Nodes
    <2>5. m \in Below(b)
        BY <2>2, <2>3, <2>4, LeadsToParent, LeadsToTransitive DEF Below
    <2>6. QED
        BY <2>5
<1>5. QED
    BY <1>1, <1>3, <1>4, BudgetsAssumption DEF Cuts, Remove, Nodes, Present

\* A new budget is hung below the one it is requested under.
LEMMA NewBudgetHangs ==
    ASSUME Shape, NEW c \in Budgets \ {Root, Unassigned}, NEW b \in Budgets,
           \/ CreateInheriting(c, b)
           \/ \E l \in BudgetLimits, granted \in BOOLEAN : CreateBudget(c, b, l, granted)
    PROVE  Hangs(c, b) /\ ~Present(c)
<1>1. ~Present(c) /\ Present(b) /\ Active(b)
    BY DEF CreateInheriting, CreateBudget, Fresh, Active, Present
<1>2. ~LeadsTo(b, c)
    BY <1>1, AbsentOffChains
<1>3. QED
    BY <1>1, <1>2 DEF CreateInheriting, CreateBudget, Hangs, Active, Present, Shape, TypeOK, Nodes

\* A move hangs the node elsewhere, never below itself.
LEMMA MoveHangs ==
    ASSUME Shape, NEW n \in Nodes, NEW t \in Budgets, ReparentNode(n, t)
    PROVE  Hangs(n, t)
<1>1. ~LeadsTo(t, n)
    <2>1. CASE n \in Budgets
        BY <2>1 DEF ReparentNode, LiesBelow, Chain
    <2>2. CASE n \in Projects
        BY <2>2, ProjectsOffChains, BudgetsClosed DEF Shape
    <2>3. QED
        BY <2>1, <2>2 DEF Nodes
<1>2. QED
    BY <1>1 DEF ReparentNode, Target, Live, Hangs, Active, Present

\* Every step of the tree keeps its shape, hangs one node or cuts some off.
LEMMA StepKinds ==
    ASSUME Shape, [Next]_vars
    PROVE  /\ Root \notin inherits'
           /\ \/ Keeps
              \/ \E n \in Nodes, t \in Budgets : Hangs(n, t)
              \/ \E S \in SUBSET Nodes : Cuts(S)
<1> DEFINE Kinds ==
        /\ Root \notin inherits'
        /\ \/ Keeps
           \/ \E n \in Nodes, t \in Budgets : Hangs(n, t)
           \/ \E S \in SUBSET Nodes : Cuts(S)
<1> SUFFICES Kinds
    OBVIOUS
<1>0. TypeOK /\ Root \in Budgets /\ Root \notin inherits /\ Root \notin Projects
      /\ Unassigned \notin Projects /\ Budgets \subseteq Nodes /\ Projects \subseteq Nodes
    BY BudgetsAssumption DEF Shape, StructuralFixed, Nodes
<1>1. CASE RequestProject
    <2>1. PICK p \in Projects, b \in Budgets, l \in LeafLimits, granted \in BOOLEAN :
              CreateProject(p, b, l, granted)
        BY <1>1 DEF RequestProject
    <2>2. Hangs(p, b)
        BY <1>0, <2>1, ProjectsOffChains, BudgetsClosed, BudgetsAssumption
        DEF CreateProject, Hangs, Active, Present, TypeOK
    <2>3. QED
        BY <1>0, <2>1, <2>2 DEF CreateProject
<1>2. CASE RequestBudget
    <2>1. PICK c \in Budgets \ {Root, Unassigned}, b \in Budgets :
              \/ CreateInheriting(c, b)
              \/ \E l \in BudgetLimits, granted \in BOOLEAN : CreateBudget(c, b, l, granted)
        BY <1>2 DEF RequestBudget
    <2>2. Hangs(c, b)
        BY <2>1, NewBudgetHangs
    <2>3. QED
        BY <1>0, <2>1, <2>2 DEF CreateInheriting, CreateBudget
<1>3. ASSUME NEW n \in Nodes, NEW l, AmendRequest(n, l) \/ ProposeChange(n, l)
      PROVE  Kinds
    BY <1>0, <1>3 DEF AmendRequest, ProposeChange, Keeps, Present, Active, TypeOK
<1>4. ASSUME NEW p \in Projects, NEW l, ChangeDirectly(p, l)
      PROVE  Kinds
    BY <1>0, <1>4 DEF ChangeDirectly, Keeps, Present, Active, TypeOK
<1>5. ASSUME NEW n \in Nodes, Decide(n)
      PROVE  Kinds
    <2>1. ASSUME NEW l, ApproveNode(n, l) PROVE Kinds
        BY <1>0, <2>1 DEF ApproveNode, Decidable, Waiting, Keeps, Present, Active, TypeOK
    <2>2. ASSUME RejectNode(n) PROVE Kinds
        BY <1>0, <2>2 DEF RejectNode, Decidable, Waiting, Keeps, Present, Active, TypeOK
    <2>3. QED
        BY <1>5, <2>1, <2>2 DEF Decide
<1>6. CASE EditBudget
    <2>1. ASSUME NEW b \in Budgets, NEW l, UpdateLimit(b, l) PROVE Kinds
        BY <1>0, <2>1 DEF UpdateLimit, Keeps, Present, Active
    <2>2. ASSUME NEW b \in Budgets, UpdateInherits(b) PROVE Kinds
        <3>1. b # Root
            BY <2>2 DEF UpdateInherits, Editable, Shape, StructuralFixed
        <3>2. QED
            BY <1>0, <2>2, <3>1 DEF UpdateInherits, Keeps, Present, Active
    <2>3. QED
        BY <1>6, <2>1, <2>2 DEF EditBudget, KeepInheritedLimit
<1>7. CASE Move
    <2>1. PICK n \in Movable, t \in Budgets : ReparentNode(n, t)
        BY <1>7 DEF Move
    <2>2. n \in Nodes
        BY <2>1, BoundsAssumption
    <2>3. Hangs(n, t)
        BY <2>1, <2>2, MoveHangs
    <2>4. QED
        BY <1>0, <2>1, <2>2, <2>3 DEF ReparentNode
<1>8. CASE Allocate
    BY <1>0, <1>8 DEF Allocate, SetAllocation, Keeps, Present, Active
<1>9. CASE PromoteImport
    <2>1. PICK p \in Imports, t \in Budgets : \E l : PromoteNode(p, t, l)
        BY <1>9 DEF PromoteImport
    <2>2. p \in Projects
        BY BudgetsAssumption
    <2>3. Hangs(p, t)
        BY <1>0, <2>1, <2>2, ProjectsOffChains, BudgetsClosed, BudgetsAssumption
        DEF PromoteNode, Target, Hangs, Active, Present
    <2>4. QED
        BY <1>0, <2>1, <2>2, <2>3 DEF PromoteNode
<1>10. CASE Delete
    <2>1. PICK b \in Budgets : DeleteNode(b)
        BY <1>10 DEF Delete
    <2> DEFINE S == {b} \cup {n \in Nodes : parent[n] \in Below(b)}
    <2>2. Cuts(S) /\ S \in SUBSET Nodes
        BY <1>0, <2>1, DeleteCuts
    <2>3. QED
        BY <1>0, <2>1, <2>2 DEF DeleteNode, Remove
<1>11. CASE ObserveImport
    <2>1. PICK p \in Imports, l \in ImportLimits, used \in InUseLevels \cup {NotMeasured} :
              AddImport(p, l, used) \/ RefreshImport(p, l, used)
        BY <1>11 DEF ObserveImport
    <2>2. p \in Projects /\ Unassigned \in Budgets /\ Active(Unassigned)
        BY <2>1, BudgetsAssumption DEF Shape, StructuralFixed
    <2>3. CASE AddImport(p, l, used)
        <3>1. Hangs(p, Unassigned)
            BY <1>0, <2>2, <2>3, ProjectsOffChains, BudgetsClosed, BudgetsAssumption
            DEF AddImport, Hangs, Active, Present, TypeOK
        <3>2. QED
            BY <1>0, <2>2, <2>3, <3>1 DEF AddImport
    <2>4. CASE RefreshImport(p, l, used)
        BY <1>0, <2>4 DEF RefreshImport, Keeps, Present, Active
    <2>5. QED
        BY <2>1, <2>3, <2>4
<1>12. CASE Observe
    BY <1>0, <1>12 DEF Observe, RecordObservation, Keeps, Present, Active
<1>13. CASE Retire
    <2>1. ASSUME NEW p \in Projects, ReleaseNode(p) \/ MarkArchived(p) PROVE Kinds
        BY <1>0, <2>1, BudgetsAssumption
        DEF ReleaseNode, MarkArchived, Keeps, Present, Active, TypeOK
    <2>2. ASSUME NEW p \in Projects, RemoveRetired(p) PROVE Kinds
        BY <1>0, <2>2, RemoveProjectCuts DEF RemoveRetired, Remove
    <2>3. QED
        BY <1>13, <2>1, <2>2 DEF Retire
<1>14. CASE Adopt
    <2>1. ASSUME NEW p \in Projects, Promote(p) PROVE Kinds
        BY <1>0, <2>1, BudgetsAssumption DEF Promote, Keeps, Present, Active, TypeOK
    <2>2. ASSUME NEW p \in Projects, RemoveImport(p) PROVE Kinds
        BY <1>0, <2>2, RemoveProjectCuts DEF RemoveImport, Remove
    <2>3. QED
        BY <1>14, <2>1, <2>2, BudgetsAssumption DEF Adopt
<1>15. CASE UNCHANGED vars
    BY <1>0, <1>15 DEF vars, Keeps, Present, Active
<1>16. CASE ChangeProject
    BY <1>0, <1>3, <1>4, <1>16 DEF ChangeProject
<1>17. CASE ChangeBudget
    BY <1>0, <1>3, <1>17 DEF ChangeBudget
<1>18. CASE ProposeOther
    BY <1>3, <1>18, BoundsAssumption DEF ProposeOther
<1>19. QED
    BY <1>1, <1>2, <1>5, <1>6, <1>7, <1>8, <1>9, <1>10, <1>11, <1>12, <1>13, <1>14,
       <1>15, <1>16, <1>17, <1>18 DEF Next

-----------------------------------------------------------------------------
(* The shape of the tree is inductive *)

\* The bootstrapped tree has the shape.
LEMMA ShapeInit == Init => Shape
<1> SUFFICES ASSUME Init PROVE Shape
    OBVIOUS
<1> USE BudgetsAssumption DEF Nodes
<1>1. TypeOK
    BY TypeInit
<1>2. StructuralFixed /\ AbsentDetached /\ ParentsInForce
    BY DEF Init, StructuralFixed, AbsentDetached, ParentsInForce, Active, Present
<1>3. ASSUME NEW b \in Budgets, Present(b)
      PROVE  LeadsTo(b, Root)
    <2>1. b = Root \/ parent[b] = Root
        BY <1>3 DEF Init, Present
    <2>2. QED
        BY <2>1, LeadsToItself, LeadsToParent
<1>4. QED
    BY <1>1, <1>2, <1>3 DEF Shape, AllLeadToRoot

\* An operation that moves nothing keeps the shape.
LEMMA KeepsShape ==
    ASSUME Shape, TypeOK', Root \notin inherits', Keeps
    PROVE  Shape'
<1>1. StructuralFixed' /\ AbsentDetached' /\ ParentsInForce'
    BY BudgetsAssumption
    DEF Shape, Keeps, StructuralFixed, AbsentDetached, ParentsInForce, Nodes
<1>2. AllLeadToRoot'
    BY DEF Shape, Keeps, AllLeadToRoot, LeadsTo, Closed, Nodes
<1>3. QED
    BY <1>1, <1>2 DEF Shape

\* Hanging a node below a budget in force that is not below it keeps the shape
\* (CreateNode, ReparentNode, PromoteNode, AddImport).
LEMMA HangsShape ==
    ASSUME Shape, TypeOK', Root \notin inherits',
           NEW n \in Nodes, NEW t \in Budgets, Hangs(n, t)
    PROVE  Shape'
<1> USE BudgetsAssumption DEF Nodes
<1>1. StructuralFixed'
    BY DEF Shape, TypeOK, StructuralFixed, Hangs, Active
<1>2. AbsentDetached'
    BY DEF Shape, TypeOK, AbsentDetached, Hangs, Present
<1>3. ASSUME NEW m \in Nodes \ {Root}, Present(m)'
      PROVE  parent'[m] \in Budgets /\ Active(parent[m])'
    <2>1. ASSUME NEW b \in Budgets, Active(b) PROVE Active(b)'
        BY <2>1 DEF Hangs, Active
    <2>2. CASE m = n
        BY <2>1, <2>2 DEF Shape, TypeOK, Hangs
    <2>3. CASE m # n
        BY <1>3, <2>1, <2>3 DEF Shape, TypeOK, ParentsInForce, Hangs, Present
    <2>4. QED
        BY <2>2, <2>3
<1>4. ASSUME NEW b \in Budgets, Present(b)',
             NEW S \in SUBSET (Budgets \ {Root}), b \in S, Closed(S)'
      PROVE  FALSE
    <2>1. CASE n \in S
        \* The part of S above t was closed before the step, without the root.
        <3> DEFINE D == {x \in S : LeadsTo(t, x)}
        <3>1. t \in D
            BY <1>4, <2>1, LeadsToItself DEF Shape, TypeOK, Hangs, Closed
        <3>2. ASSUME NEW x \in D, parent[x] # NoParent
              PROVE  parent[x] \in D
            BY <1>4, <3>2, LeadsToParent, LeadsToTransitive DEF Shape, TypeOK, Hangs, Closed
        <3>3. Closed(D) /\ D \in SUBSET (Budgets \ {Root})
            BY <1>4, <3>2 DEF Closed
        <3>4. LeadsTo(t, Root)
            BY DEF Shape, AllLeadToRoot, Hangs, Active, Present
        <3>5. QED
            BY <3>1, <3>3, <3>4 DEF LeadsTo
    <2>2. CASE n \notin S
        <3>1. Closed(S)
            BY <1>4, <2>2 DEF Shape, TypeOK, Hangs, Closed
        <3>2. Present(b)
            BY <1>4, <2>2 DEF Hangs, Present
        <3>3. QED
            BY <1>4, <3>1, <3>2 DEF Shape, AllLeadToRoot, LeadsTo
    <2>3. QED
        BY <2>1, <2>2
<1>5. AllLeadToRoot'
    BY <1>4 DEF AllLeadToRoot, LeadsTo
<1>6. QED
    BY <1>1, <1>2, <1>3, <1>5 DEF Shape, ParentsInForce

\* Removing nodes with all that is below them keeps the shape (DeleteNode,
\* RemoveRetired, RemoveImport).
LEMMA CutsShape ==
    ASSUME Shape, TypeOK', Root \notin inherits', NEW S \in SUBSET Nodes, Cuts(S)
    PROVE  Shape'
<1> USE BudgetsAssumption DEF Nodes
<1>1. StructuralFixed'
    BY DEF Shape, StructuralFixed, Cuts, Active
<1>2. AbsentDetached'
    BY DEF Shape, AbsentDetached, Cuts, Present
<1>3. ParentsInForce'
    BY DEF Shape, TypeOK, ParentsInForce, Cuts, Present, Active
<1>4. ASSUME NEW b \in Budgets, Present(b)',
             NEW U \in SUBSET (Budgets \ {Root}), b \in U, Closed(U)'
      PROVE  FALSE
    \* What is left of U was closed before the step.
    <2>1. b \in U \ S /\ Present(b)
        BY <1>4 DEF Cuts, Present
    <2>2. Closed(U \ S)
        BY <1>4 DEF Cuts, Closed
    <2>3. QED
        BY <1>4, <2>1, <2>2 DEF Shape, AllLeadToRoot, LeadsTo
<1>5. AllLeadToRoot'
    BY <1>4 DEF AllLeadToRoot, LeadsTo
<1>6. QED
    BY <1>1, <1>2, <1>3, <1>5 DEF Shape

\* The shape is inductive.
LEMMA ShapeStep == Shape /\ [Next]_vars => Shape'
<1> SUFFICES ASSUME Shape, [Next]_vars PROVE Shape'
    OBVIOUS
<1>1. TypeOK'
    BY TypeStep DEF Shape
<1>2. QED
    BY <1>1, StepKinds, KeepsShape, HangsShape, CutsShape

\* The tree always has the shape.
LEMMA ShapeCorrect == Spec => []Shape
BY ShapeInit, ShapeStep, PTL DEF Spec

\* Every node hangs below the root (ReparentNode, DeleteNode).
THEOREM ReachesRootCorrect == Spec => []ReachesRoot
<1>1. Shape => ReachesRoot
    BY BudgetsAssumption
    DEF Shape, TypeOK, ParentsInForce, AllLeadToRoot, ReachesRoot, Above, Chain, Active, Present
<1>2. QED
    BY <1>1, ShapeCorrect, PTL

\* What a node draws from is in force (CreateNode, loadTarget, RejectNode).
THEOREM ParentsActiveCorrect == Spec => []ParentsActive
<1>1. Shape => ParentsActive
    BY DEF Shape, ParentsInForce, ParentsActive
<1>2. QED
    BY <1>1, ShapeCorrect, PTL

\* A limit applies at every budget (bindingInChain, UpdateNode).
THEOREM SomeLimitAppliesCorrect == Spec => []SomeLimitApplies
<1>1. ASSUME Shape PROVE SomeLimitApplies
    <2> DEFINE Unbound == {b \in Budgets : Present(b) /\ \A a \in Budgets : ~Binds(a, b)}
    <2>1. Root \notin Unbound
        <3>1. Binds(Root, Root)
            BY <1>1, LeadsToItself, TopEndsChains, BudgetsAssumption
            DEF Shape, StructuralFixed, Binds, Chain
        <3>2. QED
            BY <3>1, BudgetsAssumption
    <2>2. ASSUME NEW b \in Unbound
          PROVE  b \in inherits
        BY <2>2, LeadsToItself DEF Binds, Chain
    <2>3. ASSUME NEW b \in Unbound
          PROVE  parent[b] \in Unbound
        <3>1. parent[b] \in Budgets /\ Present(parent[b]) /\ parent[b] # NoParent
            BY <1>1, <2>1, <2>3, BudgetsAssumption
            DEF Shape, ParentsInForce, Nodes, Active, Present
        <3>2. ASSUME NEW a \in Budgets, Binds(a, parent[b])
              PROVE  FALSE
            <4>1. a \in Chain(b) \ inherits
                BY <3>1, <3>2, LeadsToParent, LeadsToTransitive DEF Binds, Chain
            <4>2. ASSUME NEW c \in Chain(b) \ inherits PROVE c \in Chain(a)
                <5>1. c # b
                    BY <2>2, <2>3, <4>2
                <5>2. c \in Chain(parent[b])
                    BY <4>2, <5>1, LeadsOn, <2>3 DEF Chain
                <5>3. QED
                    BY <3>2, <4>2, <5>2 DEF Binds
            <4>3. QED
                BY <2>3, <4>1, <4>2 DEF Binds
        <3>3. QED
            BY <3>1, <3>2
    <2>4. Closed(Unbound) /\ Unbound \in SUBSET (Budgets \ {Root})
        BY <2>1, <2>3 DEF Closed
    <2>5. QED
        BY <1>1, <2>4 DEF Shape, AllLeadToRoot, LeadsTo, SomeLimitApplies
<1>2. QED
    BY <1>1, ShapeCorrect, PTL

-----------------------------------------------------------------------------
(* Projects draw from budgets above their own only: the allocations survive *)
(* every move of the project, of its budget and of the budgets between the  *)
(* two. Draws adds to Shape that nothing is drawn before a project is       *)
(* requested or adopted.                                                    *)

\* LeadsTo, of the tree after the step.
WillLeadTo(x, a) ==
    \A S \in SUBSET (Budgets \ {a}) :
        x \in S => \E b \in S : parent'[b] # NoParent /\ parent'[b] \notin S

(* How the chains change when a node is hung elsewhere, or some are cut off *)

\* Where the budgets keep their parents, their chains stay.
LEMMA ChainsKept ==
    ASSUME \A b \in Budgets : parent'[b] = parent[b], NEW x, NEW a, LeadsTo(x, a)
    PROVE  WillLeadTo(x, a)
BY DEF LeadsTo, WillLeadTo, Closed

\* A chain the moved node is not on stays.
LEMMA ChainsElsewhereStay ==
    ASSUME TypeOK, NEW n, NEW t, Hangs(n, t),
           NEW x \in Budgets, NEW a, LeadsTo(x, a), ~LeadsTo(x, n)
    PROVE  WillLeadTo(x, a)
<1>1. SUFFICES ASSUME NEW S \in SUBSET (Budgets \ {a}), x \in S, Closed(S)'
               PROVE  FALSE
    BY DEF WillLeadTo, Closed
<1> DEFINE D == {y \in S : LeadsTo(x, y)}
<1>2. ASSUME NEW y \in D, parent[y] # NoParent
      PROVE  parent[y] \in D
    BY <1>1, <1>2, LeadsToParent, LeadsToTransitive DEF TypeOK, Hangs, Closed, Nodes
<1>3. Closed(D) /\ x \in D /\ D \in SUBSET (Budgets \ {a})
    BY <1>1, <1>2, LeadsToItself DEF Closed
<1>4. QED
    BY <1>3 DEF LeadsTo

\* There are no cycles.
LEMMA LeadsToAntisymmetric ==
    ASSUME Shape, NEW a \in Budgets, NEW b \in Budgets, Present(a), LeadsTo(a, b), LeadsTo(b, a)
    PROVE  a = b
<1> SUFFICES ASSUME a # b PROVE FALSE
    OBVIOUS
<1> DEFINE Cycle == {x \in Budgets : LeadsTo(a, x) /\ LeadsTo(x, a)}
<1>1. a \in Cycle
    BY LeadsToItself
<1>2. ASSUME NEW x \in Cycle
      PROVE  parent[x] \in Cycle
    <2> DEFINE z == IF x = a THEN b ELSE a
    <2>1. z # x /\ LeadsTo(x, z) /\ LeadsTo(z, a)
        BY LeadsToItself
    <2>2. parent[x] # NoParent /\ LeadsTo(parent[x], z)
        BY <2>1, LeadsOn
    <2>3. parent[x] \in Budgets
        BY <2>2 DEF Shape, TypeOK, Nodes
    <2>4. LeadsTo(a, parent[x]) /\ LeadsTo(parent[x], a)
        BY <2>1, <2>2, LeadsToParent, LeadsToTransitive
    <2>5. QED
        BY <2>3, <2>4
<1>3. Root \notin Cycle
    BY <1>2, BudgetsAssumption DEF Shape, StructuralFixed
<1>4. Closed(Cycle) /\ Cycle \in SUBSET (Budgets \ {Root})
    BY <1>2, <1>3 DEF Closed
<1>5. QED
    BY <1>1, <1>4 DEF Shape, AllLeadToRoot, LeadsTo

\* What the moved budget n is above of gets the chain of its new parent.
LEMMA ChainsGoOnAtTarget ==
    ASSUME TypeOK, NEW n \in Budgets, NEW t \in Budgets, Hangs(n, t),
           NEW x, NEW a, LeadsTo(x, n), LeadsTo(t, a)
    PROVE  WillLeadTo(x, a)
<1>1. WillLeadTo(x, n)
    BY DEF LeadsTo, WillLeadTo, Closed, Hangs, TypeOK, Nodes
<1>2. WillLeadTo(t, a)
    BY ChainsElsewhereStay DEF Hangs
<1>3. SUFFICES ASSUME NEW S \in SUBSET (Budgets \ {a}), x \in S, Closed(S)'
               PROVE  FALSE
    BY DEF WillLeadTo, Closed
<1>4. n \in S
    BY <1>1, <1>3 DEF WillLeadTo, Closed
<1>5. t \in S
    BY <1>3, <1>4, BudgetsAssumption DEF Hangs, TypeOK, Nodes, Closed
<1>6. QED
    BY <1>2, <1>3, <1>5 DEF WillLeadTo, Closed

\* And keeps what moves along.
LEMMA ChainsMoveAlong ==
    ASSUME Shape, NEW n \in Budgets, NEW t \in Budgets, Hangs(n, t),
           NEW x \in Budgets, NEW a \in Budgets, Present(a), LeadsTo(x, a), LeadsTo(a, n)
    PROVE  WillLeadTo(x, a)
<1>1. SUFFICES ASSUME NEW S \in SUBSET (Budgets \ {a}), x \in S, Closed(S)'
               PROVE  FALSE
    BY DEF WillLeadTo, Closed
<1>2. CASE n \notin S
    <2>1. Closed(S)
        BY <1>1, <1>2 DEF Shape, TypeOK, Nodes, Hangs, Closed
    <2>2. QED
        BY <1>1, <2>1 DEF LeadsTo
<1>3. CASE n \in S
    <2> DEFINE U == S \cup {y \in Budgets : LeadsTo(n, y)}
    <2>1. ~LeadsTo(n, a)
        BY <1>1, <1>3, LeadsToAntisymmetric
    <2>2. ASSUME NEW y \in U, parent[y] # NoParent
          PROVE  parent[y] \in U
        <3>1. parent[y] \in Budgets /\ LeadsTo(y, parent[y])
            BY <1>1, <2>2, LeadsToParent DEF Shape, TypeOK, Nodes
        <3>2. CASE LeadsTo(n, y)
            BY <3>1, <3>2, LeadsToTransitive
        <3>3. CASE y \in S \ {n}
            BY <1>1, <2>2, <3>3 DEF Shape, TypeOK, Nodes, Hangs, Closed
        <3>4. QED
            BY <2>2, <3>2, <3>3, LeadsToItself
    <2>3. Closed(U) /\ x \in U /\ U \in SUBSET (Budgets \ {a})
        BY <1>1, <2>1, <2>2 DEF Closed
    <2>4. QED
        BY <2>3 DEF LeadsTo
<1>4. QED
    BY <1>2, <1>3

\* What stays keeps its chain.
LEMMA ChainsSurviveCuts ==
    ASSUME NEW S, Cuts(S), NEW x \in Budgets \ S, NEW a, LeadsTo(x, a)
    PROVE  WillLeadTo(x, a)
<1>1. SUFFICES ASSUME NEW U \in SUBSET (Budgets \ {a}), x \in U, Closed(U)'
               PROVE  FALSE
    BY DEF WillLeadTo, Closed
<1>2. Closed(U \ S) /\ x \in U \ S /\ U \ S \in SUBSET (Budgets \ {a})
    BY <1>1 DEF Closed, Cuts, Nodes
<1>3. QED
    BY <1>2 DEF LeadsTo

-----------------------------------------------------------------------------
(* The inductive invariant *)

\* Nothing is drawn before the project is requested or adopted.
DrawsByManagedOnly ==
    \A p \in Projects, a \in Budgets :
        alloc[p][a] > 0 => status[p] \notin {"absent", "imported"}

Draws == DrawsByManagedOnly /\ AllocationsFromAbove

\* What AllocationsFromAbove says of one allocation, with the chain spelled out.
LEMMA FromAbove ==
    ASSUME TypeOK, NEW p \in Projects, NEW a \in Budgets
    PROVE  (a \in Above(p) /\ a # parent[p])
               <=> (parent[p] \in Budgets /\ LeadsTo(parent[p], a) /\ a # parent[p])
BY BudgetsAssumption DEF TypeOK, Nodes, Above, Chain

\* The same of the tree after the step.
LEMMA FromAboveAfter ==
    ASSUME TypeOK', NEW p \in Projects, NEW a \in Budgets
    PROVE  (a \in Above(p) /\ a # parent[p])'
               <=> (parent'[p] \in Budgets /\ WillLeadTo(parent'[p], a) /\ a # parent'[p])
<1>1. LeadsTo(parent[p], a)' <=> WillLeadTo(parent'[p], a)
    BY DEF LeadsTo, Closed, WillLeadTo
<1>2. parent'[p] \in Budgets \cup {NoParent} /\ NoParent \notin Budgets
    BY DEF TypeOK, Nodes
<1>3. QED
    BY <1>1, <1>2 DEF Above, Chain

\* A project that exists in a status of managed ones keeps one, does not come
\* back to life, and stays where it is.
StaysPut(p) ==
    status[p] \notin {"absent", "imported"} =>
        /\ status'[p] \notin {"absent", "imported"}
        /\ Live(p)' => Live(p)
        /\ parent'[p] = parent[p]

\* Such a project, if its allocation stays, draws from above after a step that
\* leaves the chain of its budget intact.
LEMMA StayingDraws ==
    ASSUME TypeOK, TypeOK', Draws, NEW p \in Projects, NEW a \in Budgets,
           StaysPut(p), alloc'[p][a] = alloc[p][a], alloc[p][a] > 0,
           parent[p] \in Budgets /\ LeadsTo(parent[p], a) => WillLeadTo(parent[p], a)
    PROVE  /\ status'[p] \notin {"absent", "imported"}
           /\ Live(p)' => (a \in Above(p) /\ a # parent[p])'
<1>1. status[p] \notin {"absent", "imported"}
    BY DEF Draws, DrawsByManagedOnly
<1>2. SUFFICES ASSUME Live(p)' PROVE (a \in Above(p) /\ a # parent[p])'
    BY <1>1 DEF StaysPut
<1>3. Live(p) /\ parent'[p] = parent[p]
    BY <1>1, <1>2 DEF StaysPut
<1>4. parent[p] \in Budgets /\ LeadsTo(parent[p], a) /\ a # parent[p]
    BY <1>3, FromAbove DEF Draws, AllocationsFromAbove
<1>5. parent'[p] \in Budgets /\ WillLeadTo(parent'[p], a) /\ a # parent'[p]
    BY <1>3, <1>4
<1>6. QED
    BY <1>5, FromAboveAfter

\* No budget moves and no allocation changes.
LEMMA QuietStep ==
    ASSUME TypeOK, TypeOK', Draws, alloc' = alloc,
           \A b \in Budgets : parent'[b] = parent[b],
           \A p \in Projects : StaysPut(p)
    PROVE  Draws'
<1>1. ASSUME NEW p \in Projects, NEW a \in Budgets, alloc'[p][a] > 0
      PROVE  /\ status'[p] \notin {"absent", "imported"}
             /\ Live(p)' => (a \in Above(p) /\ a # parent[p])'
    BY <1>1, StayingDraws, ChainsKept
<1>2. QED
    BY <1>1 DEF Draws, DrawsByManagedOnly, AllocationsFromAbove

\* A new budget is on no chain yet.
LEMMA NewBudgetStep ==
    ASSUME Shape, TypeOK', Draws, alloc' = alloc,
           NEW c \in Budgets, NEW b \in Budgets, ~Present(c), Hangs(c, b)
    PROVE  Draws'
<1>1. ASSUME NEW p \in Projects, NEW a \in Budgets, alloc'[p][a] > 0
      PROVE  /\ status'[p] \notin {"absent", "imported"}
             /\ Live(p)' => (a \in Above(p) /\ a # parent[p])'
    <2>1. status'[p] = status[p] /\ parent'[p] = parent[p] /\ Live(p)' = Live(p)
        BY BudgetsAssumption DEF Shape, TypeOK, Nodes, Hangs, Live, Present, Terminal, Retired
    <2>2. StaysPut(p)
        BY <2>1 DEF StaysPut
    <2>3. ASSUME parent[p] \in Budgets, LeadsTo(parent[p], a)
          PROVE  WillLeadTo(parent[p], a)
        <3>1. Present(p) /\ p \in Nodes \ {Root}
            BY <2>3, BudgetsAssumption DEF Shape, AbsentDetached, Nodes
        <3>2. Present(parent[p])
            BY <3>1 DEF Shape, ParentsInForce, Active, Present
        <3>3. ~LeadsTo(parent[p], c)
            BY <2>3, <3>2, AbsentOffChains
        <3>4. QED
            BY <2>3, <3>3, ChainsElsewhereStay DEF Shape
    <2>4. QED
        BY <1>1, <2>2, <2>3, StayingDraws DEF Shape
<1>2. QED
    BY <1>1 DEF Draws, DrawsByManagedOnly, AllocationsFromAbove

\* ReparentNode: what the moved node and the projects below it draw comes from
\* above the target, or moves along (checkAllocationsAfterMove).
LEMMA MoveStep ==
    ASSUME Shape, TypeOK', Draws, NEW n \in Nodes, NEW t \in Budgets,
           Hangs(n, t), ReparentNode(n, t)
    PROVE  Draws'
<1>1. alloc' = alloc /\ status' = status
    BY DEF ReparentNode
<1>2. ASSUME NEW p \in Projects, NEW a \in Budgets, alloc'[p][a] > 0, p # n
      PROVE  /\ status'[p] \notin {"absent", "imported"}
             /\ Live(p)' => (a \in Above(p) /\ a # parent[p])'
    <2>1. alloc[p][a] > 0 /\ parent'[p] = parent[p] /\ p \in Nodes
        BY <1>1, <1>2 DEF Shape, TypeOK, Hangs, Nodes
    <2>2. StaysPut(p)
        BY <1>1, <2>1 DEF StaysPut, Live, Present, Terminal, Retired
    <2>3. CASE n \in Projects
        <3>1. \A b \in Budgets : parent'[b] = parent[b]
            BY <2>3, BudgetsAssumption DEF Shape, TypeOK, Hangs, Nodes
        <3>2. QED
            BY <1>1, <2>1, <2>2, <3>1, ChainsKept, StayingDraws DEF Shape
    <2>4. CASE n \in Budgets /\ Live(p)
        <3> DEFINE x == parent[p]
        <3>1. x \in Budgets /\ LeadsTo(x, a) /\ a # x /\ Present(x)
            BY <2>1, <2>4, FromAbove, BudgetsAssumption
            DEF Draws, AllocationsFromAbove, Shape, ParentsInForce, Nodes, Live, Active, Present
        <3>2. CASE ~LeadsTo(x, n)
            <4>1. WillLeadTo(x, a)
                BY <3>1, <3>2, ChainsElsewhereStay DEF Shape
            <4>2. QED
                BY <1>1, <2>1, <2>2, <4>1, StayingDraws DEF Shape
        <3>3. CASE LeadsTo(x, n)
            <4>1. x \in Below(n)
                BY <3>1, <3>3 DEF Below
            <4>2. a \in Chain(t) \cup Below(n)
                BY <2>1, <2>4, <4>1, BudgetsAssumption DEF ReparentNode, SubtreeDrawsFromAbove, Live
            <4>3. WillLeadTo(x, a)
                BY <2>4, <3>1, <3>3, <4>2, ChainsGoOnAtTarget, ChainsMoveAlong
                DEF Chain, Below, Shape
            <4>4. QED
                BY <1>1, <2>1, <2>2, <4>3, StayingDraws DEF Shape
        <3>4. QED
            BY <3>2, <3>3
    <2>5. CASE ~Live(p)
        <3>1. ~Live(p)'
            BY <1>1, <2>5 DEF Live, Present, Terminal, Retired
        <3>2. QED
            BY <1>1, <2>1, <3>1 DEF Draws, DrawsByManagedOnly
    <2>6. QED
        BY <2>3, <2>4, <2>5 DEF Nodes
<1>3. ASSUME NEW a \in Budgets, n \in Projects, alloc'[n][a] > 0
      PROVE  /\ status'[n] \notin {"absent", "imported"}
             /\ (a \in Above(n) /\ a # parent[n])'
    <2>1. alloc[n][a] > 0
        BY <1>1, <1>3
    <2>2. LeadsTo(t, a) /\ a # t
        BY <1>3, <2>1 DEF ReparentNode, ProjectDrawsFromAbove, Chain
    <2>3. parent'[n] = t
        BY DEF Hangs, Shape, TypeOK
    <2>4. \A b \in Budgets : parent'[b] = parent[b]
        BY <1>3, BudgetsAssumption DEF Shape, TypeOK, Hangs, Nodes
    <2>5. WillLeadTo(t, a)
        BY <2>2, <2>4, ChainsKept
    <2>6. (a \in Above(n) /\ a # parent[n])'
        BY <1>3, <2>2, <2>3, <2>5, FromAboveAfter
    <2>7. QED
        BY <1>1, <1>3, <2>1, <2>6 DEF Draws, DrawsByManagedOnly
<1>4. QED
    BY <1>2, <1>3 DEF Draws, DrawsByManagedOnly, AllocationsFromAbove

\* SetAllocation: the budget drawn from is checked to be further up.
LEMMA AllocateStep ==
    ASSUME TypeOK, TypeOK', Draws, NEW p \in Projects, NEW b \in Budgets, NEW v,
           SetAllocation(p, b, v)
    PROVE  Draws'
<1>1. ASSUME NEW q \in Projects, NEW a \in Budgets, alloc'[q][a] > 0
      PROVE  /\ status'[q] \notin {"absent", "imported"}
             /\ Live(q)' => (a \in Above(q) /\ a # parent[q])'
    <2>1. parent' = parent /\ status' = status
        BY DEF SetAllocation
    <2>2. CASE q = p /\ a = b
        <3>1. Live(p) /\ b \in Above(p) /\ b # parent[p]
            BY DEF SetAllocation
        <3>2. (b \in Above(p))'
            BY <2>1, <3>1 DEF Above, Chain, LeadsTo, Closed
        <3>3. QED
            BY <2>1, <2>2, <3>1, <3>2 DEF Live, Present
    <2>3. CASE ~(q = p /\ a = b)
        <3>1. alloc'[q][a] = alloc[q][a]
            BY <2>3 DEF SetAllocation, TypeOK
        <3>2. StaysPut(q)
            BY <2>1 DEF StaysPut, Live, Present, Terminal, Retired
        <3>3. QED
            BY <1>1, <2>1, <3>1, <3>2, ChainsKept, StayingDraws
    <2>4. QED
        BY <2>2, <2>3
<1>2. QED
    BY <1>1 DEF Draws, DrawsByManagedOnly, AllocationsFromAbove

\* Deletions leave the chains of what stays.
LEMMA RemoveStep ==
    ASSUME Shape, TypeOK', Draws, NEW S \in SUBSET Nodes, Cuts(S), Remove(S)
    PROVE  Draws'
<1>1. ASSUME NEW p \in Projects, NEW a \in Budgets, alloc'[p][a] > 0
      PROVE  /\ status'[p] \notin {"absent", "imported"}
             /\ Live(p)' => (a \in Above(p) /\ a # parent[p])'
    <2>1. p \in Nodes \ S /\ alloc'[p][a] = alloc[p][a]
        BY <1>1 DEF Remove, Nodes
    <2>2. status'[p] = status[p] /\ parent'[p] = parent[p] /\ parent[p] \notin S
        BY <2>1 DEF Cuts
    <2>3. StaysPut(p)
        BY <2>2 DEF StaysPut, Live, Present, Terminal, Retired
    <2>4. QED
        BY <1>1, <2>1, <2>2, <2>3, ChainsSurviveCuts, StayingDraws DEF Shape
<1>2. QED
    BY <1>1 DEF Draws, DrawsByManagedOnly, AllocationsFromAbove

\* Nothing is drawn from the bootstrapped tree.
LEMMA DrawsInit == Init => Draws
BY BudgetsAssumption DEF Init, Draws, DrawsByManagedOnly, AllocationsFromAbove, Nodes

\* Every operation keeps allocations coming from above.
LEMMA DrawsStep == Shape /\ Draws /\ [Next]_vars => Draws'
<1> SUFFICES ASSUME Shape, Draws, [Next]_vars PROVE Draws'
    OBVIOUS
<1>0. TypeOK /\ TypeOK' /\ Projects \subseteq Nodes /\ Budgets \cap Projects = {}
    BY TypeStep, BudgetsAssumption DEF Shape, Nodes
\* What takes no budget anywhere and no allocation, one project at a time.
<1> DEFINE Quiet ==
        /\ alloc' = alloc
        /\ \A b \in Budgets : parent'[b] = parent[b]
        /\ \A p \in Projects : StaysPut(p)
<1> USE DEF StaysPut, Live, Present, Terminal, Retired
<1>1. ASSUME NEW n \in Nodes, UNCHANGED <<parent, alloc>>,
             \A m \in Nodes \ {n} : status'[m] = status[m],
             status[n] \notin {"absent", "imported"} =>
                 status'[n] \notin {"absent", "imported"} /\ (Live(n)' => Live(n))
      PROVE  Quiet
    BY <1>0, <1>1
<1>2. CASE RequestProject
    <2>1. Quiet
        BY <1>0, <1>2 DEF RequestProject, CreateProject, TypeOK
    <2>2. QED
        BY <1>0, <2>1, QuietStep
<1>3. CASE RequestBudget
    <2>1. PICK c \in Budgets \ {Root, Unassigned}, b \in Budgets :
              \/ CreateInheriting(c, b)
              \/ \E l \in BudgetLimits, granted \in BOOLEAN : CreateBudget(c, b, l, granted)
        BY <1>3 DEF RequestBudget
    <2>2. Hangs(c, b) /\ ~Present(c)
        BY <2>1, NewBudgetHangs
    <2>3. alloc' = alloc
        BY <2>1 DEF CreateInheriting, CreateBudget
    <2>4. QED
        BY <1>0, <2>2, <2>3, NewBudgetStep
<1>4. ASSUME NEW n \in Nodes, NEW l, AmendRequest(n, l) \/ ProposeChange(n, l)
      PROVE  Quiet
    BY <1>0, <1>1, <1>4 DEF AmendRequest, ProposeChange, Active, TypeOK
<1>5. ASSUME NEW p \in Projects, NEW l, ChangeDirectly(p, l)
      PROVE  Quiet
    BY <1>0, <1>1, <1>5 DEF ChangeDirectly, Active, TypeOK
<1>6. ASSUME NEW n \in Nodes, Decide(n)
      PROVE  Quiet
    <2>1. ASSUME NEW l, ApproveNode(n, l) PROVE Quiet
        BY <1>0, <1>1, <2>1 DEF ApproveNode, Decidable, Waiting, TypeOK
    <2>2. ASSUME RejectNode(n) PROVE Quiet
        BY <1>0, <1>1, <2>2 DEF RejectNode, Decidable, Waiting, TypeOK
    <2>3. QED
        BY <1>6, <2>1, <2>2 DEF Decide
<1>7. CASE EditBudget
    <2>1. UNCHANGED <<status, parent, alloc>>
        BY <1>7 DEF EditBudget, KeepInheritedLimit, UpdateLimit, UpdateInherits
    <2>2. Quiet
        BY <2>1
    <2>3. QED
        BY <1>0, <2>2, QuietStep
<1>8. CASE Move
    <2>1. PICK n \in Movable, t \in Budgets : ReparentNode(n, t)
        BY <1>8 DEF Move
    <2>2. n \in Nodes
        BY <2>1, BoundsAssumption
    <2>3. QED
        BY <1>0, <2>1, <2>2, MoveHangs, MoveStep
<1>9. CASE Allocate
    BY <1>0, <1>9, AllocateStep DEF Allocate
<1>10. CASE PromoteImport
    <2>1. Quiet
        BY <1>0, <1>10, BudgetsAssumption DEF PromoteImport, PromoteNode, TypeOK
    <2>2. QED
        BY <1>0, <2>1, QuietStep
<1>11. CASE Delete
    <2>1. PICK b \in Budgets : DeleteNode(b)
        BY <1>11 DEF Delete
    <2>2. PICK S \in SUBSET Nodes : S = {b} \cup {n \in Nodes : parent[n] \in Below(b)}
        BY DEF Nodes
    <2>3. Remove(S)
        BY <2>1, <2>2 DEF DeleteNode, Remove
    <2>4. Cuts(S)
        BY <2>1, <2>2, DeleteCuts DEF Cuts
    <2>5. QED
        BY <1>0, <2>3, <2>4, RemoveStep
<1>12. CASE ObserveImport
    <2>1. PICK p \in Imports, l \in ImportLimits, used \in InUseLevels \cup {NotMeasured} :
              AddImport(p, l, used) \/ RefreshImport(p, l, used)
        BY <1>12 DEF ObserveImport
    <2>2. p \in Projects
        BY BudgetsAssumption
    <2>3. Quiet
        <3>1. CASE AddImport(p, l, used)
            BY <1>0, <2>2, <3>1 DEF AddImport, TypeOK
        <3>2. CASE RefreshImport(p, l, used)
            BY <3>2 DEF RefreshImport
        <3>3. QED
            BY <2>1, <3>1, <3>2
    <2>4. QED
        BY <1>0, <2>3, QuietStep
<1>13. CASE Observe
    <2>1. Quiet
        BY <1>13 DEF Observe, RecordObservation
    <2>2. QED
        BY <1>0, <2>1, QuietStep
<1>14. ASSUME NEW p \in Projects, Remove({p})
      PROVE  Draws'
    BY <1>0, <1>14, RemoveProjectCuts, RemoveStep
<1>15. CASE Retire
    <2>1. ASSUME NEW p \in Projects, ReleaseNode(p) \/ MarkArchived(p) PROVE Quiet
        BY <1>0, <1>1, <2>1 DEF ReleaseNode, MarkArchived, TypeOK
    <2>2. QED
        BY <1>0, <1>14, <1>15, <2>1, QuietStep DEF Retire, RemoveRetired
<1>16. CASE Adopt
    <2>1. ASSUME NEW p \in Projects, Promote(p) PROVE Quiet
        BY <1>0, <1>1, <2>1 DEF Promote, TypeOK
    <2>2. QED
        BY <1>0, <1>14, <1>16, <2>1, QuietStep, BudgetsAssumption DEF Adopt, RemoveImport
<1>17. CASE UNCHANGED vars
    <2>1. Quiet
        BY <1>17 DEF vars
    <2>2. QED
        BY <1>0, <2>1, QuietStep
<1>18. CASE ChangeProject
    BY <1>0, <1>4, <1>5, <1>18, QuietStep DEF ChangeProject
<1>19. CASE ChangeBudget
    BY <1>0, <1>4, <1>19, QuietStep DEF ChangeBudget, Nodes
<1>20. CASE ProposeOther
    BY <1>0, <1>4, <1>20, QuietStep, BoundsAssumption DEF ProposeOther
<1>21. CASE \E n \in Nodes : Decide(n)
    BY <1>0, <1>6, <1>21, QuietStep
<1>22. QED
    BY <1>2, <1>3, <1>7, <1>8, <1>9, <1>10, <1>11, <1>12, <1>13, <1>15, <1>16, <1>17,
       <1>18, <1>19, <1>20, <1>21 DEF Next

\* A project draws from budgets above its own only (SetAllocation,
\* checkAllocationsAfterMove).
THEOREM AllocationsFromAboveCorrect == Spec => []AllocationsFromAbove
<1>1. Shape /\ Draws => AllocationsFromAbove
    BY DEF Draws
<1>2. QED
    BY <1>1, ShapeInit, ShapeStep, DrawsInit, DrawsStep, PTL DEF Spec

-----------------------------------------------------------------------------
(* BudgetTree implements NodeLifecycle, and imports are set aside until they *)
(* are promoted. A proposal is kept by a node with a waiting change only     *)
(* (ProposalsWait), so what settles, releases or removes any other node      *)
(* leaves the open proposals as they are; and a deletion takes what is       *)
(* there, nothing structural, and nothing that blocks it.                    *)

(* Proposals *)

ProposalsWait == \A n \in Nodes : proposal[n] # NoProposal => status[n] = "change_pending"

\* Nothing is proposed in the bootstrapped tree.
LEMMA ProposalsInit == Init => ProposalsWait
BY DEF Init, ProposalsWait

\* Deleted nodes take their proposals along.
LEMMA RemoveProposals ==
    ASSUME ProposalsWait, NEW S, Remove(S)
    PROVE  ProposalsWait'
BY DEF Remove, ProposalsWait

\* Whatever ends the wait of a node clears its pending changes (ApproveNode,
\* RejectNode, RequestChange), and nothing else has any.
LEMMA ProposalsStep == TypeOK /\ ProposalsWait /\ [Next]_vars => ProposalsWait'
<1> SUFFICES ASSUME TypeOK, ProposalsWait, [Next]_vars PROVE ProposalsWait'
    OBVIOUS
<1> USE DEF TypeOK, ProposalsWait, Nodes
<1>1. CASE RequestProject
    BY <1>1 DEF RequestProject, CreateProject, Present
<1>2. CASE RequestBudget
    <2>1. PICK c \in Budgets, b \in Budgets :
              \/ CreateInheriting(c, b)
              \/ \E l \in BudgetLimits, granted \in BOOLEAN : CreateBudget(c, b, l, granted)
        BY <1>2 DEF RequestBudget
    <2>2. QED
        BY <2>1 DEF CreateInheriting, CreateBudget, Fresh, Present
<1>3. ASSUME NEW n \in Nodes, NEW l, AmendRequest(n, l) PROVE ProposalsWait'
    BY <1>3 DEF AmendRequest
<1>4. ASSUME NEW n \in Nodes, NEW l, ProposeChange(n, l) PROVE ProposalsWait'
    BY <1>4 DEF ProposeChange
<1>5. ASSUME NEW p \in Projects, NEW l, ChangeDirectly(p, l) PROVE ProposalsWait'
    BY <1>5 DEF ChangeDirectly
<1>6. ASSUME NEW n \in Nodes, Decide(n) PROVE ProposalsWait'
    <2>1. ASSUME NEW l, ApproveNode(n, l) PROVE ProposalsWait'
        BY <2>1 DEF ApproveNode
    <2>2. ASSUME RejectNode(n) PROVE ProposalsWait'
        BY <2>2 DEF RejectNode
    <2>3. QED
        BY <1>6, <2>1, <2>2 DEF Decide
<1>7. CASE EditBudget
    <2>1. UNCHANGED <<status, proposal>>
        BY <1>7 DEF EditBudget, KeepInheritedLimit, UpdateLimit, UpdateInherits
    <2>2. QED
        BY <2>1
<1>8. CASE Move
    BY <1>8 DEF Move, ReparentNode
<1>9. CASE Allocate
    BY <1>9 DEF Allocate, SetAllocation
<1>10. CASE PromoteImport
    BY <1>10 DEF PromoteImport, PromoteNode
<1>11. CASE Delete
    BY <1>11, RemoveProposals DEF Delete, DeleteNode
<1>12. CASE ObserveImport
    <2>1. PICK p \in Imports, l \in ImportLimits, used \in InUseLevels \cup {NotMeasured} :
              AddImport(p, l, used) \/ RefreshImport(p, l, used)
        BY <1>12 DEF ObserveImport
    <2>2. QED
        BY <2>1 DEF AddImport, RefreshImport, Present
<1>13. CASE Observe
    BY <1>13 DEF Observe, RecordObservation
<1>14. CASE Retire
    <2>1. ASSUME NEW p \in Projects, ReleaseNode(p) \/ MarkArchived(p) PROVE ProposalsWait'
        BY <2>1 DEF ReleaseNode, MarkArchived
    <2>2. QED
        BY <1>14, <2>1, RemoveProposals DEF Retire, RemoveRetired
<1>15. CASE Adopt
    <2>1. ASSUME NEW p \in Projects, Promote(p) PROVE ProposalsWait'
        BY <2>1 DEF Promote
    <2>2. QED
        BY <1>15, <2>1, RemoveProposals, BudgetsAssumption DEF Adopt, RemoveImport
<1>16. CASE UNCHANGED vars
    BY <1>16 DEF vars
<1>17. CASE ChangeProject
    BY <1>3, <1>4, <1>5, <1>17 DEF ChangeProject
<1>18. CASE ChangeBudget
    BY <1>3, <1>4, <1>18 DEF ChangeBudget
<1>19. CASE ProposeOther
    BY <1>4, <1>19, BoundsAssumption DEF ProposeOther
<1>20. QED
    BY <1>1, <1>2, <1>6, <1>7, <1>8, <1>9, <1>10, <1>11, <1>12, <1>13, <1>14, <1>15,
       <1>16, <1>17, <1>18, <1>19 DEF Next

-----------------------------------------------------------------------------
(* The refinement *)

Open == {n \in Nodes : proposal[n] # NoProposal}

LifeStep == [Life!Next]_<<status, Open>>

Become(n, s) == status' = [status EXCEPT ![n] = s]

\* The bootstrapped tree is where the life of the nodes begins.
LEMMA LifeInit == Init => Life!Init
BY BudgetsAssumption DEF Init, Life!Init, Life!Nodes, Nodes

\* One node changes its status, and no proposal is made or concluded.
LEMMA StatusStep ==
    ASSUME NEW n \in Nodes, Open' = Open,
           \/ status[n] = "absent" /\ (Become(n, "pending") \/ Become(n, "approved"))
           \/ status[n] = "pending" /\ (Become(n, "approved") \/ Become(n, "rejected"))
           \/ /\ n \in Projects
              /\ \/ status[n] = "absent" /\ Become(n, "imported")
                 \/ status[n] = "imported" /\ Become(n, "pending")
                 \/ status[n] = "approved" /\ Become(n, "released")
                 \/ status[n] = "released" /\ Become(n, "archived")
    PROVE  LifeStep
<1>1. CASE status[n] = "absent" /\ (Become(n, "pending") \/ Become(n, "approved"))
    BY <1>1 DEF LifeStep, Life!Next, Life!Request, Life!Become, Life!Nodes, Nodes, Become, Open
<1>2. CASE status[n] = "pending" /\ (Become(n, "approved") \/ Become(n, "rejected"))
    BY <1>2 DEF LifeStep, Life!Next, Life!Settle, Life!Become, Life!Nodes, Nodes, Become, Open
<1>3. CASE n \in Projects /\ status[n] = "absent" /\ Become(n, "imported")
    BY <1>3 DEF LifeStep, Life!Next, Life!Find, Life!Become, Become, Open
<1>4. CASE n \in Projects /\ status[n] = "imported" /\ Become(n, "pending")
    BY <1>4 DEF LifeStep, Life!Next, Life!Adopt, Life!Become, Become, Open
<1>5. CASE n \in Projects /\ status[n] = "approved" /\ Become(n, "released")
    BY <1>5 DEF LifeStep, Life!Next, Life!Release, Life!Become, Become, Open
<1>6. CASE n \in Projects /\ status[n] = "released" /\ Become(n, "archived")
    BY <1>6 DEF LifeStep, Life!Next, Life!Archive, Life!Become, Become, Open
<1>7. QED
    BY <1>1, <1>2, <1>3, <1>4, <1>5, <1>6

\* A change is proposed or concluded.
LEMMA ChangeStep ==
    ASSUME NEW n \in Nodes, status[n] \in {"approved", "change_pending"},
           \/ Become(n, "change_pending") /\ Open' \in {Open \cup {n}, Open \ {n}}
           \/ Become(n, "approved") /\ Open' = Open \ {n}
    PROVE  LifeStep
BY DEF LifeStep, Life!Next, Life!Propose, Life!Conclude, Life!Become, Life!Nodes, Nodes, Become,
       Open

\* Nothing of the life of the nodes changes.
LEMMA LifeStutters ==
    ASSUME UNCHANGED <<status, proposal>>
    PROVE  LifeStep
BY DEF LifeStep, Open

\* A project is forgotten.
LEMMA ForgetStep ==
    ASSUME NEW p \in Projects, status[p] \in {"imported", "released", "archived"}, Remove({p})
    PROVE  LifeStep
<1>1. Open' = Open \ {p}
    BY DEF Open, Remove
<1>2. status' = [n \in Nodes |-> IF n \in {p} THEN "absent" ELSE status[n]]
    BY DEF Remove
<1>3. QED
    BY <1>1, <1>2 DEF LifeStep, Life!Next, Life!DropProject, Life!Vanish, Life!Nodes, Nodes, Open

\* A budget is deleted with what is below it.
LEMMA DropStep ==
    ASSUME Shape, NEW b \in Budgets, DeleteNode(b)
    PROVE  LifeStep
<1>1. PICK S \in SUBSET Nodes : S = {b} \cup {n \in Nodes : parent[n] \in Below(b)}
    BY DEF Nodes
<1>2. Remove(S) /\ \A n \in S \ {b} : ~BlocksDelete(n)
    BY <1>1 DEF DeleteNode, Remove
<1>3. Cuts(S)
    BY <1>1, DeleteCuts DEF Cuts
<1>4. \A n \in S : Present(n)
    <2>1. NoParent \notin Below(b) /\ Present(b)
        BY BudgetsAssumption DEF Below, DeleteNode
    <2>2. QED
        BY <1>1, <2>1 DEF Shape, AbsentDetached
<1>5. {n \in Nodes : status[n] # "absent" /\ status'[n] = "absent"} = S
    BY <1>2, <1>4 DEF Remove, Present
<1>6. b \in S \ ({Root, Unassigned} \cap Budgets)
    BY <1>1, <1>3 DEF Cuts
<1>7. ASSUME NEW n \in S \ {b}
      PROVE  \/ status[n] \in {"rejected", "released", "archived"}
             \/ status[n] = "approved" /\ n \in Budgets \ ({Root, Unassigned} \cap Budgets)
    <2>1. status[n] \in ProjectStatuses /\ n \in Nodes /\ Present(n) /\ ~BlocksDelete(n)
        BY <1>2, <1>4, <1>7 DEF Shape, TypeOK
    <2>2. n \notin {Root, Unassigned}
        BY <1>3, <1>7 DEF Cuts
    <2>3. QED
        BY <2>1, <2>2 DEF Present, BlocksDelete, Waiting, ProjectStatuses, BudgetStatuses, Nodes
<1>8. Open' = Open \ S
    BY <1>2 DEF Open, Remove
<1>9. status' = [n \in Nodes |-> IF n \in S THEN "absent" ELSE status[n]]
    BY <1>2 DEF Remove
<1>10. Life!DropBudget(b)
    BY <1>5, <1>6, <1>7, <1>8, <1>9 DEF Life!DropBudget, Life!Vanish, Life!Nodes, Nodes, Open
<1>11. QED
    BY <1>10 DEF LifeStep, Life!Next

\* Clearing the pending changes of a node closes its proposal and no other.
LEMMA ClearCloses ==
    ASSUME TypeOK, NEW n \in Nodes, proposal' = [proposal EXCEPT ![n] = NoProposal]
    PROVE  Open' = Open \ {n}
BY DEF TypeOK, Open

\* Every operation is a step in the life of the nodes, or none.
LEMMA TreeStep == Shape /\ ProposalsWait /\ [Next]_vars => LifeStep
<1> SUFFICES ASSUME Shape, ProposalsWait, [Next]_vars PROVE LifeStep
    OBVIOUS
<1>0. TypeOK /\ Projects \subseteq Nodes /\ Budgets \subseteq Nodes /\ Imports \subseteq Projects
    BY BudgetsAssumption DEF Shape, Nodes
<1>1. CASE RequestProject
    <2>1. PICK p \in Projects, b \in Budgets, l \in LeafLimits, granted \in BOOLEAN :
              CreateProject(p, b, l, granted)
        BY <1>1 DEF RequestProject
    <2>2. QED
        BY <1>0, <2>1, StatusStep DEF CreateProject, Present, Become, Open
<1>2. CASE RequestBudget
    <2>1. PICK c \in Budgets, b \in Budgets :
              \/ CreateInheriting(c, b)
              \/ \E l \in BudgetLimits, granted \in BOOLEAN : CreateBudget(c, b, l, granted)
        BY <1>2 DEF RequestBudget
    <2>2. QED
        BY <1>0, <2>1, StatusStep DEF CreateInheriting, CreateBudget, Fresh, Present, Become, Open
<1>3. ASSUME NEW n \in Nodes, NEW l, AmendRequest(n, l) PROVE LifeStep
    BY <1>3, LifeStutters DEF AmendRequest
<1>4. ASSUME NEW n \in Nodes, NEW l, ProposeChange(n, l) PROVE LifeStep
    <2>1. Open' \in {Open \cup {n}, Open \ {n}}
        BY <1>0, <1>4 DEF ProposeChange, Open, TypeOK
    <2>2. QED
        BY <1>4, <2>1, ChangeStep DEF ProposeChange, Active, Become
<1>5. ASSUME NEW p \in Projects, NEW l, ChangeDirectly(p, l) PROVE LifeStep
    BY <1>0, <1>5, ClearCloses, ChangeStep DEF ChangeDirectly, Active, Become
<1>6. ASSUME NEW n \in Nodes, Decide(n) PROVE LifeStep
    <2>1. /\ Waiting(n)
          /\ Open' = Open \ {n}
          /\ \/ Become(n, "approved")
             \/ status[n] = "pending" /\ Become(n, "rejected")
        BY <1>0, <1>6, ClearCloses DEF Decide, ApproveNode, RejectNode, Decidable, Become
    <2>2. CASE status[n] = "pending"
        <3>1. Open' = Open
            BY <2>1, <2>2 DEF ProposalsWait, Open
        <3>2. QED
            BY <2>1, <2>2, <3>1, StatusStep
    <2>3. CASE status[n] = "change_pending"
        BY <2>1, <2>3, ChangeStep
    <2>4. QED
        BY <2>1, <2>2, <2>3 DEF Waiting
<1>7. CASE EditBudget
    BY <1>7, LifeStutters DEF EditBudget, KeepInheritedLimit, UpdateLimit, UpdateInherits
<1>8. CASE Move
    BY <1>8, LifeStutters DEF Move, ReparentNode
<1>9. CASE Allocate
    BY <1>9, LifeStutters DEF Allocate, SetAllocation
<1>10. CASE PromoteImport
    BY <1>10, LifeStutters DEF PromoteImport, PromoteNode
<1>11. CASE Delete
    BY <1>11, DropStep DEF Delete
<1>12. CASE ObserveImport
    <2>1. PICK p \in Imports, l \in ImportLimits, used \in InUseLevels \cup {NotMeasured} :
              AddImport(p, l, used) \/ RefreshImport(p, l, used)
        BY <1>12 DEF ObserveImport
    <2>2. CASE AddImport(p, l, used)
        BY <1>0, <2>2, StatusStep DEF AddImport, Present, Become, Open
    <2>3. CASE RefreshImport(p, l, used)
        BY <2>3, LifeStutters DEF RefreshImport
    <2>4. QED
        BY <2>1, <2>2, <2>3
<1>13. CASE Observe
    BY <1>13, LifeStutters DEF Observe, RecordObservation
<1>14. CASE Retire
    <2>1. ASSUME NEW p \in Projects, ReleaseNode(p) PROVE LifeStep
        <3>1. Open' = Open
            BY <1>0, <2>1, ClearCloses DEF ReleaseNode, ProposalsWait, Open
        <3>2. QED
            BY <1>0, <2>1, <3>1, StatusStep DEF ReleaseNode, Become
    <2>2. ASSUME NEW p \in Projects, MarkArchived(p) PROVE LifeStep
        BY <1>0, <2>2, StatusStep DEF MarkArchived, Become, Open
    <2>3. ASSUME NEW p \in Projects, RemoveRetired(p) PROVE LifeStep
        BY <2>3, ForgetStep DEF RemoveRetired, Retired
    <2>4. QED
        BY <1>14, <2>1, <2>2, <2>3 DEF Retire
<1>15. CASE Adopt
    <2>1. ASSUME NEW p \in Projects, Promote(p) PROVE LifeStep
        BY <1>0, <2>1, StatusStep DEF Promote, Become, Open
    <2>2. ASSUME NEW p \in Projects, RemoveImport(p) PROVE LifeStep
        BY <2>2, ForgetStep DEF RemoveImport
    <2>3. QED
        BY <1>0, <1>15, <2>1, <2>2 DEF Adopt
<1>16. CASE UNCHANGED vars
    BY <1>16, LifeStutters DEF vars
<1>17. CASE ChangeProject
    BY <1>0, <1>3, <1>4, <1>5, <1>17 DEF ChangeProject
<1>18. CASE ChangeBudget
    BY <1>0, <1>3, <1>4, <1>18 DEF ChangeBudget
<1>19. CASE ProposeOther
    BY <1>4, <1>19, BoundsAssumption DEF ProposeOther
<1>20. QED
    BY <1>1, <1>2, <1>6, <1>7, <1>8, <1>9, <1>10, <1>11, <1>12, <1>13, <1>14, <1>15,
       <1>16, <1>17, <1>18, <1>19 DEF Next

\* The tree implements the life of its nodes: no operation takes a status out of
\* its order or loses a proposal, and no deletion takes a node that waits or is
\* in use (RejectNode, RequestChange, DeleteNode, Promote).
THEOREM LifecycleImplemented == Spec => ImplementsLifecycle
<1>1. LifeStep => [Life!Next]_<<status, Open>>
    BY DEF LifeStep
<1>2. QED
    BY <1>1, LifeInit, TreeStep, ShapeInit, ShapeStep, ProposalsInit, ProposalsStep, PTL
    DEF Spec, ImplementsLifecycle, Life!Spec, Shape, Open

-----------------------------------------------------------------------------
(* Imports *)

\* The bootstrapped tree has no import.
LEMMA ImportsInit == Init => ImportsSetAside
BY BudgetsAssumption DEF Init, ImportsSetAside, Nodes

\* A deleted import takes its flag along.
LEMMA RemoveImports ==
    ASSUME TypeOK, ImportsSetAside, NEW S, Remove(S)
    PROVE  ImportsSetAside'
<1>1. promoting' = promoting \ S
    BY DEF Remove
<1>2. /\ \A n \in Nodes \cap S : status'[n] = "absent"
      /\ \A n \in Nodes \ S : status'[n] = status[n] /\ parent'[n] = parent[n]
    BY DEF Remove
<1>3. Imports \subseteq Nodes /\ promoting \subseteq Nodes
    BY BudgetsAssumption DEF TypeOK, Nodes
<1>4. ASSUME NEW p \in Imports, status'[p] = "imported"
      PROVE  p \in promoting' <=> parent'[p] # Unassigned
    <2>1. p \in Nodes
        BY <1>3
    <2>2. p \notin S
        <3>1. "imported" # "absent"
            OBVIOUS
        <3>2. QED
            BY <1>2, <1>4, <2>1, <3>1
    <2>3. status[p] = "imported" /\ parent'[p] = parent[p]
        BY <1>2, <1>4, <2>1, <2>2
    <2>4. QED
        BY <1>1, <2>2, <2>3 DEF ImportsSetAside
<1>5. ASSUME NEW p \in promoting' PROVE status'[p] = "imported"
    BY <1>1, <1>2, <1>3, <1>5 DEF ImportsSetAside
<1>6. QED
    BY <1>4, <1>5 DEF ImportsSetAside

\* The tree and the flags are as before, and no status becomes or was that of an import.
LEMMA ImportsUntouched ==
    ASSUME TypeOK, ImportsSetAside, NEW n \in Nodes, NEW s,
           status' = [status EXCEPT ![n] = s], UNCHANGED <<parent, promoting>>,
           status[n] # "imported", s # "imported"
    PROVE  ImportsSetAside'
BY BudgetsAssumption DEF TypeOK, ImportsSetAside, Nodes

\* Only the promotion of an import moves it, only to a chosen budget, and only
\* the reconciler unsets the flag, with the status (PromoteNode, Promote).
LEMMA ImportsStep == TypeOK /\ ImportsSetAside /\ [Next]_vars => ImportsSetAside'
<1> SUFFICES ASSUME TypeOK, ImportsSetAside, [Next]_vars PROVE ImportsSetAside'
    OBVIOUS
<1>0. Projects \subseteq Nodes /\ Budgets \subseteq Nodes /\ Imports \subseteq Projects
    BY BudgetsAssumption DEF Nodes
<1>k. ASSUME UNCHANGED <<status, parent, promoting>> PROVE ImportsSetAside'
    BY <1>k DEF ImportsSetAside
<1>m. ASSUME NEW n \in Nodes, NEW b, NEW s,
             status[n] # "imported", s # "imported",
             status' = [status EXCEPT ![n] = s],
             parent' = [parent EXCEPT ![n] = b], UNCHANGED promoting
      PROVE  ImportsSetAside'
    BY <1>0, <1>m DEF TypeOK, ImportsSetAside
<1>1. CASE RequestProject
    <2>1. PICK p \in Projects, b \in Budgets, l \in LeafLimits, granted \in BOOLEAN :
              CreateProject(p, b, l, granted)
        BY <1>1 DEF RequestProject
    <2>2. QED
        BY <1>0, <1>m, <2>1 DEF CreateProject, Present
<1>2. CASE RequestBudget
    <2>1. PICK c \in Budgets, b \in Budgets :
              \/ CreateInheriting(c, b)
              \/ \E l \in BudgetLimits, granted \in BOOLEAN : CreateBudget(c, b, l, granted)
        BY <1>2 DEF RequestBudget
    <2>2. QED
        BY <1>0, <1>m, <2>1 DEF CreateInheriting, CreateBudget, Fresh, Present
<1>3. ASSUME NEW n \in Nodes, NEW l, AmendRequest(n, l) PROVE ImportsSetAside'
    BY <1>3, <1>k DEF AmendRequest
<1>4. ASSUME NEW n \in Nodes, NEW l, ProposeChange(n, l) PROVE ImportsSetAside'
    BY <1>4, ImportsUntouched DEF ProposeChange, Active
<1>5. ASSUME NEW p \in Projects, NEW l, ChangeDirectly(p, l) PROVE ImportsSetAside'
    BY <1>0, <1>5, ImportsUntouched DEF ChangeDirectly, Active
<1>6. ASSUME NEW n \in Nodes, Decide(n) PROVE ImportsSetAside'
    <2>1. ASSUME NEW l, ApproveNode(n, l) PROVE ImportsSetAside'
        BY <2>1, ImportsUntouched DEF ApproveNode, Decidable, Waiting
    <2>2. ASSUME RejectNode(n) PROVE ImportsSetAside'
        <3>1. PICK s \in {"rejected", "approved"} : status' = [status EXCEPT ![n] = s]
            BY <2>2 DEF RejectNode
        <3>2. QED
            BY <2>2, <3>1, ImportsUntouched DEF RejectNode, Decidable, Waiting
    <2>3. QED
        BY <1>6, <2>1, <2>2 DEF Decide
<1>7. CASE EditBudget
    BY <1>7, <1>k DEF EditBudget, KeepInheritedLimit, UpdateLimit, UpdateInherits
<1>8. CASE Move
    <2>1. PICK n \in Nodes, t \in Budgets : ReparentNode(n, t)
        BY <1>8, BoundsAssumption DEF Move
    <2>2. QED
        BY <1>0, <2>1 DEF ReparentNode, Live, TypeOK, ImportsSetAside
<1>9. CASE Allocate
    BY <1>9, <1>k DEF Allocate, SetAllocation
<1>10. CASE PromoteImport
    BY <1>0, <1>10 DEF PromoteImport, PromoteNode, Target, TypeOK, ImportsSetAside
<1>11. CASE Delete
    BY <1>11, RemoveImports DEF Delete, DeleteNode
<1>12. CASE ObserveImport
    <2>1. PICK p \in Imports, l \in ImportLimits, used \in InUseLevels \cup {NotMeasured} :
              AddImport(p, l, used) \/ RefreshImport(p, l, used)
        BY <1>12 DEF ObserveImport
    <2>2. CASE AddImport(p, l, used)
        <3>1. p \notin promoting /\ p \in Nodes /\ promoting' = promoting
            BY <1>0, <2>2 DEF AddImport, Present, ImportsSetAside
        <3>2. /\ parent'[p] = Unassigned
              /\ \A n \in Nodes \ {p} : status'[n] = status[n] /\ parent'[n] = parent[n]
            BY <2>2, <3>1 DEF AddImport, TypeOK
        <3>3. promoting \subseteq Nodes /\ Imports \subseteq Nodes
            BY <1>0 DEF TypeOK
        <3>4. QED
            BY <3>1, <3>2, <3>3 DEF ImportsSetAside
    <2>3. CASE RefreshImport(p, l, used)
        BY <1>k, <2>3 DEF RefreshImport
    <2>4. QED
        BY <2>1, <2>2, <2>3
<1>13. CASE Observe
    BY <1>13, <1>k DEF Observe, RecordObservation
<1>14. CASE Retire
    <2>1. ASSUME NEW p \in Projects, ReleaseNode(p) \/ MarkArchived(p) PROVE ImportsSetAside'
        BY <1>0, <2>1, ImportsUntouched DEF ReleaseNode, MarkArchived
    <2>2. QED
        BY <1>14, <2>1, RemoveImports DEF Retire, RemoveRetired
<1>15. CASE Adopt
    <2>1. ASSUME NEW p \in Imports, Promote(p) PROVE ImportsSetAside'
        BY <1>0, <2>1 DEF Promote, TypeOK, ImportsSetAside
    <2>2. QED
        BY <1>15, <2>1, RemoveImports DEF Adopt, RemoveImport
<1>16. CASE UNCHANGED vars
    BY <1>16, <1>k DEF vars
<1>17. CASE ChangeProject
    BY <1>0, <1>3, <1>4, <1>5, <1>17 DEF ChangeProject
<1>18. CASE ChangeBudget
    BY <1>0, <1>3, <1>4, <1>18 DEF ChangeBudget
<1>19. CASE ProposeOther
    BY <1>4, <1>19, BoundsAssumption DEF ProposeOther
<1>20. QED
    BY <1>1, <1>2, <1>6, <1>7, <1>8, <1>9, <1>10, <1>11, <1>12, <1>13, <1>14, <1>15,
       <1>16, <1>17, <1>18, <1>19 DEF Next

\* An import lies under Unassigned until its promotion is asked for, it lies
\* elsewhere and is flagged from then on until the reconciler adopts it, and
\* nothing but an import is ever flagged (PromoteNode, RefreshImport, Promote).
THEOREM ImportsStaySetAside == Spec => []ImportsSetAside
BY ImportsInit, ImportsStep, ShapeInit, ShapeStep, PTL DEF Spec, Shape

=============================================================================
