----------------------------- MODULE MCService -----------------------------
(***************************************************************************)
(* Components of the service and of the AIaaS provider, for TLC: side by   *)
(* side in one state, one of which, chosen by the initial state, takes its *)
(* steps. They share nothing but this module. Their properties are checked *)
(* as they are: what does not run satisfies them in its initial state.     *)
(*                                                                         *)
(* Fairness: a pass, a recording and a request that run go on. Nobody need *)
(* ask for anything.                                                       *)
(***************************************************************************)
EXTENDS Availability, Lab, Books, NodeWrites

CONSTANTS
    Parts          \* the components that may be chosen

-----------------------------------------------------------------------------
(* What the components work on *)

LabKinds == [hours |-> "window", gpu |-> "gpus", space |-> "storage"]
LabLimit(hours, gpu, space) == [hours |-> hours, gpu |-> gpu, space |-> space]
LabLimits == {LabLimit(0, 0, 0), LabLimit(5, 2, 0), LabLimit(-1, -1, -1)}

-----------------------------------------------------------------------------
VARIABLES
    part        \* the component that was chosen

vars == <<part, availabilityVars, labVars, booksVars, nodeWritesVars>>

ASSUME Assumptions ==
    /\ Parts \subseteq {"Availability", "Lab", "Books", "NodeWrites"}
    /\ AvailabilityAssumption /\ LabAssumption /\ BooksAssumption /\ NodeWritesAssumption

\* The components that were not chosen stay in one initial state.
Aside ==
    /\ part # "Availability" => standing = "project" /\ held = 1
    /\ part # "Lab" => limit = LabLimit(0, 0, 0) /\ end = 0
    /\ part # "Books" => holding = {} /\ place = [p \in Metered |-> "b1"]
    /\ part # "NodeWrites" => imported = FALSE

Init ==
    /\ part \in Parts
    /\ Aside
    /\ AvailabilityInit /\ LabInit /\ BooksInit /\ NodeWritesInit

OnlyAvailability ==
    /\ part = "Availability"
    /\ UNCHANGED <<part, labVars, booksVars, nodeWritesVars>>

OnlyLab ==
    /\ part = "Lab"
    /\ UNCHANGED <<part, availabilityVars, booksVars, nodeWritesVars>>

OnlyBooks ==
    /\ part = "Books"
    /\ UNCHANGED <<part, availabilityVars, labVars, nodeWritesVars>>

OnlyNodeWrites ==
    /\ part = "NodeWrites"
    /\ UNCHANGED <<part, availabilityVars, labVars, booksVars>>

Next ==
    \/ OnlyAvailability /\ AvailabilityNext
    \/ OnlyLab /\ LabNext
    \/ OnlyBooks /\ BooksNext
    \/ OnlyNodeWrites /\ NodeWritesNext

\* One component runs, so these are fair if the step of that one is.
GoesOn ==
    \/ OnlyAvailability /\ PassStep
    \/ OnlyLab /\ LabStep
    \/ OnlyBooks /\ BooksStep
    \/ OnlyNodeWrites /\ ProviderStep

Spec ==
    /\ Init /\ [][Next]_vars
    /\ WF_vars(GoesOn)
    /\ \A a \in Admins : WF_vars(OnlyAvailability /\ AdminStep(a))
    /\ \A h \in Handlers : WF_vars(OnlyNodeWrites /\ RequestStep(h))

-----------------------------------------------------------------------------
\* Every variable of the component that runs keeps its type.
TypeOK ==
    /\ part = "Availability" => AvailabilityTypeOK
    /\ part = "Lab" => LabTypeOK
    /\ part = "Books" => BooksTypeOK
    /\ part = "NodeWrites" => NodeWritesTypeOK

=============================================================================
