CONSTANTS
    Root = root
    Unassigned = unassigned
    NoParent = NoParent
    Unlimited = Unlimited
    NoProposal = NoProposal
    NotMeasured = NotMeasured
    Budgets = {root, b1, b2}
    Projects = {p1}
    Imports = {}
    BudgetLimits = {1, 2}
    LeafLimits = {1}
    AllocLimits = {0, 1}
    ImportLimits = {}
    InUseLevels = {2}
    Changeable = {b1, b2, p1}
    Movable = {b1, b2, p1}
    ChargeInUse = TRUE
    ChargeReleased = TRUE
    ChargeArchived = FALSE
SPECIFICATION Spec
SYMMETRY Symmetry
INVARIANTS
    ParentsActive
    AllocationsFromAbove
    AccountingsAgreeUnlessStranded
PROPERTIES
    OverbookedOnlyUnchecked
