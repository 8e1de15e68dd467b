CONSTANTS
    Root = root
    Unassigned = unassigned
    NoParent = NoParent
    Unlimited = Unlimited
    NoProposal = NoProposal
    NotMeasured = NotMeasured
    Budgets = {root, b1}
    Projects = {p1}
    Imports = {}
    BudgetLimits = {1}
    LeafLimits = {1}
    AllocLimits = {}
    ImportLimits = {}
    InUseLevels = {}
    Changeable = {root, b1, p1}
    Movable = {}
    ChargeInUse = TRUE
    ChargeReleased = TRUE
    ChargeArchived = FALSE
SPECIFICATION FairSpec
PROPERTIES
    ProposalsAreDecided
