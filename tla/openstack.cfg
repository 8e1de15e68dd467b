CONSTANTS
    Parts = {"Purge", "Passes", "Access", "Quotas"}
    User = User
    Group = Group
    Items <- PurgedItems
    Kind <- KindOf
    Foreign = {"foreign"}
    Defaults = {"default"}
    Makes <- MakesOf
    Holds <- HoldsOf
    Users = {User}
    Groups = {Group}
    Skip = {"images"}
    MaxObjects = 1
    ObjectsPerPass = 1
    MaxFailures = 1
    MaxRemoved = 0
    Providers = {"openstack", "aiaas"}
    OpenStack = "openstack"
    MaxFollowUps = 1
    MaxTimers = 1
    Counts = {"ram", "storage"}
    ServiceOf <- Services
    Multiplier <- Multipliers
    MaxOSQuota = 3
    Avail = {"net", "image"}
    GrantType <- GrantTypes
    Wants <- Limits
    Uses <- UsesSeen
    Projects <- QuotaProjects
    NotMeasured = NotMeasured
    MaxEdits = 2
    MaxMishaps = 1
    AccessMaxEdits = 1
    AccessMaxMishaps = 1
SPECIFICATION Spec
INVARIANTS
    TypeOK
PROPERTIES
    LockedOut
    NothingLeftBehind
    Emptied
    PassesComeAndEnd
    RoleKept
    MembersReached
    NothingFailsSilently
    QuotasCarriedOut
CHECK_DEADLOCK FALSE
