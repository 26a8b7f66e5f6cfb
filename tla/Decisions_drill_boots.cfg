CONSTANTS
    LowestVmid = 1
    ScanWindow = 3
    ScanPerGuest = 1
    Vmids = {0, 1, 2, 3, 4}
    MaxGuests = 4
    Nodes = {"n1", "n2"}
    Storages = {"s1"}
    MaxJobs = 2
    Inventories <- SmallInventories
    Groups <- AllGroups
    Cutoffs = {1, 2}
    TagsIn <- Tagged
    Sites <- AllSites
    PlanMembers <- SmallMembers
    Locations <- AllLocations
    Asks <- AllAsks
    Policies <- SmallPolicies
SPECIFICATION Spec
INVARIANT
    BootsNeedIsolation
CHECK_DEADLOCK FALSE
