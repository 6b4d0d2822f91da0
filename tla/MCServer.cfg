\* Two replicas of different releases boot, serve a request, run one job and
\* stop, over and over, with two failing calls or crashes.  No symmetry: liveness.
SPECIFICATION FairSpec
CONSTANTS
    Replica = {p1, p2}
    Oldest = p1
    Files <- Release
    NoOne = none
    Job = {j}
    MaxInFlight = 1
    MaxFaults = 2
INVARIANTS
    TypeOK
    AppliedInOrder
    BootUncontended
    ServesMigrated
    PoolOutlivesRequests
PROPERTIES
    BootEnds
    JobsGoOn
    ShutdownEnds
