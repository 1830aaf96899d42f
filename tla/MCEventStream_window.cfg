CONSTANTS
    Topic <- ThreeTopics
    MaxVersion = 1
    MaxFailures = 0
SPECIFICATION Spec
INVARIANT
    SnapshotBridges
CHECK_DEADLOCK FALSE
