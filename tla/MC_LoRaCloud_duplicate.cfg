\* Redelivery after a failure that followed a successful save: can a
\* LocationEvent list one uplink id twice?
CONSTANTS
    d1 = d1
    d2 = d2
    u1 = u1
    u2 = u2
    u3 = u3
    Devices = {d1, d2}
    Uplinks = {u1, u2}
    DevEui <- MCDevEui
    FCnt <- MCFCnt
    FrameShapes <- MCFrameShapes
    Objects <- MCEmptyObjects
    Configs <- MCBufferedConfigs
    MaxDeliveries = 2
SPECIFICATION Spec
INVARIANT
    NoDuplicateUplinkIds
CHECK_DEADLOCK FALSE
