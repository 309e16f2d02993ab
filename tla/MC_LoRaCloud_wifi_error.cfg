\* A WiFi resolver error: does a LocationEvent without a resolved fix
\* reach the sink?
CONSTANTS
    d1 = d1
    d2 = d2
    u1 = u1
    u2 = u2
    u3 = u3
    Devices = {d1, d2}
    Uplinks = {u1, u2}
    DevEui <- MCDevEui
    FCnt <- MCFCnt
    FrameShapes <- MCFrameShapes
    Objects <- MCObjects
    Configs <- MCStrategyConfigs
    MaxDeliveries = 1
SPECIFICATION Spec
INVARIANT
    EventCarriesResolvedFix
CHECK_DEADLOCK FALSE
