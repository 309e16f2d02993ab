\* Strategy selection over GNSS/WiFi object fields and a buffer shared by
\* two uplinks of one device; resolver answers location, none or error.
CONSTANTS
    d1 = d1
    d2 = d2
    u1 = u1
    u2 = u2
    u3 = u3
    Devices = {d1, d2}
    Uplinks = {u1, u2}
    DevEui <- MCDevEui
    FCnt <- MCFCnt
    FrameShapes <- MCFrameShapes
    Objects <- MCObjects
    Configs <- MCStrategyConfigs
    MaxDeliveries = 1
SPECIFICATION Spec
INVARIANTS
    TypeOK
    BufferedRequestWellFormed
    UplinkIdRoundTrip
    NewestFrameLast
CHECK_DEADLOCK FALSE
