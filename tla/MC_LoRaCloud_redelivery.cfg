\* The buffered strategies when the dispatcher redelivers an uplink whose
\* call failed: two uplinks of one device, two deliveries each.
CONSTANTS
    d1 = d1
    d2 = d2
    u1 = u1
    u2 = u2
    u3 = u3
    Devices = {d1, d2}
    Uplinks = {u1, u2}
    DevEui <- MCDevEui
    FCnt <- MCFCnt
    FrameShapes <- MCFrameShapes
    Objects <- MCEmptyObjects
    Configs <- MCBufferedConfigs
    MaxDeliveries = 2
SPECIFICATION Spec
INVARIANTS
    TypeOK
    BufferedRequestWellFormed
    UplinkIdRoundTrip
    NewestFrameLast
CHECK_DEADLOCK FALSE
