\* TDOA and RSSI over a buffer shared by two racing uplinks of one device,
\* with store failures and expiry; a third uplink on another device.
CONSTANTS
    d1 = d1
    d2 = d2
    u1 = u1
    u2 = u2
    u3 = u3
    Devices = {d1, d2}
    Uplinks = {u1, u2, u3}
    DevEui <- MCDevEui
    FCnt <- MCFCnt
    FrameShapes <- MCFrameShapes
    Objects <- MCEmptyObjects
    Configs <- MCBufferedConfigs
    MaxDeliveries = 1
SPECIFICATION Spec
INVARIANTS
    TypeOK
    BufferHoldsOwnDeviceFrames
    BufferedRequestWellFormed
    UplinkIdRoundTrip
    NewestFrameLast
CHECK_DEADLOCK FALSE
