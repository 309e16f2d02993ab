\* WiFi access-point lists with MACs of 6, 4 and 8 bytes, one uplink.
CONSTANTS
    d1 = d1
    d2 = d2
    u1 = u1
    u2 = u2
    u3 = u3
    Devices = {d1, d2}
    Uplinks = {u1}
    DevEui <- MCDevEui
    FCnt <- MCFCnt
    FrameShapes <- MCFrameShapes
    Objects <- MCMacObjects
    Configs <- MCWifiConfigs
    MaxDeliveries = 1
SPECIFICATION Spec
INVARIANT
    WifiMacsAreSixBytes
CHECK_DEADLOCK FALSE
