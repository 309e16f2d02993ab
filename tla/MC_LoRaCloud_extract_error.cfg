\* An object_json the WiFi extractor cannot parse (line 188): is the next
\* strategy (here RSSI) tried, as spec.md section 7 says?
CONSTANTS
    d1 = d1
    d2 = d2
    u1 = u1
    u2 = u2
    u3 = u3
    Devices = {d1, d2}
    Uplinks = {u1, u2}
    DevEui <- MCDevEui
    FCnt <- MCFCnt
    FrameShapes <- MCFrameShapes
    Objects <- MCObjects
    Configs <- MCStrategyConfigs
    MaxDeliveries = 1
SPECIFICATION Spec
INVARIANT
    ExtractErrorSkipsStrategy
CHECK_DEADLOCK FALSE
