\* The store seen through the refinement mapping: three uplinks on two
\* devices, each delivered up to twice, racing on the buffer with store
\* failures and expiry.
CONSTANTS
    d1 = d1
    d2 = d2
    u1 = u1
    u2 = u2
    u3 = u3
    Devices = {d1, d2}
    Uplinks = {u1, u2, u3}
    DevEui <- MCDevEui
    FCnt <- MCFCnt
    FrameShapes <- MCStoreFrameShapes
    Objects <- MCEmptyObjects
    Configs <- MCStoreConfigs
    MaxDeliveries = 2
SPECIFICATION HSpec
PROPERTY
    BufferRefinesStore
CHECK_DEADLOCK FALSE
