--------------------------- MODULE LoRaCloudProofs ---------------------------
(***************************************************************************)
(* Proofs about LoRaCloud for every value of its constants: the handler    *)
(* state is well typed, and the geolocation buffers only ever hold frames  *)
(* of delivered uplinks of their own device, whatever the interleaving of  *)
(* the handlers, the store failures, expiries and redeliveries.            *)
(***************************************************************************)
EXTENDS LoRaCloud, SequenceTheorems, TLAPS

-----------------------------------------------------------------------------
(* Lemmas about the helpers of updateGeolocBuffer.                         *)

\* The append of updateGeolocBuffer keeps a buffer of >= 3-reception frames.
LEMMA AppendFrameType ==
  ASSUME NEW b \in Seq(BufferedFrame), NEW f \in Frame
  PROVE  AppendFrame(b, f) \in Seq(BufferedFrame)
<1>1. CASE Len(f) >= 3
  <2>1. f \in BufferedFrame  BY <1>1 DEF BufferedFrame
  <2>2. QED  BY <1>1, <2>1, AppendProperties DEF AppendFrame
<1>2. CASE ~(Len(f) >= 3)  BY <1>2 DEF AppendFrame
<1>3. QED  BY <1>1, <1>2

\* Every frame of the appended buffer is the new frame or one of the old.
LEMMA AppendFrameElements ==
  ASSUME NEW b \in Seq(Frame), NEW f \in Frame
  PROVE  /\ AppendFrame(b, f) \in Seq(Frame)
         /\ \A i \in 1..Len(AppendFrame(b, f)) :
              \/ AppendFrame(b, f)[i] = f
              \/ \E k \in 1..Len(b) : AppendFrame(b, f)[i] = b[k]
<1>1. CASE Len(f) >= 3
  <2>1. AppendFrame(b, f) = Append(b, f)  BY <1>1 DEF AppendFrame
  <2>2. QED  BY <2>1, AppendProperties
<1>2. CASE ~(Len(f) >= 3)
  <2>1. AppendFrame(b, f) = b  BY <1>2 DEF AppendFrame
  <2>2. QED  BY <2>1
<1>3. QED  BY <1>1, <1>2

\* The frame of an uplink built by Init is a frame.
LEMMA FrameOfType ==
  ASSUME NEW u \in Uplinks, NEW shape \in Seq(BOOLEAN)
  PROVE  FrameOf(u, shape) \in Frame
<1>1. \A j \in 1..Len(shape) : <<u, j>> \in UplinkId  BY DEF UplinkId
<1>2. QED  BY <1>1 DEF FrameOf, Frame, Reception

-----------------------------------------------------------------------------
(* Type correctness of the handler state.                                  *)

LEMMA InitStateType == Init => StateTypeOK
<1> SUFFICES ASSUME Init PROVE StateTypeOK  OBVIOUS
<1>1. PICK shape \in [Uplinks -> FrameShapes] :
        rxInfo = [u \in Uplinks |-> FrameOf(u, shape[u])]
  BY DEF Init
<1>2. rxInfo \in [Uplinks -> Frame]
  BY <1>1, FrameOfType, ConstantsAssumption
<1>3. store \in [Devices -> Seq(BufferedFrame)] /\ buf \in [Uplinks -> Seq(BufferedFrame)]
  BY EmptySeq DEF Init
<1>4. deliveries \in [Uplinks -> 0..MaxDeliveries]
  BY ConstantsAssumption DEF Init
<1>5. QED  BY <1>2, <1>3, <1>4 DEF Init, StateTypeOK, PcValues

LEMMA NextStateType == StateTypeOK /\ [Next]_vars => StateTypeOK'
<1> SUFFICES ASSUME StateTypeOK, [Next]_vars PROVE StateTypeOK'  OBVIOUS
<1> USE ConstantsAssumption DEF StateTypeOK
<1>1. ASSUME NEW u \in Uplinks, HandleUplinkEventDisabled(u) PROVE StateTypeOK'
  BY <1>1 DEF HandleUplinkEventDisabled, Deliverable, PcValues
<1>2. ASSUME NEW u \in Uplinks, UpdateGeolocBufferRead(u) PROVE StateTypeOK'
  <2>1. ReadGeolocBuffer(DevEui[u]) \in Seq(BufferedFrame)
    BY EmptySeq DEF ReadGeolocBuffer, GeolocBufferKey
  <2>2. AppendFrame(ReadGeolocBuffer(DevEui[u]), rxInfo[u]) \in Seq(BufferedFrame)
    BY <2>1, AppendFrameType
  <2>3. deliveries' \in [Uplinks -> 0..MaxDeliveries]
    BY <1>2 DEF UpdateGeolocBufferRead, Deliverable
  <2>4. buf' \in [Uplinks -> Seq(BufferedFrame)] /\ pc' \in [Uplinks -> PcValues]
    BY <1>2, <2>2 DEF UpdateGeolocBufferRead, PcValues
  <2>5. QED  BY <1>2, <2>3, <2>4 DEF UpdateGeolocBufferRead
<1>3. ASSUME NEW u \in Uplinks, UpdateGeolocBufferSave(u) PROVE StateTypeOK'
  <2>1. SaveGeolocBuffer(DevEui[u], buf[u]) \in [Devices -> Seq(BufferedFrame)]
    BY DEF SaveGeolocBuffer, GeolocBufferKey
  <2>2. QED  BY <1>3, <2>1 DEF UpdateGeolocBufferSave, PcValues
<1>4. ASSUME NEW u \in Uplinks, Geolocation(u) PROVE StateTypeOK'
  BY <1>4 DEF Geolocation, PcValues
<1>5. ASSUME NEW d \in Devices, Expire(d) PROVE StateTypeOK'
  BY <1>5, EmptySeq DEF Expire
<1>6. CASE UNCHANGED vars  BY <1>6 DEF vars
<1>7. QED  BY <1>1, <1>2, <1>3, <1>4, <1>5, <1>6 DEF Next

\* The handler state keeps its type (the StateTypeOK part of TypeOK).
THEOREM StateTypeCorrect == Spec => []StateTypeOK
BY InitStateType, NextStateType, PTL DEF Spec

-----------------------------------------------------------------------------
(* The buffers hold frames of delivered uplinks of their own device.       *)
(* Inductive invariant: the property itself with the state types; a frame *)
(* stays "delivered" because rx_info never changes and delivery counts     *)
(* only grow.                                                              *)

IInv == StateTypeOK /\ BufferHoldsOwnDeviceFrames

\* "Frame f of device d was delivered", with the state it reads explicit so
\* that the same operator speaks of the state before and after a step.
DF(f, d, rx, dl) == \E v \in Uplinks : DevEui[v] = d /\ f = rx[v] /\ dl[v] > 0
SOwn(st, rx, dl) == \A d \in Devices : \A i \in 1..Len(st[d]) : DF(st[d][i], d, rx, dl)
BOwn(b, u, rx, dl) == \A i \in 1..Len(b) : DF(b[i], DevEui[u], rx, dl)
Own(st, p, b, rx, dl) ==
  SOwn(st, rx, dl) /\ \A u \in Uplinks : p[u] \in {"read", "saved"} => BOwn(b[u], u, rx, dl)

LEMMA OwnIs ==
  /\ BufferHoldsOwnDeviceFrames <=> Own(store, pc, buf, rxInfo, deliveries)
  /\ BufferHoldsOwnDeviceFrames' <=> Own(store', pc', buf', rxInfo', deliveries')
BY DEF BufferHoldsOwnDeviceFrames, DeliveredFrameOf, Own, SOwn, BOwn, DF

\* No step changes rx_info or lowers a delivery count.
LEMMA DeliveriesGrow ==
  ASSUME StateTypeOK, [Next]_vars
  PROVE  rxInfo' = rxInfo /\ \A v \in Uplinks : deliveries'[v] >= deliveries[v]
<1> USE DEF StateTypeOK
<1>1. ASSUME NEW u \in Uplinks, HandleUplinkEventDisabled(u) PROVE rxInfo' = rxInfo /\ \A v \in Uplinks : deliveries'[v] >= deliveries[v]
  BY <1>1 DEF HandleUplinkEventDisabled
<1>2. ASSUME NEW u \in Uplinks, UpdateGeolocBufferRead(u) PROVE rxInfo' = rxInfo /\ \A v \in Uplinks : deliveries'[v] >= deliveries[v]
  BY <1>2 DEF UpdateGeolocBufferRead
<1>3. ASSUME NEW u \in Uplinks, UpdateGeolocBufferSave(u) PROVE rxInfo' = rxInfo /\ \A v \in Uplinks : deliveries'[v] >= deliveries[v]
  BY <1>3 DEF UpdateGeolocBufferSave
<1>4. ASSUME NEW u \in Uplinks, Geolocation(u) PROVE rxInfo' = rxInfo /\ \A v \in Uplinks : deliveries'[v] >= deliveries[v]
  BY <1>4 DEF Geolocation
<1>5. ASSUME NEW d \in Devices, Expire(d) PROVE rxInfo' = rxInfo /\ \A v \in Uplinks : deliveries'[v] >= deliveries[v]
  BY <1>5 DEF Expire
<1>6. CASE UNCHANGED vars  BY <1>6 DEF vars
<1>7. QED  BY <1>1, <1>2, <1>3, <1>4, <1>5, <1>6 DEF Next

\* A delivered frame stays delivered when delivery counts grow.
LEMMA DFMono ==
  ASSUME NEW f, NEW d, NEW rx, NEW dl, NEW dl2,
         \A v \in Uplinks : dl[v] \in Nat /\ dl2[v] \in Nat /\ dl2[v] >= dl[v],
         DF(f, d, rx, dl)
  PROVE  DF(f, d, rx, dl2)
BY DEF DF

LEMMA SOwnMono ==
  ASSUME NEW st, NEW rx, NEW dl, NEW dl2,
         \A v \in Uplinks : dl[v] \in Nat /\ dl2[v] \in Nat /\ dl2[v] >= dl[v],
         SOwn(st, rx, dl)
  PROVE  SOwn(st, rx, dl2)
BY DFMono DEF SOwn

LEMMA BOwnMono ==
  ASSUME NEW b, NEW u, NEW rx, NEW dl, NEW dl2,
         \A v \in Uplinks : dl[v] \in Nat /\ dl2[v] \in Nat /\ dl2[v] >= dl[v],
         BOwn(b, u, rx, dl)
  PROVE  BOwn(b, u, rx, dl2)
BY DFMono DEF BOwn

LEMMA InitIInv == Init => IInv
<1> SUFFICES ASSUME Init PROVE IInv  OBVIOUS
<1>1. StateTypeOK  BY InitStateType
<1>2. BufferHoldsOwnDeviceFrames
  BY DEF Init, BufferHoldsOwnDeviceFrames
<1>3. QED  BY <1>1, <1>2 DEF IInv

LEMMA NextIInv == IInv /\ [Next]_vars => IInv'
<1> SUFFICES ASSUME IInv, [Next]_vars PROVE IInv'  OBVIOUS
<1> USE ConstantsAssumption
<1> DEFINE dl2 == deliveries'
<1>0. StateTypeOK /\ StateTypeOK'  BY NextStateType DEF IInv
<1>1. rxInfo' = rxInfo /\ \A v \in Uplinks : deliveries[v] \in Nat /\ dl2[v] \in Nat /\ dl2[v] >= deliveries[v]
  BY <1>0, DeliveriesGrow DEF StateTypeOK
<1>2. SOwn(store, rxInfo, dl2)
  <2>1. SOwn(store, rxInfo, deliveries)  BY OwnIs DEF IInv, Own
  <2>2. QED  BY <1>1, <2>1, SOwnMono
<1>3. \A v \in Uplinks : pc[v] \in {"read", "saved"} => BOwn(buf[v], v, rxInfo, dl2)
  <2>1. \A v \in Uplinks : pc[v] \in {"read", "saved"} => BOwn(buf[v], v, rxInfo, deliveries)
    BY OwnIs DEF IInv, Own
  <2>2. QED  BY <1>1, <2>1, BOwnMono
<1> SUFFICES Own(store', pc', buf', rxInfo, dl2)  BY <1>0, <1>1, OwnIs DEF IInv
<1> DEFINE BGoal == \A v \in Uplinks : pc'[v] \in {"read", "saved"} => BOwn(buf'[v], v, rxInfo, dl2)
<1> SUFFICES SOwn(store', rxInfo, dl2) /\ BGoal  BY DEF Own
<1> HIDE DEF SOwn, BOwn
<1>4. ASSUME NEW u \in Uplinks, HandleUplinkEventDisabled(u) PROVE SOwn(store', rxInfo, dl2) /\ BGoal
  BY <1>4, <1>2, <1>3, <1>0 DEF HandleUplinkEventDisabled, StateTypeOK
<1>5. ASSUME NEW u \in Uplinks, UpdateGeolocBufferRead(u) PROVE SOwn(store', rxInfo, dl2) /\ BGoal
  <2>1. SOwn(store', rxInfo, dl2)  BY <1>5, <1>2 DEF UpdateGeolocBufferRead
  <2>2. ASSUME NEW v \in Uplinks, pc'[v] \in {"read", "saved"}
        PROVE  BOwn(buf'[v], v, rxInfo, dl2)
    <3>1. CASE v # u
      BY <1>5, <1>3, <1>0, <2>2, <3>1 DEF UpdateGeolocBufferRead, StateTypeOK
    <3>2. CASE v = u
      <4> DEFINE rd == ReadGeolocBuffer(DevEui[u])
      <4>0. pc'[u] = "read"  BY <2>2, <3>2, <1>5, <1>0 DEF UpdateGeolocBufferRead, StateTypeOK
      <4>1. buf'[u] = AppendFrame(rd, rxInfo[u])
        BY <1>5, <4>0, <1>0 DEF UpdateGeolocBufferRead, StateTypeOK
      <4>2. rd \in Seq(Frame)
        <5>1. rd \in Seq(BufferedFrame)
          BY <1>0, EmptySeq DEF ReadGeolocBuffer, GeolocBufferKey, StateTypeOK
        <5>2. BufferedFrame \subseteq Frame  BY DEF BufferedFrame
        <5>3. QED  BY <5>1, <5>2, SeqMonotonic
      <4>3. \A k \in 1..Len(rd) : DF(rd[k], DevEui[u], rxInfo, dl2)
        <5>1. CASE StoreIO
          <6>1. rd = store[DevEui[u]]  BY <5>1 DEF ReadGeolocBuffer, GeolocBufferKey
          <6>2. DevEui[u] \in Devices  OBVIOUS
          <6>3. QED  BY <6>1, <6>2, <1>2 DEF SOwn
        <5>2. CASE ~StoreIO
          BY <5>2 DEF ReadGeolocBuffer
        <5>3. QED  BY <5>1, <5>2
      <4>4. DF(rxInfo[u], DevEui[u], rxInfo, dl2)
        <5>1. dl2[u] > 0
          BY <1>5, <1>0 DEF UpdateGeolocBufferRead, StateTypeOK
        <5>2. QED  BY <5>1 DEF DF
      <4>5. rxInfo[u] \in Frame  BY <1>0 DEF StateTypeOK
      <4>6. \A i \in 1..Len(buf'[u]) :
              \/ buf'[u][i] = rxInfo[u]
              \/ \E k \in 1..Len(rd) : buf'[u][i] = rd[k]
        <5>1. \A i \in 1..Len(AppendFrame(rd, rxInfo[u])) :
                \/ AppendFrame(rd, rxInfo[u])[i] = rxInfo[u]
                \/ \E k \in 1..Len(rd) : AppendFrame(rd, rxInfo[u])[i] = rd[k]
          BY <4>2, <4>5, AppendFrameElements
        <5>2. QED  BY <4>1, <5>1
      <4>7. QED  BY <3>2, <4>3, <4>4, <4>6 DEF BOwn
    <3>3. QED  BY <3>1, <3>2
  <2>3. QED  BY <2>1, <2>2
<1>6. ASSUME NEW u \in Uplinks, UpdateGeolocBufferSave(u) PROVE SOwn(store', rxInfo, dl2) /\ BGoal
  <2>1. BOwn(buf[u], u, rxInfo, dl2)  BY <1>6, <1>3 DEF UpdateGeolocBufferSave
  <2>2. SOwn(store', rxInfo, dl2)
    <3>1. CASE store' = store  BY <3>1, <1>2
    <3>2. CASE store' # store
      <4>1. store' = [store EXCEPT ![DevEui[u]] = buf[u]]
        BY <1>6, <3>2 DEF UpdateGeolocBufferSave, SaveGeolocBuffer, GeolocBufferKey
      <4>2. SUFFICES ASSUME NEW d \in Devices, NEW i \in 1..Len(store'[d])
                     PROVE  DF(store'[d][i], d, rxInfo, dl2)
        BY DEF SOwn
      <4>3. CASE d = DevEui[u]
        <5>1. store'[d] = buf[u]  BY <4>1, <4>3, <1>0 DEF StateTypeOK
        <5>2. QED  BY <5>1, <4>3, <2>1 DEF BOwn
      <4>4. CASE d # DevEui[u]
        <5>1. store'[d] = store[d]  BY <4>1, <4>4, <1>0 DEF StateTypeOK
        <5>2. QED  BY <5>1, <1>2 DEF SOwn
      <4>5. QED  BY <4>3, <4>4
    <3>3. QED  BY <3>1, <3>2
  <2>3. BGoal
    BY <1>6, <1>3, <2>1, <1>0 DEF UpdateGeolocBufferSave, StateTypeOK
  <2>4. QED  BY <2>2, <2>3
<1>7. ASSUME NEW u \in Uplinks, Geolocation(u) PROVE SOwn(store', rxInfo, dl2) /\ BGoal
  <2>1. SOwn(store', rxInfo, dl2)  BY <1>7, <1>2 DEF Geolocation
  <2>2. ASSUME NEW v \in Uplinks, pc'[v] \in {"read", "saved"}
        PROVE  BOwn(buf'[v], v, rxInfo, dl2)
    <3>1. v # u  BY <2>2, <1>7, <1>0 DEF Geolocation, StateTypeOK
    <3>2. QED  BY <2>2, <3>1, <1>7, <1>3, <1>0 DEF Geolocation, StateTypeOK
  <2>3. QED  BY <2>1, <2>2
<1>8. ASSUME NEW d \in Devices, Expire(d) PROVE SOwn(store', rxInfo, dl2) /\ BGoal
  <2>1. SOwn(store', rxInfo, dl2)
    BY <1>8, <1>2, <1>0, EmptySeq DEF Expire, StateTypeOK, SOwn
  <2>2. BGoal  BY <1>8, <1>3 DEF Expire
  <2>3. QED  BY <2>1, <2>2
<1>9. CASE UNCHANGED vars
  BY <1>9, <1>2, <1>3 DEF vars
<1>10. QED  BY <1>4, <1>5, <1>6, <1>7, <1>8, <1>9 DEF Next

\* Whatever the interleaving of concurrent HandleUplinkEvent calls, store
\* failures, expiries and redeliveries, a geolocation buffer -- stored or
\* held by a handler -- only contains frames of delivered uplinks of its
\* own device (updateGeolocBuffer, GetGeolocBuffer, SaveGeolocBuffer).
THEOREM OwnDeviceFrames == Spec => []BufferHoldsOwnDeviceFrames
<1>1. IInv => BufferHoldsOwnDeviceFrames  BY DEF IInv
<1>2. QED  BY InitIInv, NextIInv, <1>1, PTL DEF Spec

=============================================================================
