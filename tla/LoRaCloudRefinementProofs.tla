----------------------- MODULE LoRaCloudRefinementProofs -----------------------
(***************************************************************************)
(* LoRaCloud, with the history of stored buffers, implements               *)
(* GeolocBufferStore under the mapping of LoRaCloudHistory, for every      *)
(* value of the constants.                                                 *)
(***************************************************************************)
EXTENDS LoRaCloudHistory, LoRaCloudProofs, TLAPS

\* The uplinks called at least once: the mapped value of Store's "sent".
Sent == {u \in Uplinks : deliveries[u] > 0}

(***************************************************************************)
(* Inductive invariant: the history holds the current and the empty        *)
(* buffer of every key, a handler that left idle has been delivered, and   *)
(* the buffer a handler holds after its read is an earlier value of its    *)
(* device's key extended by its own frame.                                 *)
(***************************************************************************)
HInv ==
  /\ StateTypeOK
  /\ held \in [Devices -> SUBSET Seq(BufferedFrame)]
  /\ \A d \in Devices : store[d] \in held[d] /\ <<>> \in held[d]
  /\ \A u \in Uplinks : pc[u] # "idle" => deliveries[u] > 0
  /\ \A u \in Uplinks : pc[u] = "read" =>
       \E old \in held[DevEui[u]] : buf[u] = Store!Extended(old, rxInfo[u])

\* The gated append of updateGeolocBuffer is the abstract Extended.
LEMMA AppendIsExtended ==
  ASSUME NEW b, NEW f
  PROVE  AppendFrame(b, f) = Store!Extended(b, f)
BY DEF AppendFrame, Store!Extended

LEMMA HInitHInv == HInit => HInv
<1> SUFFICES ASSUME HInit PROVE HInv  OBVIOUS
<1>1. StateTypeOK  BY InitStateType DEF HInit
<1>2. held \in [Devices -> SUBSET Seq(BufferedFrame)]  BY EmptySeq DEF HInit
<1>3. QED  BY <1>1, <1>2 DEF HInit, Init, HInv

\* A step keeps the history a function over the devices holding the
\* current and the empty buffer of every key.
LEMMA HistoryStep ==
  ASSUME HInv, HNext
  PROVE  /\ held' \in [Devices -> SUBSET Seq(BufferedFrame)]
         /\ \A d \in Devices : store'[d] \in held'[d] /\ <<>> \in held'[d]
         /\ \A d \in Devices : held[d] \subseteq held'[d]
<1>1. StateTypeOK'  BY NextStateType DEF HInv, HNext
<1>2. QED  BY <1>1 DEF HInv, HNext, StateTypeOK

LEMMA HNextHInv == HInv /\ [HNext]_hvars => HInv'
<1> SUFFICES ASSUME HInv, [HNext]_hvars PROVE HInv'  OBVIOUS
<1> USE ConstantsAssumption
<1>1. CASE UNCHANGED hvars  BY <1>1 DEF HInv, hvars, vars, StateTypeOK
<1>2. CASE HNext
  <2>0. StateTypeOK /\ StateTypeOK'  BY <1>2, NextStateType DEF HInv, HNext
  <2>1. /\ held' \in [Devices -> SUBSET Seq(BufferedFrame)]
        /\ \A d \in Devices : store'[d] \in held'[d] /\ <<>> \in held'[d]
        /\ \A d \in Devices : held[d] \subseteq held'[d]
    BY <1>2, HistoryStep
  <2> DEFINE ReadOK(v) == \E old \in held'[DevEui[v]] : buf'[v] = Store!Extended(old, rxInfo'[v])
  <2>2. SUFFICES ASSUME NEW v \in Uplinks
                 PROVE  /\ pc'[v] # "idle" => deliveries'[v] > 0
                        /\ pc'[v] = "read" => ReadOK(v)
    BY <2>0, <2>1 DEF HInv
  <2>3. DevEui[v] \in Devices  OBVIOUS
  <2>4. \A old \in held[DevEui[v]] : old \in held'[DevEui[v]]  BY <2>1, <2>3
  <2>5. ASSUME NEW u \in Uplinks, HandleUplinkEventDisabled(u) PROVE
          /\ pc'[v] # "idle" => deliveries'[v] > 0
          /\ pc'[v] = "read" => ReadOK(v)
    BY <2>5, <2>4, <2>0 DEF HandleUplinkEventDisabled, HInv, StateTypeOK
  <2>6. ASSUME NEW u \in Uplinks, UpdateGeolocBufferRead(u) PROVE
          /\ pc'[v] # "idle" => deliveries'[v] > 0
          /\ pc'[v] = "read" => ReadOK(v)
    <3>1. CASE v # u  BY <3>1, <2>6, <2>4, <2>0 DEF UpdateGeolocBufferRead, HInv, StateTypeOK
    <3>2. CASE v = u
      <4>1. deliveries'[u] > 0  BY <2>6, <2>0 DEF UpdateGeolocBufferRead, StateTypeOK
      <4>2. ReadGeolocBuffer(DevEui[u]) \in held[DevEui[u]]
        BY <2>3, <3>2 DEF ReadGeolocBuffer, GeolocBufferKey, HInv
      <4>3. pc'[u] = "read" => buf'[u] = AppendFrame(ReadGeolocBuffer(DevEui[u]), rxInfo[u])
        BY <2>6, <2>0 DEF UpdateGeolocBufferRead, StateTypeOK
      <4>4. QED  BY <4>1, <4>2, <4>3, <2>4, <3>2, <2>6, AppendIsExtended DEF UpdateGeolocBufferRead
    <3>3. QED  BY <3>1, <3>2
  <2>7. ASSUME NEW u \in Uplinks, UpdateGeolocBufferSave(u) PROVE
          /\ pc'[v] # "idle" => deliveries'[v] > 0
          /\ pc'[v] = "read" => ReadOK(v)
    BY <2>7, <2>4, <2>0 DEF UpdateGeolocBufferSave, HInv, StateTypeOK
  <2>8. ASSUME NEW u \in Uplinks, Geolocation(u) PROVE
          /\ pc'[v] # "idle" => deliveries'[v] > 0
          /\ pc'[v] = "read" => ReadOK(v)
    BY <2>8, <2>4, <2>0 DEF Geolocation, HInv, StateTypeOK
  <2>9. ASSUME NEW d \in Devices, Expire(d) PROVE
          /\ pc'[v] # "idle" => deliveries'[v] > 0
          /\ pc'[v] = "read" => ReadOK(v)
    BY <2>9, <2>4 DEF Expire, HInv
  <2>10. QED  BY <1>2, <2>5, <2>6, <2>7, <2>8, <2>9 DEF HNext, Next
<1>3. QED  BY <1>1, <1>2

LEMMA HInitRefines == HInit => Store!Init
BY DEF HInit, Init, Store!Init

\* The history of a key gains nothing when no key changes.
LEMMA HeldSteady ==
  ASSUME HInv, HNext, store' = store
  PROVE  held' = held
BY DEF HInv, HNext

\* A delivery: the calling uplink joins Sent.
LEMMA SentGrows ==
  ASSUME HInv, NEW u \in Uplinks,
         deliveries' = [deliveries EXCEPT ![u] = @ + 1]
  PROVE  Sent' = Sent \cup {u}
BY DEF HInv, StateTypeOK, Sent

(***************************************************************************)
(* Every step of LoRaCloud is a step of GeolocBufferStore or leaves the    *)
(* mapped state alone: a call is a Deliver, a save that changes the store  *)
(* is a Write, an expiry is an Expire.                                     *)
(***************************************************************************)
LEMMA HNextRefines == HInv /\ [HNext]_hvars => [Store!Next]_Store!avars
<1> SUFFICES ASSUME HInv, [HNext]_hvars PROVE [Store!Next]_Store!avars  OBVIOUS
<1> USE ConstantsAssumption
<1> DEFINE Stutter == UNCHANGED <<store, held, Sent, rxInfo>>
<1>0. Stutter => [Store!Next]_Store!avars  BY DEF Store!avars, Sent
<1>1. CASE UNCHANGED hvars  BY <1>1, <1>0 DEF hvars, vars, Sent
<1>2. CASE HNext
  <2>0. StateTypeOK'  BY <1>2, NextStateType DEF HInv, HNext
  <2>1. ASSUME NEW u \in Uplinks,
               \/ HandleUplinkEventDisabled(u)
               \/ UpdateGeolocBufferRead(u)
        PROVE  [Store!Next]_Store!avars
    <3>1. store' = store /\ rxInfo' = rxInfo
          /\ deliveries' = [deliveries EXCEPT ![u] = @ + 1]
      BY <2>1 DEF HandleUplinkEventDisabled, UpdateGeolocBufferRead
    <3>2. held' = held  BY <1>2, <3>1, HeldSteady
    <3>3. Sent' = Sent \cup {u}  BY <3>1, SentGrows
    <3>4. Store!Deliver(u)  BY <3>1, <3>2, <3>3 DEF Store!Deliver, Sent
    <3>5. QED  BY <3>4 DEF Store!Next
  <2>2. ASSUME NEW u \in Uplinks, UpdateGeolocBufferSave(u)
        PROVE  [Store!Next]_Store!avars
    <3>0. deliveries' = deliveries /\ rxInfo' = rxInfo
      BY <2>2 DEF UpdateGeolocBufferSave
    <3>1. CASE store' = store
      <4>1. held' = held  BY <1>2, <3>1, HeldSteady
      <4>2. QED  BY <3>0, <3>1, <4>1, <1>0 DEF Sent
    <3>2. CASE store' # store
      <4> DEFINE d == DevEui[u]
      <4>1. d \in Devices  OBVIOUS
      <4>2. /\ store' = [store EXCEPT ![d] = buf[u]]
            /\ buf[u] # <<>>
            /\ pc[u] = "read"
        BY <2>2, <3>2 DEF UpdateGeolocBufferSave, SaveGeolocBuffer, GeolocBufferKey
      <4>3. u \in Sent  BY <4>2 DEF HInv, Sent
      <4>4. PICK old \in held[d] : buf[u] = Store!Extended(old, rxInfo[u])
        BY <4>2 DEF HInv
      <4>5. held' = [held EXCEPT ![d] = @ \cup {Store!Extended(old, rxInfo[u])}]
        BY <1>2, <4>1, <4>2, <4>4 DEF HInv, HNext, StateTypeOK
      <4>6. store' = [store EXCEPT ![d] = Store!Extended(old, rxInfo[u])]
        BY <4>2, <4>4
      <4>7. Sent' = Sent  BY <3>0 DEF Sent
      <4>8. Store!Write(d)
        BY <3>0, <4>2, <4>3, <4>4, <4>5, <4>6, <4>7 DEF Store!Write, Sent
      <4>9. QED  BY <4>1, <4>8 DEF Store!Next
    <3>3. QED  BY <3>1, <3>2
  <2>3. ASSUME NEW u \in Uplinks, Geolocation(u)
        PROVE  [Store!Next]_Store!avars
    <3>1. store' = store /\ rxInfo' = rxInfo /\ deliveries' = deliveries
      BY <2>3 DEF Geolocation
    <3>2. held' = held  BY <1>2, <3>1, HeldSteady
    <3>3. QED  BY <3>1, <3>2, <1>0 DEF Sent
  <2>4. ASSUME NEW d \in Devices, Expire(d)
        PROVE  [Store!Next]_Store!avars
    <3>1. /\ store[d] # <<>>
          /\ store' = [store EXCEPT ![d] = <<>>]
          /\ rxInfo' = rxInfo /\ deliveries' = deliveries
      BY <2>4 DEF Expire
    <3>2. held' = held  BY <1>2, <3>1 DEF HInv, HNext, StateTypeOK
    <3>3. Store!Expire(d)  BY <3>1, <3>2 DEF Store!Expire, Sent
    <3>4. QED  BY <3>3 DEF Store!Next
  <2>5. QED  BY <1>2, <2>1, <2>2, <2>3, <2>4 DEF HNext, Next
<1>3. QED  BY <1>1, <1>2

\* The store behind concurrent updateGeolocBuffer calls implements
\* GeolocBufferStore: every save writes an earlier value of its device's
\* key extended by the saving uplink's own frame (BufferRefinesStore).
THEOREM BufferRefinement == HSpec => BufferRefinesStore
<1>1. HInit => HInv  BY HInitHInv
<1>2. HInv /\ [HNext]_hvars => HInv'  BY HNextHInv
<1>3. HInit => Store!Init  BY HInitRefines
<1>4. HInv /\ [HNext]_hvars => [Store!Next]_Store!avars  BY HNextRefines
<1>5. QED  BY <1>1, <1>2, <1>3, <1>4, PTL DEF HSpec, BufferRefinesStore, Store!Spec

=============================================================================
