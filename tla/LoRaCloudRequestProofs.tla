------------------------ MODULE LoRaCloudRequestProofs ------------------------
(***************************************************************************)
(* Proofs about the requests geolocation() sends and the location events  *)
(* HandleUplinkEvent hands to the sink, for every value of the constants:  *)
(* every TDOA and RSSI request is well formed.                             *)
(***************************************************************************)
EXTENDS LoRaCloudProofs, GeolocFiltersProofs, TLAPS

-----------------------------------------------------------------------------
(* Conjuncts of the inductive invariant.                                   *)

\* The j-th reception of uplink v carries the uplink id <<v, j>> (Init
\* builds rx_info so, and no handler changes it).
RxIds ==
  \A v \in Uplinks : \A j \in 1..Len(rxInfo[v]) : rxInfo[v][j].uplinkId = <<v, j>>

\* A handler past its first step has been called at least once.
HandlerDelivered ==
  \A u \in Uplinks : pc[u] # "idle" => deliveries[u] >= 1

\* A handler between its read and its resolver call holds a buffer whose
\* last frame is its own, when that frame has >= 3 receptions.
BufferEndsWithOwnFrame ==
  \A u \in Uplinks : pc[u] \in {"read", "saved"} /\ Len(rxInfo[u]) >= 3 =>
    buf[u] # <<>> /\ Last(buf[u]) = rxInfo[u]

\* The inductive invariant for BufferedRequestWellFormed.
RInv == IInv /\ RxIds /\ BufferedRequestWellFormed

-----------------------------------------------------------------------------
(* rx_info carries the uplink ids FrameOf gave it.                         *)

LEMMA InitRxIds ==
  ASSUME Init PROVE RxIds
<1>1. PICK shape \in [Uplinks -> FrameShapes] :
        rxInfo = [u \in Uplinks |-> FrameOf(u, shape[u])]
  BY DEF Init
<1>2. \A u \in Uplinks : shape[u] \in Seq(BOOLEAN)  BY ConstantsAssumption
<1>3. QED  BY <1>1, <1>2 DEF RxIds, FrameOf

LEMMA NextRxIds ==
  ASSUME StateTypeOK, RxIds, [Next]_vars PROVE RxIds'
BY DeliveriesGrow DEF RxIds

-----------------------------------------------------------------------------
(* The frames a TDOA or RSSI request carries.                              *)

\* Every frame has >= 3 receptions, all of uplinks of device d.
OwnReceptions(frames, d) ==
  \A i \in 1..Len(frames) :
    /\ Len(frames[i]) >= 3
    /\ \A j \in 1..Len(frames[i]) : DevEui[frames[i][j].uplinkId[1]] = d

\* Every reception of every frame carries a fine timestamp.
AllTimed(frames) ==
  \A i \in 1..Len(frames) : \A j \in 1..Len(frames[i]) : frames[i][j].fineTimestamp

LEMMA BufferedFrameIsFrame ==
  /\ BufferedFrame \subseteq Seq(Reception(UplinkId))
  /\ Seq(BufferedFrame) \subseteq Seq(Seq(Reception(UplinkId)))
<1>1. BufferedFrame \subseteq Seq(Reception(UplinkId))  BY DEF BufferedFrame, Frame
<1>2. QED  BY <1>1, SeqMonotonic

\* A reception of a delivered frame of device d is of an uplink of d.
LEMMA DeliveredReception ==
  ASSUME RxIds, StateTypeOK, NEW f, NEW d, DF(f, d, rxInfo, deliveries),
         NEW j \in 1..Len(f)
  PROVE  DevEui[f[j].uplinkId[1]] = d
<1>1. PICK v \in Uplinks : DevEui[v] = d /\ f = rxInfo[v]  BY DEF DF
<1>2. f[j].uplinkId = <<v, j>>  BY <1>1 DEF RxIds
<1>3. QED  BY <1>1, <1>2

\* The RSSI request sends the handler's buffer.
LEMMA RssiFramesOwn ==
  ASSUME RxIds, StateTypeOK, NEW u \in Uplinks, BOwn(buf[u], u, rxInfo, deliveries)
  PROVE  OwnReceptions(buf[u], DevEui[u])
<1> SUFFICES ASSUME NEW i \in 1..Len(buf[u])
             PROVE  /\ Len(buf[u][i]) >= 3
                    /\ \A j \in 1..Len(buf[u][i]) : DevEui[buf[u][i][j].uplinkId[1]] = DevEui[u]
  BY DEF OwnReceptions
<1>1. buf[u][i] \in BufferedFrame  BY DEF StateTypeOK
<1>2. Len(buf[u][i]) >= 3  BY <1>1 DEF BufferedFrame
<1>3. DF(buf[u][i], DevEui[u], rxInfo, deliveries)  BY DEF BOwn
<1>4. QED  BY <1>2, <1>3, DeliveredReception

\* The TDOA request sends the handler's buffer filtered on fine timestamps.
LEMMA TdoaFramesOwn ==
  ASSUME RxIds, StateTypeOK, NEW u \in Uplinks, BOwn(buf[u], u, rxInfo, deliveries)
  PROVE  /\ OwnReceptions(FilterOnFineTimestamp(buf[u], 3), DevEui[u])
         /\ AllTimed(FilterOnFineTimestamp(buf[u], 3))
<1> DEFINE R == Reception(UplinkId)
           b == buf[u]
           F == FilterOnFineTimestamp(b, 3)
<1>1. b \in Seq(Seq(R))  BY BufferedFrameIsFrame DEF StateTypeOK
<1>0. \A i \in 1..Len(b) : DF(b[i], DevEui[u], rxInfo, deliveries)  BY DEF BOwn
<1> HIDE DEF R, b, F
<1>2. \A k \in 1..Len(F) :
        /\ Len(F[k]) >= 3
        /\ \E i \in 1..Len(b) : F[k] = TimedReceptions(b[i])
  BY <1>1, FilterKept DEF F
<1> SUFFICES ASSUME NEW k \in 1..Len(F)
             PROVE  /\ Len(F[k]) >= 3
                    /\ \A j \in 1..Len(F[k]) : DevEui[F[k][j].uplinkId[1]] = DevEui[u]
                    /\ \A j \in 1..Len(F[k]) : F[k][j].fineTimestamp
  BY DEF OwnReceptions, AllTimed, F, b
<1>3. PICK i \in 1..Len(b) : F[k] = TimedReceptions(b[i])  BY <1>2
<1> DEFINE f == b[i]
<1>4. f \in Seq(R)  BY <1>1
<1>6. DF(f, DevEui[u], rxInfo, deliveries)  BY <1>0
<1> HIDE DEF f
<1>5. \A j \in 1..Len(TimedReceptions(f)) :
        /\ TimedReceptions(f)[j].fineTimestamp
        /\ \E j2 \in 1..Len(f) : TimedReceptions(f)[j] = f[j2]
  BY <1>4, TimedReceptionsKept
<1>7. \A j2 \in 1..Len(f) : DevEui[f[j2].uplinkId[1]] = DevEui[u]
  BY <1>6, DeliveredReception
<1>8. \A j \in 1..Len(F[k]) : DevEui[F[k][j].uplinkId[1]] = DevEui[u]
  BY <1>3, <1>5, <1>7 DEF f
<1>9. QED  BY <1>2, <1>3, <1>5, <1>8 DEF f

-----------------------------------------------------------------------------
(* Every TDOA and RSSI request is well formed.                             *)

\* BufferedRequestWellFormed of one request r under the config c.
ReqOK(r, c) ==
  r.endpoint \in BufferedEndpoints =>
    /\ Len(r.frames) >= 1
    /\ Len(r.frames) >= c.GeolocationMinBufferSize
    /\ (Len(r.frames) = 1) <=> r.endpoint \in {"v2_tdoa_single", "v2_rssi_single"}
    /\ OwnReceptions(r.frames, DevEui[r.uplink])
    /\ EndpointStrategy(r.endpoint) = "TDOA" => AllTimed(r.frames)

LEMMA ReqOKIs ==
  /\ BufferedRequestWellFormed <=> \A r \in requests : ReqOK(r, cfg)
  /\ BufferedRequestWellFormed' <=> \A r \in requests' : ReqOK(r, cfg')
BY DEF BufferedRequestWellFormed, ReqOK, OwnReceptions, AllTimed

\* The request geolocation() sends for uplink u with strategy s.
NewRequest(u, s, response) ==
  [uplink |-> u, delivery |-> deliveries[u],
   endpoint |-> Endpoint(s, StrategyFrames(u, s)), frames |-> StrategyFrames(u, s),
   apMacsOk |-> SentMacsOk(u, s), response |-> response]

\* What the strategy chain of geolocation() guarantees of its choice.
LEMMA StrategyChoice ==
  ASSUME NEW u \in Uplinks
  PROVE  /\ Strategy(u) \in {"NONE", "GNSS", "WIFI", "TDOA", "RSSI"}
         /\ Strategy(u) = "TDOA" =>
              EnoughFrames(TdoaFiltered(u), cfg.GeolocationMinBufferSize)
         /\ Strategy(u) = "RSSI" =>
              EnoughFrames(buf[u], cfg.GeolocationMinBufferSize)
BY DEF Strategy

\* The request sent with a strategy that was chosen is well formed.
LEMMA NewRequestOK ==
  ASSUME StateTypeOK, RxIds, NEW u \in Uplinks,
         BOwn(buf[u], u, rxInfo, deliveries),
         Strategy(u) # "NONE", NEW response
  PROVE  ReqOK(NewRequest(u, Strategy(u), response), cfg)
<1> DEFINE s == Strategy(u)
           r == NewRequest(u, s, response)
           min == cfg.GeolocationMinBufferSize
<1>0. min \in Int  BY ConstantsAssumption DEF StateTypeOK, ConfigType
<1>1. s \in {"GNSS", "WIFI", "TDOA", "RSSI"}  BY StrategyChoice
<1>2. r.uplink = u /\ r.frames = StrategyFrames(u, s)
      /\ r.endpoint = Endpoint(s, StrategyFrames(u, s))
  BY DEF NewRequest
<1> SUFFICES ReqOK(r, cfg)  OBVIOUS
<1> HIDE DEF s, r
<1>3. CASE s \in {"GNSS", "WIFI"}
  <2>1. r.endpoint \notin BufferedEndpoints
    BY <1>2, <1>3 DEF Endpoint, BufferedEndpoints
  <2>2. QED  BY <2>1 DEF ReqOK
<1>4. CASE s = "TDOA"
  <2> DEFINE F == FilterOnFineTimestamp(buf[u], 3)
  <2>1. r.frames = F /\ r.endpoint = IF Len(F) = 1 THEN "v2_tdoa_single" ELSE "v2_tdoa_multi"
    BY <1>2, <1>4 DEF StrategyFrames, TdoaFiltered, Endpoint
  <2>2. EnoughFrames(F, min)  BY <1>4, StrategyChoice DEF s, TdoaFiltered
  <2>3. OwnReceptions(F, DevEui[u]) /\ AllTimed(F)  BY TdoaFramesOwn
  <2>4. F \in Seq(Seq(Reception(UplinkId)))
    BY FilterType, BufferedFrameIsFrame DEF StateTypeOK
  <2> HIDE DEF F
  <2>5. Len(F) \in Nat  BY <2>4, LenProperties
  <2>6. Len(F) >= 1 /\ Len(F) >= min  BY <2>2, <2>5, <1>0 DEF EnoughFrames
  <2>7. QED  BY <1>2, <2>1, <2>3, <2>6 DEF ReqOK, EndpointStrategy, BufferedEndpoints
<1>5. CASE s = "RSSI"
  <2>1. r.frames = buf[u]
        /\ r.endpoint = IF Len(buf[u]) = 1 THEN "v2_rssi_single" ELSE "v2_rssi_multi"
    BY <1>2, <1>5 DEF StrategyFrames, Endpoint
  <2>2. EnoughFrames(buf[u], min)  BY <1>5, StrategyChoice DEF s
  <2>3. OwnReceptions(buf[u], DevEui[u])  BY RssiFramesOwn
  <2>5. Len(buf[u]) \in Nat  BY LenProperties DEF StateTypeOK
  <2>6. Len(buf[u]) >= 1 /\ Len(buf[u]) >= min  BY <2>2, <2>5, <1>0 DEF EnoughFrames
  <2>7. QED  BY <1>2, <2>1, <2>3, <2>6 DEF ReqOK, EndpointStrategy, BufferedEndpoints
<1>6. QED  BY <1>1, <1>3, <1>4, <1>5 DEF r, s

\* No step changes the config; every request a step adds is the request of
\* a handler at "saved" with the strategy it chose.
LEMMA RequestsGrow ==
  ASSUME [Next]_vars
  PROVE  /\ cfg' = cfg
         /\ \A r \in requests' : r \in requests \/
              \E u \in Uplinks, response \in Responses :
                 /\ pc[u] = "saved"
                 /\ Strategy(u) # "NONE"
                 /\ r = NewRequest(u, Strategy(u), response)
<1>1. ASSUME NEW u \in Uplinks, Geolocation(u)
      PROVE  /\ cfg' = cfg
             /\ \A r \in requests' : r \in requests \/
                  \E v \in Uplinks, response \in Responses :
                     /\ pc[v] = "saved"
                     /\ Strategy(v) # "NONE"
                     /\ r = NewRequest(v, Strategy(v), response)
  BY <1>1 DEF Geolocation, NewRequest
<1>2. QED
  BY <1>1 DEF Next, vars, HandleUplinkEventDisabled, UpdateGeolocBufferRead,
               UpdateGeolocBufferSave, Expire

LEMMA InitRInv == Init => RInv
<1> SUFFICES ASSUME Init PROVE RInv  OBVIOUS
<1>1. IInv  BY InitIInv
<1>2. RxIds  BY InitRxIds
<1>3. BufferedRequestWellFormed  BY DEF Init, BufferedRequestWellFormed
<1>4. QED  BY <1>1, <1>2, <1>3 DEF RInv

LEMMA NextRInv == RInv /\ [Next]_vars => RInv'
<1> SUFFICES ASSUME RInv, [Next]_vars PROVE RInv'  OBVIOUS
<1>1. IInv'  BY NextIInv DEF RInv
<1>2. StateTypeOK /\ BufferHoldsOwnDeviceFrames  BY DEF RInv, IInv
<1>3. RxIds'  BY <1>2, NextRxIds DEF RInv
<1>4. ASSUME NEW r \in requests' PROVE ReqOK(r, cfg')
  <2>1. CASE r \in requests
    BY <2>1, RequestsGrow, ReqOKIs DEF RInv
  <2>2. CASE r \notin requests
    <3>1. PICK u \in Uplinks, response \in Responses :
            /\ pc[u] = "saved"
            /\ Strategy(u) # "NONE"
            /\ r = NewRequest(u, Strategy(u), response)
      BY <2>2, RequestsGrow
    <3>2. BOwn(buf[u], u, rxInfo, deliveries)  BY <1>2, <3>1, OwnIs DEF Own
    <3>3. ReqOK(r, cfg)  BY <1>2, <3>1, <3>2, NewRequestOK DEF RInv
    <3>4. QED  BY <3>3, RequestsGrow
  <2>3. QED  BY <2>1, <2>2
<1>5. BufferedRequestWellFormed'  BY <1>4, ReqOKIs
<1>6. QED  BY <1>1, <1>3, <1>5 DEF RInv

(***************************************************************************)
(* For every value of the constants and every interleaving of the          *)
(* handlers, store failures, expiries and redeliveries, every TDOA and     *)
(* RSSI request geolocation() sends has at least                           *)
(* max(1, GeolocationMinBufferSize) frames, uses the single-frame endpoint *)
(* exactly when it has one, and every frame has >= 3 receptions of uplinks *)
(* of the requesting uplink's device, all fine-timestamped for TDOA.       *)
(***************************************************************************)
THEOREM BufferedRequestsWellFormed == Spec => []BufferedRequestWellFormed
<1>1. RInv => BufferedRequestWellFormed  BY DEF RInv
<1>2. QED  BY InitRInv, NextRInv, <1>1, PTL DEF Spec

-----------------------------------------------------------------------------
(* The requesting uplink's own frame is the newest frame of its request.   *)

\* The inductive invariant for NewestFrameLast.
NInv == StateTypeOK /\ BufferEndsWithOwnFrame /\ NewestFrameLast

\* The own frame of updateGeolocBuffer's append, alone.
LEMMA OwnFrameAppended ==
  ASSUME NEW rx
  PROVE  AppendFrame(<<>>, rx) = IF Len(rx) >= 3 THEN <<rx>> ELSE <<>>
BY DEF AppendFrame

\* The own frame alone, filtered on fine timestamps.
LEMMA OwnFrameFiltered ==
  ASSUME NEW R, NEW rx \in Seq(R)
  PROVE  FilterOnFineTimestamp(<<rx>>, 3) =
           IF Len(TimedReceptions(rx)) >= 3 THEN <<TimedReceptions(rx)>> ELSE <<>>
<1>1. <<rx>> = Append(<<>>, rx)  OBVIOUS
<1>2. <<>> \in Seq(Seq(R))  BY EmptySeq
<1>3. FilterOnFineTimestamp(Append(<<>>, rx), 3) =
        IF Len(TimedReceptions(rx)) >= 3
        THEN Append(FilterOnFineTimestamp(<<>>, 3), TimedReceptions(rx))
        ELSE FilterOnFineTimestamp(<<>>, 3)
  BY <1>2, FilterAppend
<1>4. FilterOnFineTimestamp(<<>>, 3) = <<>>  BY FilterEmpty
<1>5. Append(<<>>, TimedReceptions(rx)) = <<TimedReceptions(rx)>>  OBVIOUS
<1>6. QED  BY <1>1, <1>3, <1>4, <1>5

\* A frame appended to a buffer, when enough of its receptions are timed,
\* is the last frame of the filtered buffer, as its timed part.
LEMMA FilterLastAppended ==
  ASSUME NEW R, NEW b \in Seq(Seq(R)), NEW f \in Seq(R),
         Len(TimedReceptions(f)) >= 3
  PROVE  /\ FilterOnFineTimestamp(Append(b, f), 3) # <<>>
         /\ Last(FilterOnFineTimestamp(Append(b, f), 3)) = TimedReceptions(f)
<1>1. FilterOnFineTimestamp(Append(b, f), 3) =
        Append(FilterOnFineTimestamp(b, 3), TimedReceptions(f))
  BY FilterAppend
<1>2. FilterOnFineTimestamp(b, 3) \in Seq(Seq(R))  BY FilterType
<1>3. TimedReceptions(f) \in Seq(R)  BY TimedReceptionsType
<1>4. QED  BY <1>1, <1>2, <1>3, AppendProperties DEF Last

\* A non-empty buffer is an older buffer with its last frame appended.
LEMMA BufferSplit ==
  ASSUME NEW S, NEW b \in Seq(S), b # <<>>
  PROVE  \E old \in Seq(S) : b = Append(old, Last(b))
<1>1. PICK old \in Seq(S), elt \in S : b = Append(old, elt)  BY SequenceEmptyOrAppend
<1>2. Last(b) = elt  BY <1>1, AppendProperties DEF Last
<1>3. QED  BY <1>1, <1>2

LEMMA InitEndsWithOwn == Init => BufferEndsWithOwnFrame
BY DEF Init, BufferEndsWithOwnFrame

LEMMA NextEndsWithOwn ==
  ASSUME StateTypeOK, BufferEndsWithOwnFrame, [Next]_vars
  PROVE  BufferEndsWithOwnFrame'
<1>0. rxInfo' = rxInfo  BY DeliveriesGrow
<1> SUFFICES ASSUME NEW v \in Uplinks, pc'[v] \in {"read", "saved"}, Len(rxInfo[v]) >= 3
             PROVE  buf'[v] # <<>> /\ Last(buf'[v]) = rxInfo[v]
  BY <1>0 DEF BufferEndsWithOwnFrame
<1>1. ASSUME NEW u \in Uplinks, HandleUplinkEventDisabled(u) PROVE buf'[v] # <<>> /\ Last(buf'[v]) = rxInfo[v]
  BY <1>1 DEF HandleUplinkEventDisabled, BufferEndsWithOwnFrame, StateTypeOK
<1>2. ASSUME NEW u \in Uplinks, UpdateGeolocBufferRead(u) PROVE buf'[v] # <<>> /\ Last(buf'[v]) = rxInfo[v]
  <2>1. CASE v # u
    BY <1>2, <2>1 DEF UpdateGeolocBufferRead, BufferEndsWithOwnFrame, StateTypeOK
  <2>2. CASE v = u
    <3> DEFINE rd == ReadGeolocBuffer(DevEui[u])
               rx == rxInfo[u]
    <3>1. pc'[u] = "read" /\ buf'[u] = AppendFrame(rd, rx)
      BY <1>2, <2>2 DEF UpdateGeolocBufferRead, StateTypeOK
    <3>2. rd \in Seq(BufferedFrame)
      BY EmptySeq, ConstantsAssumption DEF ReadGeolocBuffer, GeolocBufferKey, StateTypeOK
    <3>0. Len(rx) >= 3 /\ rx \in BufferedFrame  BY <2>2 DEF StateTypeOK, BufferedFrame
    <3> HIDE DEF rd, rx
    <3>3. buf'[u] = Append(rd, rx)  BY <3>0, <3>1 DEF AppendFrame
    <3>4. buf'[u] # <<>> /\ Last(buf'[u]) = rx
      BY <3>0, <3>2, <3>3, AppendProperties DEF Last
    <3>5. QED  BY <3>4, <2>2 DEF rx
  <2>3. QED  BY <2>1, <2>2
<1>3. ASSUME NEW u \in Uplinks, UpdateGeolocBufferSave(u) PROVE buf'[v] # <<>> /\ Last(buf'[v]) = rxInfo[v]
  BY <1>3 DEF UpdateGeolocBufferSave, BufferEndsWithOwnFrame, StateTypeOK
<1>4. ASSUME NEW u \in Uplinks, Geolocation(u) PROVE buf'[v] # <<>> /\ Last(buf'[v]) = rxInfo[v]
  BY <1>4 DEF Geolocation, BufferEndsWithOwnFrame, StateTypeOK
<1>5. ASSUME NEW d \in Devices, Expire(d) PROVE buf'[v] # <<>> /\ Last(buf'[v]) = rxInfo[v]
  BY <1>5 DEF Expire, BufferEndsWithOwnFrame
<1>6. CASE UNCHANGED vars  BY <1>6 DEF vars, BufferEndsWithOwnFrame
<1>7. QED  BY <1>1, <1>2, <1>3, <1>4, <1>5, <1>6 DEF Next

\* NewestFrameLast of one request r, for the rx_info rx.
NFL(r, rx) ==
  r.endpoint \in BufferedEndpoints =>
    LET own == IF EndpointStrategy(r.endpoint) = "TDOA"
               THEN FilterOnFineTimestamp(<<rx[r.uplink]>>, 3)
               ELSE AppendFrame(<<>>, rx[r.uplink])
    IN  own # <<>> => Last(r.frames) = own[1]

LEMMA NFLIs ==
  /\ NewestFrameLast <=> \A r \in requests : NFL(r, rxInfo)
  /\ NewestFrameLast' <=> \A r \in requests' : NFL(r, rxInfo')
BY DEF NewestFrameLast, NFL

\* The request sent by a handler at "saved" ends with its own frame.
LEMMA NewRequestNewest ==
  ASSUME StateTypeOK, BufferEndsWithOwnFrame, NEW u \in Uplinks, pc[u] = "saved",
         Strategy(u) # "NONE", NEW response
  PROVE  NFL(NewRequest(u, Strategy(u), response), rxInfo)
<1> DEFINE s == Strategy(u)
           r == NewRequest(u, s, response)
           rx == rxInfo[u]
           b == buf[u]
           R == Reception(UplinkId)
<1>1. s \in {"GNSS", "WIFI", "TDOA", "RSSI"}  BY StrategyChoice
<1>2. r.uplink = u /\ r.frames = StrategyFrames(u, s)
      /\ r.endpoint = Endpoint(s, StrategyFrames(u, s))
  BY DEF NewRequest
<1>3. rx \in Seq(R) /\ b \in Seq(BufferedFrame)  BY DEF StateTypeOK, Frame
<1>4. Len(rx) >= 3 => b # <<>> /\ Last(b) = rx  BY DEF BufferEndsWithOwnFrame
<1> HIDE DEF s, r, rx, b, R
<1>5. CASE s \in {"GNSS", "WIFI"}
  <2>1. r.endpoint \notin BufferedEndpoints
    BY <1>2, <1>5 DEF Endpoint, BufferedEndpoints
  <2>2. QED  BY <2>1 DEF NFL, r, s
<1>6. CASE s = "TDOA"
  <2>1. r.frames = FilterOnFineTimestamp(b, 3)
        /\ EndpointStrategy(r.endpoint) = "TDOA" /\ r.endpoint \in BufferedEndpoints
    BY <1>2, <1>6 DEF StrategyFrames, TdoaFiltered, Endpoint, EndpointStrategy,
                      BufferedEndpoints, b
  <2>2. FilterOnFineTimestamp(<<rx>>, 3) =
          IF Len(TimedReceptions(rx)) >= 3 THEN <<TimedReceptions(rx)>> ELSE <<>>
    BY <1>3, OwnFrameFiltered
  <2>3. SUFFICES ASSUME Len(TimedReceptions(rx)) >= 3
                 PROVE  Last(FilterOnFineTimestamp(b, 3)) = TimedReceptions(rx)
    BY <2>1, <2>2, <1>2 DEF NFL, r, s, rx
  <2>4. Len(rx) >= 3  BY <2>3, <1>3, TimedReceptionsType
  <2>5. PICK old \in Seq(BufferedFrame) : b = Append(old, rx)
    BY <1>3, <1>4, <2>4, BufferSplit
  <2>6. old \in Seq(Seq(R))  BY BufferedFrameIsFrame DEF R
  <2>7. QED  BY <1>3, <2>3, <2>5, <2>6, FilterLastAppended
<1>7. CASE s = "RSSI"
  <2>1. r.frames = b
        /\ EndpointStrategy(r.endpoint) = "RSSI" /\ r.endpoint \in BufferedEndpoints
    BY <1>2, <1>7 DEF StrategyFrames, Endpoint, EndpointStrategy, BufferedEndpoints, b
  <2>2. AppendFrame(<<>>, rx) = IF Len(rx) >= 3 THEN <<rx>> ELSE <<>>
    BY OwnFrameAppended
  <2>3. SUFFICES ASSUME Len(rx) >= 3 PROVE Last(b) = rx
    BY <2>1, <2>2, <1>2 DEF NFL, r, s, rx
  <2>4. QED  BY <1>4, <2>3
<1>8. QED  BY <1>1, <1>5, <1>6, <1>7

LEMMA InitNInv == Init => NInv
<1> SUFFICES ASSUME Init PROVE NInv  OBVIOUS
<1>1. StateTypeOK  BY InitStateType
<1>2. BufferEndsWithOwnFrame  BY InitEndsWithOwn
<1>3. NewestFrameLast  BY DEF Init, NewestFrameLast
<1>4. QED  BY <1>1, <1>2, <1>3 DEF NInv

LEMMA NextNInv == NInv /\ [Next]_vars => NInv'
<1> SUFFICES ASSUME NInv, [Next]_vars PROVE NInv'  OBVIOUS
<1>1. StateTypeOK'  BY NextStateType DEF NInv
<1>2. BufferEndsWithOwnFrame'  BY NextEndsWithOwn DEF NInv
<1>3. rxInfo' = rxInfo  BY DeliveriesGrow DEF NInv
<1>4. ASSUME NEW r \in requests' PROVE NFL(r, rxInfo)
  <2>1. CASE r \in requests  BY <2>1, NFLIs DEF NInv
  <2>2. CASE r \notin requests
    <3>1. PICK u \in Uplinks, response \in Responses :
            /\ pc[u] = "saved"
            /\ Strategy(u) # "NONE"
            /\ r = NewRequest(u, Strategy(u), response)
      BY <2>2, RequestsGrow
    <3>2. QED  BY <3>1, NewRequestNewest DEF NInv
  <2>3. QED  BY <2>1, <2>2
<1>5. NewestFrameLast'  BY <1>3, <1>4, NFLIs
<1>6. QED  BY <1>1, <1>2, <1>5 DEF NInv

(***************************************************************************)
(* For every value of the constants and every interleaving of the          *)
(* handlers, store failures, expiries and redeliveries: when a requesting *)
(* uplink's own frame qualifies for its TDOA or RSSI request, it is the    *)
(* request's last frame, after every frame read from the store             *)
(* (updateGeolocBuffer appends, filterOnFineTimestamp keeps the order).    *)
(***************************************************************************)
THEOREM OwnFrameNewest == Spec => []NewestFrameLast
<1>1. NInv => NewestFrameLast  BY DEF NInv
<1>2. QED  BY InitNInv, NextNInv, <1>1, PTL DEF Spec

-----------------------------------------------------------------------------
(* The uplink ids a location event carries are those of the request.       *)

\* The equation of SentUplinkIds's loop for a candidate g.
UpToLoop(frames, g) ==
  [k \in 0..Len(frames) |->
     IF k = 0 THEN <<>>
     ELSE g[k - 1] \o [j \in 1..Len(frames[k]) |-> frames[k][j].uplinkId]]

LEMMA SentIsChoose ==
  ASSUME NEW frames
  PROVE  SentUplinkIds(frames) = (CHOOSE g : g = UpToLoop(frames, g))[Len(frames)]
BY DEF SentUplinkIds, UpToLoop

\* Two solutions of the loop's equation agree everywhere.
LEMMA UpToLoopUnique ==
  ASSUME NEW frames \in Seq(Seq(Reception(UplinkId))), NEW g1, NEW g2,
         g1 = UpToLoop(frames, g1), g2 = UpToLoop(frames, g2)
  PROVE  \A k \in 0..Len(frames) : g1[k] = g2[k]
<1> DEFINE T == {k \in 0..Len(frames) : g1[k] # g2[k]}
<1> SUFFICES ASSUME T # {} PROVE FALSE  OBVIOUS
<1>1. T \in SUBSET Nat  OBVIOUS
<1>2. PICK m \in T : \A k \in T : m <= k  BY <1>1, LeastNat
<1>3. m \in 0..Len(frames) /\ g1[m] # g2[m]  BY <1>2
<1>4. m # 0 => g1[m - 1] = g2[m - 1]  BY <1>2, <1>3
<1> HIDE DEF T
<1> DEFINE ids == [j \in 1..Len(frames[m]) |-> frames[m][j].uplinkId]
<1>5. m = 0 => g1[m] = <<>> /\ g2[m] = <<>>  BY <1>3 DEF UpToLoop
<1>6. m # 0 => g1[m] = g1[m - 1] \o ids /\ g2[m] = g2[m - 1] \o ids
  BY <1>3 DEF UpToLoop
<1> HIDE DEF ids
<1>7. QED  BY <1>3, <1>4, <1>5, <1>6

(***************************************************************************)
(* SentUplinkIds, the reference loop, computes what geolocation()'s        *)
(* uplink-id loop (UplinkIDs, a FlattenSeq) returns.                       *)
(***************************************************************************)
LEMMA SentUplinkIdsIsUplinkIDs ==
  ASSUME NEW b \in Seq(Seq(Reception(UplinkId)))
  PROVE  SentUplinkIds(b) = UplinkIDs(b)
<1> DEFINE n == Len(b)
           ss == FrameIds(b)
           c == CHOOSE g : g = UpToLoop(b, g)
<1>1. ss \in Seq(Seq(UplinkId)) /\ Len(ss) = n
  BY FrameIdsType
<1>2. \A k \in 1..n : ss[k] = [j \in 1..Len(b[k]) |-> b[k][j].uplinkId]
  BY DEF FrameIds
<1>3. UplinkIDs(b) = FlattenSeq(ss)  BY DEF UplinkIDs, FrameIds
<1>4. SentUplinkIds(b) = c[n]  BY SentIsChoose
<1> HIDE DEF ss, c
<1>5. CASE n = 0
  <2> DEFINE g0 == [k \in 0..0 |-> <<>>]
  <2>1. g0 = UpToLoop(b, g0)  BY <1>5 DEF UpToLoop
  <2>2. c = UpToLoop(b, c)  BY <2>1 DEF c
  <2>3. c[0] = <<>>  BY <2>2, <1>5 DEF UpToLoop
  <2>4. ss = <<>>  BY <1>1, <1>5
  <2>5. FlattenSeq(ss) = <<>>  BY <2>4 DEF FlattenSeq
  <2>6. QED  BY <1>3, <1>4, <1>5, <2>3, <2>5
<1>6. CASE n # 0
  <2> DEFINE fp == FlattenPrefix(ss)
  <2>0. n \in Nat  OBVIOUS
  <2>1. fp = FlattenLoop(ss, n, fp)  BY <1>1, <1>6, FlattenPrefixDef
  <2>2. \A k \in 1..n : fp[k] \in Seq(UplinkId)  BY <1>1, <1>6, FlattenPrefixType
  <2>3. FlattenSeq(ss) = fp[n]  BY <1>1, <1>6, FlattenIsPrefix
  <2> HIDE DEF fp
  <2> DEFINE g == [k \in 0..n |-> IF k = 0 THEN <<>> ELSE fp[k]]
  <2>9. \A k \in 0..n : g[k] = IF k = 0 THEN <<>> ELSE fp[k]  OBVIOUS
  <2> HIDE DEF g
  <2>4. g = UpToLoop(b, g)
    <3>1. ASSUME NEW k \in 0..n PROVE g[k] = UpToLoop(b, g)[k]
      <4> DEFINE ids == [j \in 1..Len(b[k]) |-> b[k][j].uplinkId]
      <4>1. k # 0 => UpToLoop(b, g)[k] = g[k - 1] \o ids  BY DEF UpToLoop
      <4>2. k = 0 => UpToLoop(b, g)[k] = <<>>  BY DEF UpToLoop
      <4>0. k # 0 => k \in 1..n  OBVIOUS
      <4>3. k # 0 => ss[k] = ids  BY <4>0, <1>2, Zenon
      <4> HIDE DEF ids
      <4>4. CASE k = 0  BY <4>2, <4>4, <2>9
      <4>5. CASE k = 1
        <5>1. fp[1] = ss[1]  BY <2>1, <1>6 DEF FlattenLoop
        <5>2. ss[1] \in Seq(UplinkId)  BY <1>1, <1>6
        <5>3. <<>> \o ss[1] = ss[1]  BY <5>2
        <5>4. g[0] = <<>> /\ g[1] = fp[1]  BY <1>6, <2>9
        <5>0. k # 0 /\ k - 1 = 0  BY <4>5
        <5>5. UpToLoop(b, g)[1] = <<>> \o ss[1]  BY <4>1, <4>3, <4>5, <5>0, <5>4, Zenon
        <5>6. QED  BY <4>5, <5>1, <5>3, <5>4, <5>5
      <4>6. CASE k \in 2..n
        <5>1. fp[k] = fp[k - 1] \o ss[k]  BY <2>0, <2>1, <4>6, FlattenLoopAt
        <5>2. g[k - 1] = fp[k - 1] /\ g[k] = fp[k]  BY <4>6, <2>9
        <5>0. k # 0  BY <4>6
        <5>3. UpToLoop(b, g)[k] = fp[k - 1] \o ss[k]  BY <4>1, <4>3, <5>0, <5>2, Zenon
        <5>4. QED  BY <5>1, <5>2, <5>3
      <4>7. QED  BY <4>4, <4>5, <4>6
    <3>3. QED  BY <3>1 DEF UpToLoop, g
  <2>5. c = UpToLoop(b, c)  BY <2>4 DEF c
  <2>6. c[n] = g[n]  BY <2>4, <2>5, UpToLoopUnique
  <2>7. g[n] = fp[n]  BY <1>6, <2>9
  <2>8. QED  BY <1>3, <1>4, <2>3, <2>6, <2>7
<1>7. QED  BY <1>5, <1>6


\* UplinkIdRoundTrip's requirement that location event e answers request r.
Answers(e, r) ==
  /\ r.uplink = e.uplink
  /\ r.delivery = e.delivery
  /\ IF r.endpoint \in BufferedEndpoints
     THEN /\ e.uplinkIds = SentUplinkIds(r.frames)
          /\ e.uplinkIds # <<>>
          /\ e.fCnt = 0
     ELSE /\ e.uplinkIds = <<>>
          /\ e.fCnt = FCnt[e.uplink]

LEMMA AnswersIs ==
  /\ UplinkIdRoundTrip <=> \A e \in events : \E r \in requests : Answers(e, r)
  /\ UplinkIdRoundTrip' <=> \A e \in events' : \E r \in requests' : Answers(e, r)
BY DEF UplinkIdRoundTrip, Answers

\* The location event HandleUplinkEvent hands to the sink for uplink u with
\* strategy s and the resolver's answer response.
NewEvent(u, s, response) ==
  LET ids == StrategyUplinkIDs(s, StrategyFrames(u, s)) IN
  [uplink |-> u, delivery |-> deliveries[u],
   source |-> ResolverResult(s, response).loc, uplinkIds |-> ids,
   fCnt |-> IF ids = <<>> THEN FCnt[u] ELSE 0]

\* No step forgets a request; every event a step adds comes with the
\* request of the same resolver call.
LEMMA EventsGrow ==
  ASSUME [Next]_vars
  PROVE  /\ requests \subseteq requests'
         /\ \A e \in events' : e \in events \/
              \E u \in Uplinks, response \in Responses :
                 /\ pc[u] = "saved"
                 /\ Strategy(u) # "NONE"
                 /\ e = NewEvent(u, Strategy(u), response)
                 /\ NewRequest(u, Strategy(u), response) \in requests'
<1>1. ASSUME NEW u \in Uplinks, Geolocation(u)
      PROVE  /\ requests \subseteq requests'
             /\ \A e \in events' : e \in events \/
                  \E v \in Uplinks, response \in Responses :
                     /\ pc[v] = "saved"
                     /\ Strategy(v) # "NONE"
                     /\ e = NewEvent(v, Strategy(v), response)
                     /\ NewRequest(v, Strategy(v), response) \in requests'
  BY <1>1 DEF Geolocation, NewEvent, NewRequest
<1>2. QED
  BY <1>1 DEF Next, vars, HandleUplinkEventDisabled, UpdateGeolocBufferRead,
               UpdateGeolocBufferSave, Expire

\* The event of a resolver call answers the request of that call.
LEMMA NewEventAnswers ==
  ASSUME StateTypeOK, RxIds, NEW u \in Uplinks,
         BOwn(buf[u], u, rxInfo, deliveries),
         Strategy(u) # "NONE", NEW response
  PROVE  Answers(NewEvent(u, Strategy(u), response), NewRequest(u, Strategy(u), response))
<1> DEFINE s == Strategy(u)
           frames == StrategyFrames(u, s)
           e == NewEvent(u, s, response)
           r == NewRequest(u, s, response)
<1>1. s \in {"GNSS", "WIFI", "TDOA", "RSSI"}  BY StrategyChoice
<1>2. /\ r.uplink = u /\ r.delivery = deliveries[u] /\ r.frames = frames
      /\ r.endpoint = Endpoint(s, frames)
      /\ e.uplink = u /\ e.delivery = deliveries[u]
      /\ e.uplinkIds = StrategyUplinkIDs(s, frames)
      /\ e.fCnt = IF StrategyUplinkIDs(s, frames) = <<>> THEN FCnt[u] ELSE 0
  BY DEF NewRequest, NewEvent
<1>3. ReqOK(r, cfg)  BY NewRequestOK
<1> SUFFICES Answers(e, r)  OBVIOUS
<1> HIDE DEF s, frames, e, r
<1>4. CASE s \in {"GNSS", "WIFI"}
  <2>1. r.endpoint \notin BufferedEndpoints
    BY <1>2, <1>4 DEF Endpoint, BufferedEndpoints
  <2>2. StrategyUplinkIDs(s, frames) = <<>>  BY <1>4 DEF StrategyUplinkIDs
  <2>3. QED  BY <1>2, <2>1, <2>2 DEF Answers
<1>5. CASE s \in {"TDOA", "RSSI"}
  <2>1. r.endpoint \in BufferedEndpoints
    BY <1>2, <1>5 DEF Endpoint, BufferedEndpoints
  <2>2. StrategyUplinkIDs(s, frames) = UplinkIDs(frames)  BY <1>5 DEF StrategyUplinkIDs
  <2>3. frames \in Seq(Seq(Reception(UplinkId)))
    <3>1. buf[u] \in Seq(Seq(Reception(UplinkId)))
      BY BufferedFrameIsFrame DEF StateTypeOK
    <3>2. FilterOnFineTimestamp(buf[u], 3) \in Seq(Seq(Reception(UplinkId)))
      BY <3>1, FilterType
    <3>3. QED  BY <1>5, <3>1, <3>2 DEF frames, StrategyFrames, TdoaFiltered
  <2>4. Len(frames) # 0 /\ Len(frames[Len(frames)]) # 0
    <3>1. Len(frames) >= 1 /\ OwnReceptions(frames, DevEui[u])
      BY <1>2, <1>3, <2>1 DEF ReqOK
    <3>2. Len(frames) \in Nat  BY <2>3, LenProperties
    <3>3. Len(frames) \in 1..Len(frames)  BY <3>1, <3>2
    <3>4. QED  BY <3>1, <3>3 DEF OwnReceptions
  <2>5. UplinkIDs(frames) # <<>>  BY <2>3, <2>4, UplinkIDsType
  <2>6. UplinkIDs(frames) = SentUplinkIds(frames)  BY <2>3, SentUplinkIdsIsUplinkIDs
  <2>7. QED  BY <1>2, <2>1, <2>2, <2>5, <2>6 DEF Answers
<1>6. QED  BY <1>1, <1>4, <1>5

\* The inductive invariant for UplinkIdRoundTrip.
UInv == RInv /\ UplinkIdRoundTrip

LEMMA InitUInv == Init => UInv
<1> SUFFICES ASSUME Init PROVE UInv  OBVIOUS
<1>1. RInv  BY InitRInv
<1>2. UplinkIdRoundTrip  BY DEF Init, UplinkIdRoundTrip
<1>3. QED  BY <1>1, <1>2 DEF UInv

LEMMA NextUInv == UInv /\ [Next]_vars => UInv'
<1> SUFFICES ASSUME UInv, [Next]_vars PROVE UInv'  OBVIOUS
<1>1. RInv'  BY NextRInv DEF UInv
<1>2. StateTypeOK /\ RxIds /\ BufferHoldsOwnDeviceFrames  BY DEF UInv, RInv, IInv
<1>3. ASSUME NEW e \in events' PROVE \E r \in requests' : Answers(e, r)
  <2>1. CASE e \in events
    <3>1. PICK r \in requests : Answers(e, r)  BY <2>1, AnswersIs DEF UInv
    <3>2. QED  BY <3>1, EventsGrow
  <2>2. CASE e \notin events
    <3>1. PICK u \in Uplinks, response \in Responses :
            /\ pc[u] = "saved"
            /\ Strategy(u) # "NONE"
            /\ e = NewEvent(u, Strategy(u), response)
            /\ NewRequest(u, Strategy(u), response) \in requests'
      BY <2>2, EventsGrow
    <3>2. BOwn(buf[u], u, rxInfo, deliveries)  BY <1>2, <3>1, OwnIs DEF Own
    <3>3. Answers(e, NewRequest(u, Strategy(u), response))
      BY <1>2, <3>1, <3>2, NewEventAnswers
    <3>4. QED  BY <3>1, <3>3
  <2>3. QED  BY <2>1, <2>2
<1>4. QED  BY <1>1, <1>3, AnswersIs DEF UInv

(***************************************************************************)
(* For every value of the constants and every interleaving of the          *)
(* handlers, store failures, expiries and redeliveries, every location     *)
(* event answers a request of the same delivery of the same uplink: for    *)
(* TDOA and RSSI its uplink_ids are the non-empty in-order concatenation   *)
(* of the uplink ids sent and f_cnt is 0; for GNSS and WiFi uplink_ids is  *)
(* empty and f_cnt is the uplink's (geolocation(), HandleUplinkEvent).     *)
(***************************************************************************)
THEOREM UplinkIdsRoundTrip == Spec => []UplinkIdRoundTrip
<1>1. UInv => UplinkIdRoundTrip  BY DEF UInv
<1>2. QED  BY InitUInv, NextUInv, <1>1, PTL DEF Spec


-----------------------------------------------------------------------------
(* The history of requests and events has its type.                        *)

\* The frames of every strategy are frames of receptions.
LEMMA StrategyFramesType ==
  ASSUME StateTypeOK, NEW u \in Uplinks, NEW s
  PROVE  StrategyFrames(u, s) \in Seq(Seq(Reception(UplinkId)))
<1>1. buf[u] \in Seq(Seq(Reception(UplinkId)))
  BY BufferedFrameIsFrame DEF StateTypeOK
<1>2. FilterOnFineTimestamp(buf[u], 3) \in Seq(Seq(Reception(UplinkId)))
  BY <1>1, FilterType
<1>3. <<rxInfo[u]>> \in Seq(Seq(Reception(UplinkId)))  BY DEF StateTypeOK, Frame
<1>4. QED  BY <1>1, <1>2, <1>3 DEF StrategyFrames, TdoaFiltered

\* The uplink ids geolocation() returns are uplink ids.
LEMMA StrategyUplinkIDsType ==
  ASSUME NEW s, NEW frames \in Seq(Seq(Reception(UplinkId)))
  PROVE  StrategyUplinkIDs(s, frames) \in Seq(UplinkId)
<1>1. UplinkIDs(frames) \in Seq(UplinkId)  BY UplinkIDsType
<1>2. QED  BY <1>1 DEF StrategyUplinkIDs

\* The location a strategy helper returns, when there is one, has a source.
LEMMA ResolverSource ==
  ASSUME NEW s \in {"GNSS", "WIFI", "TDOA", "RSSI"}, NEW response \in Responses,
         ResolverResult(s, response).loc # NoLoc
  PROVE  ResolverResult(s, response).loc \in Sources
BY DEF ResolverResult, Sources, Range, LocationSource, Responses, NoLoc

\* Every event a step adds is the event of a resolver call that returned
\* a location.
LEMMA EventsLocated ==
  ASSUME [Next]_vars
  PROVE  \A e \in events' : e \in events \/
           \E u \in Uplinks, response \in Responses :
              /\ pc[u] = "saved"
              /\ Strategy(u) # "NONE"
              /\ ResolverResult(Strategy(u), response).loc # NoLoc
              /\ e = NewEvent(u, Strategy(u), response)
<1>1. ASSUME NEW u \in Uplinks, Geolocation(u)
      PROVE  \A e \in events' : e \in events \/
               \E v \in Uplinks, response \in Responses :
                  /\ pc[v] = "saved"
                  /\ Strategy(v) # "NONE"
                  /\ ResolverResult(Strategy(v), response).loc # NoLoc
                  /\ e = NewEvent(v, Strategy(v), response)
  BY <1>1 DEF Geolocation, NewEvent
<1>2. QED
  BY <1>1 DEF Next, vars, HandleUplinkEventDisabled, UpdateGeolocBufferRead,
               UpdateGeolocBufferSave, Expire

LEMMA InitDelivered == Init => HandlerDelivered
BY DEF Init, HandlerDelivered

LEMMA NextDelivered ==
  ASSUME StateTypeOK, HandlerDelivered, [Next]_vars
  PROVE  HandlerDelivered'
<1> USE DEF StateTypeOK, HandlerDelivered
<1>1. ASSUME NEW u \in Uplinks, HandleUplinkEventDisabled(u) PROVE HandlerDelivered'
  BY <1>1 DEF HandleUplinkEventDisabled
<1>2. ASSUME NEW u \in Uplinks, UpdateGeolocBufferRead(u) PROVE HandlerDelivered'
  BY <1>2 DEF UpdateGeolocBufferRead
<1>3. ASSUME NEW u \in Uplinks, UpdateGeolocBufferSave(u) PROVE HandlerDelivered'
  BY <1>3 DEF UpdateGeolocBufferSave
<1>4. ASSUME NEW u \in Uplinks, Geolocation(u) PROVE HandlerDelivered'
  BY <1>4 DEF Geolocation
<1>5. ASSUME NEW d \in Devices, Expire(d) PROVE HandlerDelivered'
  BY <1>5 DEF Expire
<1>6. CASE UNCHANGED vars  BY <1>6 DEF vars
<1>7. QED  BY <1>1, <1>2, <1>3, <1>4, <1>5, <1>6 DEF Next

\* The request and the event of a handler at "saved" have their types.
LEMMA NewHistoryType ==
  ASSUME StateTypeOK, HandlerDelivered, NEW u \in Uplinks, pc[u] = "saved",
         Strategy(u) # "NONE", NEW response \in Responses
  PROVE  /\ NewRequest(u, Strategy(u), response) \in Request
         /\ ResolverResult(Strategy(u), response).loc # NoLoc =>
              NewEvent(u, Strategy(u), response) \in LocationEvent
<1> DEFINE s == Strategy(u)
           frames == StrategyFrames(u, s)
<1>1. s \in {"GNSS", "WIFI", "TDOA", "RSSI"}  BY StrategyChoice
<1>2. deliveries[u] \in 1..MaxDeliveries  BY DEF StateTypeOK, HandlerDelivered
<1>3. frames \in Seq(Seq(Reception(UplinkId)))  BY StrategyFramesType
<1>4. StrategyUplinkIDs(s, frames) \in Seq(UplinkId)  BY <1>3, StrategyUplinkIDsType
<1>5. FCnt[u] \in Nat  BY ConstantsAssumption
<1> HIDE DEF s, frames
<1>6. Endpoint(s, frames) \in Endpoints  BY <1>1 DEF Endpoint, Endpoints
<1>7. NewRequest(u, s, response) \in Request
  BY <1>2, <1>3, <1>6 DEF NewRequest, Request, Frame, SentMacsOk, frames
<1>8. ASSUME ResolverResult(s, response).loc # NoLoc
      PROVE  NewEvent(u, s, response) \in LocationEvent
  <2>1. ResolverResult(s, response).loc \in Sources  BY <1>1, <1>8, ResolverSource
  <2>2. QED  BY <1>2, <1>4, <1>5, <2>1 DEF NewEvent, LocationEvent, frames
<1>9. QED  BY <1>7, <1>8 DEF s

\* The inductive invariant for TypeOK.
TInv == StateTypeOK /\ HandlerDelivered /\ HistoryTypeOK

LEMMA InitTInv == Init => TInv
BY InitStateType, InitDelivered DEF Init, TInv, HistoryTypeOK

LEMMA NextTInv == TInv /\ [Next]_vars => TInv'
<1> SUFFICES ASSUME TInv, [Next]_vars PROVE TInv'  OBVIOUS
<1>1. StateTypeOK'  BY NextStateType DEF TInv
<1>2. HandlerDelivered'  BY NextDelivered DEF TInv
<1>3. requests' \subseteq Request
  <2> SUFFICES ASSUME NEW r \in requests', r \notin requests PROVE r \in Request
    BY DEF TInv, HistoryTypeOK
  <2>1. PICK u \in Uplinks, response \in Responses :
          /\ pc[u] = "saved"
          /\ Strategy(u) # "NONE"
          /\ r = NewRequest(u, Strategy(u), response)
    BY RequestsGrow
  <2>2. QED  BY <2>1, NewHistoryType DEF TInv
<1>4. events' \subseteq LocationEvent
  <2> SUFFICES ASSUME NEW e \in events', e \notin events PROVE e \in LocationEvent
    BY DEF TInv, HistoryTypeOK
  <2>1. PICK u \in Uplinks, response \in Responses :
          /\ pc[u] = "saved"
          /\ Strategy(u) # "NONE"
          /\ ResolverResult(Strategy(u), response).loc # NoLoc
          /\ e = NewEvent(u, Strategy(u), response)
    BY EventsLocated
  <2>2. QED  BY <2>1, NewHistoryType DEF TInv
<1>5. QED  BY <1>1, <1>2, <1>3, <1>4 DEF TInv, HistoryTypeOK

(***************************************************************************)
(* For every value of the constants every variable keeps its type: besides *)
(* the handler state, every request geolocation() sends names a delivery   *)
(* of its uplink, an endpoint and frames of receptions, and every location *)
(* event carries a source, uplink ids and an f_cnt (HandleUplinkEvent).    *)
(***************************************************************************)
THEOREM TypeCorrect == Spec => []TypeOK
<1>1. TInv => TypeOK  BY DEF TInv, TypeOK
<1>2. QED  BY InitTInv, NextTInv, <1>1, PTL DEF Spec

=============================================================================
