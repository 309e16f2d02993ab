------------------------------ MODULE LoRaCloud ------------------------------
(***************************************************************************)
(* The LoRaCloud geolocation integration of                                *)
(* internal/integration/loracloud/loracloud.go: HandleUplinkEvent of many  *)
(* uplinks running concurrently, each one                                  *)
(*   1. reading the device's geolocation buffer from the key-value store   *)
(*      and appending its own frame when >= 3 gateways received it,        *)
(*   2. saving the buffer back when it is not empty,                       *)
(*   3. choosing a strategy (GNSS, WiFi, TDOA, RSSI, in that order),       *)
(*      calling the resolver and handing a location to the sink.           *)
(* Steps 1 and 2 are separate round trips to the shared store, so other    *)
(* uplinks of the same device interleave between them.  The store, its    *)
(* TTL and the resolver are outside src/ and are modelled from spec.md:    *)
(* every round trip may fail, a stored buffer may expire at any moment,    *)
(* the resolver answers with a location, "no location" or an error.  The  *)
(* dispatcher that calls HandleUplinkEvent may deliver an uplink again     *)
(* after it returned an error, up to MaxDeliveries times in all.           *)
(***************************************************************************)
EXTENDS Naturals, Integers, Sequences, SequencesExt, Functions,
        GeolocFilters, ObjectExtractors

CONSTANTS
    Devices,       \* device EUIs (buffer keys)
    Uplinks,       \* the uplink events the dispatcher hands to the integration
    DevEui,        \* DevEui[u]: the device of uplink u
    FCnt,          \* FCnt[u]: the frame counter of uplink u
    FrameShapes,   \* the rx_info an uplink may carry: per gateway, fine timestamp or not
    Objects,       \* the object_json values an uplink may carry (see ObjectExtractors)
    Configs,       \* the integration Config values considered
    MaxDeliveries  \* how often the dispatcher may call HandleUplinkEvent for one uplink

\* The fields of Config the handler reads; GeolocationToken and
\* GeolocationGNSSUseRxTime only shape the HTTP request and are left out.
ConfigType ==
  [Geolocation : BOOLEAN, GeolocationBufferTTL : Nat,
   GeolocationMinBufferSize : Int,
   GeolocationTDOA : BOOLEAN, GeolocationRSSI : BOOLEAN,
   GeolocationGNSS : BOOLEAN, GeolocationGNSSPayloadField : STRING,
   GeolocationWifi : BOOLEAN, GeolocationWifiPayloadField : STRING]

ASSUME ConstantsAssumption ==
  /\ DevEui \in [Uplinks -> Devices]
  /\ FCnt \in [Uplinks -> Nat]
  /\ FrameShapes \subseteq Seq(BOOLEAN)
  /\ Configs \subseteq ConfigType
  /\ Configs # {}
  /\ MaxDeliveries \in Nat \ {0}

VARIABLES
    cfg,         \* i.config, fixed at New()
    rxInfo,      \* rxInfo[u]: pl.RxInfo of uplink u
    objectJson,  \* objectJson[u]: pl.ObjectJson of uplink u
    store,       \* store[d]: the geolocation buffer kept under d's key
    pc,          \* pc[u]: where the handler of u is
    buf,         \* buf[u]: the local geolocBuffer of u's handler
    deliveries,  \* deliveries[u]: calls of HandleUplinkEvent for u so far
    requests,    \* history: every request sent to the resolver
    events       \* history: every LocationEvent handed to the sink

vars == <<cfg, rxInfo, objectJson, store, pc, buf, deliveries, requests, events>>

-----------------------------------------------------------------------------
UplinkId == Uplinks \X Nat
Frame == Seq(Reception(UplinkId))
\* The frames updateGeolocBuffer ever puts in a buffer.
BufferedFrame == {f \in Frame : Len(f) >= 3}

\* The frame of uplink u with the given per-gateway fine-timestamp shape;
\* the j-th reception of u has uplink id <<u, j>>.
FrameOf(u, shape) ==
  [j \in 1..Len(shape) |-> [uplinkId |-> <<u, j>>, fineTimestamp |-> shape[j]]]

PcValues == {"idle", "read", "saved", "done", "failed"}
Strategies == {"GNSS", "WIFI", "TDOA", "RSSI"}
Responses == {"Location", "NoLocation", "Error"}
Endpoints == {"v2_tdoa_single", "v2_tdoa_multi", "v2_rssi_single",
              "v2_rssi_multi", "v2_wifi_tdoa_single", "v3_gnss_rl1110_single"}
BufferedEndpoints == {"v2_tdoa_single", "v2_tdoa_multi",
                      "v2_rssi_single", "v2_rssi_multi"}
\* common.LocationSource of the location each resolver call returns;
\* UNKNOWN is the zero value of an unset common.Location.
LocationSource == [GNSS |-> "GEO_RESOLVER_GNSS", WIFI |-> "GEO_RESOLVER_WIFI",
                   TDOA |-> "GEO_RESOLVER_TDOA", RSSI |-> "GEO_RESOLVER_RSSI"]
Sources == Range(LocationSource) \cup {"UNKNOWN"}
NoLoc == "nil"

Request == [uplink : Uplinks, delivery : 1..MaxDeliveries, endpoint : Endpoints,
            frames : Seq(Frame), apMacsOk : BOOLEAN, response : Responses]
LocationEvent == [uplink : Uplinks, delivery : 1..MaxDeliveries, source : Sources,
                  uplinkIds : Seq(UplinkId), fCnt : Nat]

-----------------------------------------------------------------------------
(* The key-value store (spec.md 4.2; its code is not under src/).          *)

\* A fault of the key template: one key shared by every device.
GeolocBufferKeyShared(d) == CHOOSE k \in Devices : TRUE

\* The buffer key is derived from the device EUI only.
GeolocBufferKey(d) == d

\* A GeolocationBufferTTL of 0 makes the buffer single-frame only: no
\* round trip is made, Get returns nothing and Save keeps nothing.
StoreIO == cfg.GeolocationBufferTTL # 0

\* GetGeolocBuffer: the buffer under d's key, empty when absent or expired.
ReadGeolocBuffer(d) ==
  IF StoreIO THEN store[GeolocBufferKey(d)] ELSE <<>>

\* SaveGeolocBuffer: overwrite d's buffer with b and refresh its TTL.
SaveGeolocBuffer(d, b) ==
  IF StoreIO THEN [store EXCEPT ![GeolocBufferKey(d)] = b] ELSE store

-----------------------------------------------------------------------------
Init ==
  /\ cfg \in Configs
  /\ \E shape \in [Uplinks -> FrameShapes] :
        rxInfo = [u \in Uplinks |-> FrameOf(u, shape[u])]
  /\ objectJson \in [Uplinks -> Objects]
  /\ store = [d \in Devices |-> <<>>]
  /\ pc = [u \in Uplinks |-> "idle"]
  /\ buf = [u \in Uplinks |-> <<>>]
  /\ deliveries = [u \in Uplinks |-> 0]
  /\ requests = {}
  /\ events = {}

\* The dispatcher may call HandleUplinkEvent for u: it has not been called
\* yet, or the last call returned an error and it retries.
Deliverable(u) ==
  /\ pc[u] \in {"idle", "failed"}
  /\ deliveries[u] < MaxDeliveries

\* HandleUplinkEvent with Geolocation disabled returns nil at once.
HandleUplinkEventDisabled(u) ==
  /\ Deliverable(u)
  /\ ~cfg.Geolocation
  /\ deliveries' = [deliveries EXCEPT ![u] = @ + 1]
  /\ pc' = [pc EXCEPT ![u] = "done"]
  /\ UNCHANGED <<cfg, rxInfo, objectJson, store, buf, requests, events>>

(***************************************************************************)
(* HandleUplinkEvent, first half of updateGeolocBuffer: read the buffer    *)
(* and append the frame if >= 3 gateways received it.  A store error ends  *)
(* the handler with "update geolocation buffer error".                     *)
(***************************************************************************)
UpdateGeolocBufferRead(u) ==
  /\ Deliverable(u)
  /\ cfg.Geolocation
  /\ deliveries' = [deliveries EXCEPT ![u] = @ + 1]
  /\ \/ /\ buf' = [buf EXCEPT ![u] =
                     AppendFrame(ReadGeolocBuffer(DevEui[u]), rxInfo[u])]
        /\ pc' = [pc EXCEPT ![u] = "read"]
     \/ /\ StoreIO
        /\ pc' = [pc EXCEPT ![u] = "failed"]
        /\ UNCHANGED buf
  /\ UNCHANGED <<cfg, rxInfo, objectJson, store, requests, events>>

(***************************************************************************)
(* Second half of updateGeolocBuffer: save the buffer when it has > 0      *)
(* items; a store error ends the handler with an error.                    *)
(***************************************************************************)
UpdateGeolocBufferSave(u) ==
  /\ pc[u] = "read"
  /\ \/ /\ buf[u] = <<>>
        /\ pc' = [pc EXCEPT ![u] = "saved"]
        /\ UNCHANGED store
     \/ /\ buf[u] # <<>>
        /\ store' = SaveGeolocBuffer(DevEui[u], buf[u])
        /\ pc' = [pc EXCEPT ![u] = "saved"]
     \/ /\ buf[u] # <<>>
        /\ StoreIO
        /\ pc' = [pc EXCEPT ![u] = "failed"]
        /\ UNCHANGED store
  /\ UNCHANGED <<cfg, rxInfo, objectJson, buf, deliveries, requests, events>>

-----------------------------------------------------------------------------
(* geolocation(): strategy selection over the local buffer and the object. *)

GnssPayload(u) ==
  GetBytesFromJSONObject(cfg.GeolocationGNSSPayloadField, objectJson[u])
WifiAccessPoints(u) ==
  GetWifiAccessPointsFromJSONObject(cfg.GeolocationWifiPayloadField, objectJson[u])
TdoaFiltered(u) == FilterOnFineTimestamp(buf[u], 3)

(***************************************************************************)
(* The branch of geolocation() that is taken, in the order of the code:    *)
(* an extraction error returns nil, nil, nil ("NONE") before any later     *)
(* strategy is looked at; an empty extraction falls through.               *)
(***************************************************************************)
Strategy(u) ==
  IF cfg.GeolocationGNSS /\ GnssPayload(u).err THEN "NONE"
  ELSE IF cfg.GeolocationGNSS /\ GnssPayload(u).len > 0 THEN "GNSS"
  ELSE IF cfg.GeolocationWifi /\ WifiAccessPoints(u).err THEN "NONE"
  ELSE IF cfg.GeolocationWifi /\ WifiAccessPoints(u).len > 0 THEN "WIFI"
  ELSE IF cfg.GeolocationTDOA
          /\ EnoughFrames(TdoaFiltered(u), cfg.GeolocationMinBufferSize)
       THEN "TDOA"
  ELSE IF cfg.GeolocationRSSI
          /\ EnoughFrames(buf[u], cfg.GeolocationMinBufferSize)
       THEN "RSSI"
  ELSE "NONE"

\* The frames the chosen strategy sends: the filtered buffer for TDOA, the
\* buffer for RSSI, the uplink's own rx_info for GNSS and WiFi.
StrategyFrames(u, s) ==
  CASE s = "TDOA" -> TdoaFiltered(u)
    [] s = "RSSI" -> buf[u]
    [] OTHER      -> <<rxInfo[u]>>

\* The client method tdoa/rssi/gnss/wifiGeolocation calls.
Endpoint(s, frames) ==
  CASE s = "GNSS" -> "v3_gnss_rl1110_single"
    [] s = "WIFI" -> "v2_wifi_tdoa_single"
    [] s = "TDOA" -> IF Len(frames) = 1 THEN "v2_tdoa_single" ELSE "v2_tdoa_multi"
    [] s = "RSSI" -> IF Len(frames) = 1 THEN "v2_rssi_single" ELSE "v2_rssi_multi"

(***************************************************************************)
(* What the strategy helper returns for the resolver's answer: the         *)
(* location, nil on ErrNoLocation, an error otherwise -- except            *)
(* wifiTDOAGeolocation, which drops any other error and returns the        *)
(* address of the zero common.Location.                                    *)
(***************************************************************************)
ResolverResult(s, response) ==
  [loc |-> CASE response = "Location"             -> LocationSource[s]
             [] response = "Error" /\ s = "WIFI"  -> "UNKNOWN"
             [] OTHER                            -> NoLoc,
   err |-> response = "Error" /\ s # "WIFI"]

\* The access points wifiTDOAGeolocation sends carry the MACs as decoded:
\* all of them 6 bytes long, or not (only WiFi requests carry any).
SentMacsOk(u, s) == s = "WIFI" => WifiAccessPoints(u).macsOk

\* The uplinkIDs geolocation() returns with the location.
StrategyUplinkIDs(s, frames) ==
  IF s \in {"TDOA", "RSSI"} THEN UplinkIDs(frames) ELSE <<>>

(***************************************************************************)
(* HandleUplinkEvent after the buffer update: geolocation() and, when it   *)
(* gives a location, HandleLocationEvent on the sink.  FCnt is set only    *)
(* when there are no uplink ids.  A sink error is only logged, so the      *)
(* handler returns nil; a resolver error is returned.                      *)
(***************************************************************************)
Geolocation(u) ==
  /\ pc[u] = "saved"
  /\ LET s == Strategy(u) IN
     \/ /\ s = "NONE"
        /\ pc' = [pc EXCEPT ![u] = "done"]
        /\ UNCHANGED <<requests, events>>
     \/ /\ s # "NONE"
        /\ \E response \in Responses :
             LET frames == StrategyFrames(u, s)
                 r      == ResolverResult(s, response)
                 ids    == StrategyUplinkIDs(s, frames)
             IN  /\ requests' = requests \cup
                      {[uplink |-> u, delivery |-> deliveries[u],
                        endpoint |-> Endpoint(s, frames), frames |-> frames,
                        apMacsOk |-> SentMacsOk(u, s), response |-> response]}
                 /\ events' = IF r.loc # NoLoc
                              THEN events \cup
                                     {[uplink |-> u, delivery |-> deliveries[u],
                                       source |-> r.loc, uplinkIds |-> ids,
                                       fCnt |-> IF ids = <<>> THEN FCnt[u] ELSE 0]}
                              ELSE events
                 /\ pc' = [pc EXCEPT ![u] = IF r.err THEN "failed" ELSE "done"]
  /\ UNCHANGED <<cfg, rxInfo, objectJson, store, buf, deliveries>>

\* The TTL of a stored buffer runs out (spec.md 4.2): the key is gone.
Expire(d) ==
  /\ store[d] # <<>>
  /\ store' = [store EXCEPT ![d] = <<>>]
  /\ UNCHANGED <<cfg, rxInfo, objectJson, pc, buf, deliveries, requests, events>>

-----------------------------------------------------------------------------
Next ==
  \/ \E u \in Uplinks :
       \/ HandleUplinkEventDisabled(u)
       \/ UpdateGeolocBufferRead(u)
       \/ UpdateGeolocBufferSave(u)
       \/ Geolocation(u)
  \/ \E d \in Devices : Expire(d)

\* Nothing forces the dispatcher to deliver, a handler to proceed or a key
\* to expire: the specification is a safety specification.
Spec == Init /\ [][Next]_vars

-----------------------------------------------------------------------------
(* Properties.                                                             *)

\* The handler state has its type; in particular the store and every local
\* buffer hold only frames of >= 3 receptions (the data model of spec.md 3).
StateTypeOK ==
  /\ cfg \in Configs
  /\ rxInfo \in [Uplinks -> Frame]
  /\ objectJson \in [Uplinks -> Objects]
  /\ store \in [Devices -> Seq(BufferedFrame)]
  /\ pc \in [Uplinks -> PcValues]
  /\ buf \in [Uplinks -> Seq(BufferedFrame)]
  /\ deliveries \in [Uplinks -> 0..MaxDeliveries]

\* The history of requests and location events has its type.
HistoryTypeOK ==
  /\ requests \subseteq Request
  /\ events \subseteq LocationEvent

\* Every variable has its type.
TypeOK == StateTypeOK /\ HistoryTypeOK

\* The frame f is the rx_info of an uplink of device d that the dispatcher
\* has already handed to the integration.
DeliveredFrameOf(f, d) ==
  \E v \in Uplinks : DevEui[v] = d /\ f = rxInfo[v] /\ deliveries[v] > 0

(***************************************************************************)
(* Whatever the interleaving of the handlers, the buffer stored under a    *)
(* device's key, and the buffer any handler of that device holds between   *)
(* its read and its resolver call, consist of frames of uplinks of that    *)
(* device that have been delivered (updateGeolocBuffer, GetGeolocBuffer,   *)
(* SaveGeolocBuffer).                                                      *)
(***************************************************************************)
BufferHoldsOwnDeviceFrames ==
  /\ \A d \in Devices : \A i \in 1..Len(store[d]) :
        DeliveredFrameOf(store[d][i], d)
  /\ \A u \in Uplinks : pc[u] \in {"read", "saved"} =>
        \A i \in 1..Len(buf[u]) : DeliveredFrameOf(buf[u][i], DevEui[u])

\* The strategy an endpoint belongs to.
EndpointStrategy(e) ==
  CASE e \in {"v2_tdoa_single", "v2_tdoa_multi"} -> "TDOA"
    [] e \in {"v2_rssi_single", "v2_rssi_multi"} -> "RSSI"
    [] e = "v2_wifi_tdoa_single"                 -> "WIFI"
    [] e = "v3_gnss_rl1110_single"               -> "GNSS"

(***************************************************************************)
(* Every TDOA and RSSI request sent by geolocation() is well formed: it    *)
(* has at least max(1, GeolocationMinBufferSize) frames, uses the single-  *)
(* frame endpoint exactly when it has one frame, every frame has >= 3      *)
(* receptions, all fine-timestamped for TDOA, and all receptions are of    *)
(* uplinks of the requesting uplink's device (spec.md 8.3, 8.4).           *)
(***************************************************************************)
BufferedRequestWellFormed ==
  \A r \in requests : r.endpoint \in BufferedEndpoints =>
    /\ Len(r.frames) >= 1
    /\ Len(r.frames) >= cfg.GeolocationMinBufferSize
    /\ (Len(r.frames) = 1) <=> r.endpoint \in {"v2_tdoa_single", "v2_rssi_single"}
    /\ \A i \in 1..Len(r.frames) :
         /\ Len(r.frames[i]) >= 3
         /\ \A j \in 1..Len(r.frames[i]) :
              /\ DevEui[r.frames[i][j].uplinkId[1]] = DevEui[r.uplink]
              /\ EndpointStrategy(r.endpoint) = "TDOA" =>
                   r.frames[i][j].fineTimestamp

\* The uplink ids of the receptions of frames, frame by frame: a reference
\* definition, independent of UplinkIDs, for the property below.
SentUplinkIds(frames) ==
  LET upTo[k \in 0..Len(frames)] ==
        IF k = 0 THEN <<>>
        ELSE upTo[k - 1] \o [j \in 1..Len(frames[k]) |-> frames[k][j].uplinkId]
  IN  upTo[Len(frames)]

(***************************************************************************)
(* Uplink-id round trip (spec.md 8.5): every LocationEvent answers a       *)
(* request of the same delivery of the same uplink; for TDOA and RSSI its  *)
(* uplink_ids are the non-empty in-order concatenation of the uplink ids   *)
(* sent and f_cnt is 0, for GNSS and WiFi uplink_ids is empty and f_cnt is *)
(* the uplink's.                                                           *)
(***************************************************************************)
UplinkIdRoundTrip ==
  \A e \in events : \E r \in requests :
    /\ r.uplink = e.uplink
    /\ r.delivery = e.delivery
    /\ IF r.endpoint \in BufferedEndpoints
       THEN /\ e.uplinkIds = SentUplinkIds(r.frames)
            /\ e.uplinkIds # <<>>
            /\ e.fCnt = 0
       ELSE /\ e.uplinkIds = <<>>
            /\ e.fCnt = FCnt[e.uplink]

(***************************************************************************)
(* Buffer order (spec.md 8, S5): when the requesting uplink's own frame    *)
(* qualifies for a TDOA or RSSI request, it is the last (newest) frame of  *)
(* that request, after every frame read from the store.                    *)
(***************************************************************************)
NewestFrameLast ==
  \A r \in requests : r.endpoint \in BufferedEndpoints =>
    LET own == IF EndpointStrategy(r.endpoint) = "TDOA"
               THEN FilterOnFineTimestamp(<<rxInfo[r.uplink]>>, 3)
               ELSE AppendFrame(<<>>, rxInfo[r.uplink])
    IN  own # <<>> => Last(r.frames) = own[1]

(***************************************************************************)
(* spec.md 7: a resolver error propagates to the dispatcher; so every      *)
(* LocationEvent carries a location the resolver returned, tagged with the *)
(* source of the strategy that asked for it.  Violated by                  *)
(* wifiTDOAGeolocation, which drops the error.                             *)
(***************************************************************************)
EventCarriesResolvedFix ==
  \A e \in events : \E r \in requests :
    /\ r.uplink = e.uplink
    /\ r.delivery = e.delivery
    /\ r.response = "Location"
    /\ e.source = LocationSource[EndpointStrategy(r.endpoint)]

(***************************************************************************)
(* The strategy spec.md 4.4, 4.5 and 7 choose: an extraction error is "no  *)
(* extractable input", the strategy is skipped and the next one tried.     *)
(***************************************************************************)
SpecStrategy(u) ==
  IF cfg.GeolocationGNSS /\ GnssPayload(u).len > 0 THEN "GNSS"
  ELSE IF cfg.GeolocationWifi /\ WifiAccessPoints(u).len > 0 THEN "WIFI"
  ELSE IF cfg.GeolocationTDOA
          /\ EnoughFrames(TdoaFiltered(u), cfg.GeolocationMinBufferSize)
       THEN "TDOA"
  ELSE IF cfg.GeolocationRSSI
          /\ EnoughFrames(buf[u], cfg.GeolocationMinBufferSize)
       THEN "RSSI"
  ELSE "NONE"

(***************************************************************************)
(* A malformed object field only skips its own strategy (spec.md 7): a     *)
(* handler that returned nil after reading the buffer has sent a request   *)
(* of the strategy the spec selects, whenever it selects one.  Violated by *)
(* geolocation(), which returns nil, nil, nil on an extraction error.      *)
(***************************************************************************)
ExtractErrorSkipsStrategy ==
  \A u \in Uplinks :
    (pc[u] = "done" /\ cfg.Geolocation /\ SpecStrategy(u) # "NONE") =>
      \E r \in requests :
        /\ r.uplink = u
        /\ r.delivery = deliveries[u]
        /\ EndpointStrategy(r.endpoint) = SpecStrategy(u)

(***************************************************************************)
(* spec.md 4.4: each access point has a base64-encoded 6-byte macAddress   *)
(* and any structural mismatch fails the extraction; so no WiFi request    *)
(* carries a MAC that did not decode to 6 bytes.  Violated by              *)
(* getWifiAccessPointsFromJSONObject, which copies whatever it decoded     *)
(* into the 6-byte MacAddress.                                             *)
(***************************************************************************)
WifiMacsAreSixBytes ==
  \A r \in requests : r.apMacsOk

(***************************************************************************)
(* uplink_id is unique per reception (spec.md 3), so no LocationEvent      *)
(* lists one twice.  Violated when the dispatcher redelivers an uplink     *)
(* whose first call saved its frame and then failed: the frame is          *)
(* buffered twice.                                                         *)
(***************************************************************************)
NoDuplicateUplinkIds ==
  \A e \in events : IsInjective(e.uplinkIds)

=============================================================================
