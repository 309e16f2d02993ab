---------------------------- MODULE MC_LoRaCloud ----------------------------
(***************************************************************************)
(* Small instances of LoRaCloud for TLC.  Two uplinks u1, u2 of device d1  *)
(* race on d1's buffer; u3 of device d2 checks that buffers stay apart.    *)
(***************************************************************************)
EXTENDS LoRaCloud, TLC

CONSTANTS d1, d2, u1, u2, u3

MCDevEui == [u \in Uplinks |-> IF u = u3 THEN d2 ELSE d1]
MCFCnt == [u \in Uplinks |-> CASE u = u1 -> 1 [] u = u2 -> 2 [] OTHER -> 3]

\* Three receptions all timed (TDOA and RSSI frame), three with one untimed
\* (RSSI only, spec.md S4), four with three timed (TDOA sends three of
\* them), two receptions (never buffered).
MCFrameShapes == {<<TRUE, TRUE, TRUE>>, <<TRUE, TRUE, FALSE>>,
                  <<TRUE, TRUE, TRUE, FALSE>>, <<TRUE, TRUE>>}

GnssField == "lr1110_gnss"
WifiField == "wifi_aps"

\* A configuration with the buffered strategies only.
BufferedConfig(ttl, min, tdoa, rssi) ==
  [Geolocation |-> TRUE, GeolocationBufferTTL |-> ttl,
   GeolocationMinBufferSize |-> min,
   GeolocationTDOA |-> tdoa, GeolocationRSSI |-> rssi,
   GeolocationGNSS |-> FALSE, GeolocationGNSSPayloadField |-> GnssField,
   GeolocationWifi |-> FALSE, GeolocationWifiPayloadField |-> WifiField]

Disabled == [BufferedConfig(60, 0, TRUE, TRUE) EXCEPT !.Geolocation = FALSE]

\* Buffered strategies: every TTL/min-size/TDOA/RSSI combination of interest.
MCBufferedConfigs ==
  {BufferedConfig(ttl, min, tdoa, rssi) :
     ttl \in {0, 60}, min \in {0, 2}, tdoa \in BOOLEAN, rssi \in BOOLEAN}
  \cup {Disabled}

\* For the store alone: the buffer kept or not, RSSI only (the strategy
\* does not touch the store).
MCStoreFrameShapes == {<<TRUE, TRUE, TRUE>>, <<TRUE, TRUE>>}
MCStoreConfigs == {BufferedConfig(60, 0, FALSE, TRUE), BufferedConfig(0, 0, FALSE, TRUE)}

MCEmptyObjects == {[kind |-> "empty"]}

\* Every strategy may be enabled; the buffer is kept, no minimum size.
StrategyConfig(gnss, wifi, tdoa) ==
  [BufferedConfig(60, 0, tdoa, TRUE) EXCEPT !.GeolocationGNSS = gnss,
                                            !.GeolocationWifi = wifi]

MCStrategyConfigs ==
  {StrategyConfig(gnss, wifi, tdoa) : gnss, wifi, tdoa \in BOOLEAN}

B64(n) == [type |-> "string", base64 |-> TRUE, bytes |-> n]

\* object_json values: empty, undecodable, GNSS bytes (S6), the GNSS field
\* missing (S8), a GNSS field that is not a string, GNSS field decoding to
\* nothing, WiFi access points (S7), a WiFi list with a bad item, and GNSS
\* bytes together with access points.
MCObjects ==
  { [kind |-> "empty"],
    [kind |-> "invalid"],
    [kind |-> "object", fields |-> (GnssField :> B64(3))],
    [kind |-> "object", fields |-> ("other" :> B64(3))],
    [kind |-> "object", fields |-> (GnssField :> [type |-> "number"])],
    [kind |-> "object", fields |-> (GnssField :> B64(0))],
    [kind |-> "object", fields |->
       (WifiField :> [type |-> "array", items |-> <<"ValidAp", "ValidAp">>])],
    [kind |-> "object", fields |->
       (WifiField :> [type |-> "array", items |-> <<"ValidAp", "MacBadBase64">>])],
    [kind |-> "object", fields |->
       (GnssField :> B64(3)) @@
       (WifiField :> [type |-> "array", items |-> <<"ValidAp">>])] }


\* WiFi lists whose MACs decode to 6 bytes, to 4 bytes and to 8 bytes.
MCMacObjects ==
  { [kind |-> "object", fields |->
       (WifiField :> [type |-> "array", items |-> <<a>>])] :
      a \in {"ValidAp", "ShortMacAp", "LongMacAp"} }

\* WiFi only, the buffer kept.
MCWifiConfigs == {StrategyConfig(FALSE, TRUE, FALSE)}

=============================================================================
