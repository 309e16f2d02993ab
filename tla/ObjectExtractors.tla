--------------------------- MODULE ObjectExtractors ---------------------------
(***************************************************************************)
(* getBytesFromJSONObject and getWifiAccessPointsFromJSONObject of         *)
(* internal/integration/loracloud/loracloud.go over an abstract JSON       *)
(* object.  The object_json string of an uplink is one of                  *)
(*   [kind |-> "empty"]            the empty string,                       *)
(*   [kind |-> "invalid"]          a string json.Unmarshal rejects,        *)
(*   [kind |-> "object", fields |-> f]  a decoded top-level object whose   *)
(*                                 keys are DOMAIN f.                      *)
(* A field value is one of the JSON shapes the extractors tell apart:      *)
(*   [type |-> "string", base64 |-> ok, bytes |-> n]  a string that is (ok) *)
(*        or is not valid standard base64, decoding to n bytes;            *)
(*   [type |-> "array", items |-> s]  a list whose items are in ApItems;   *)
(*   [type |-> "number"]              any other JSON value.                *)
(* An extraction result is [err |-> e, len |-> n]: an error, or a value of *)
(* n bytes (GNSS) or n access points (WiFi).                               *)
(***************************************************************************)
EXTENDS Naturals, Sequences

\* The outcomes of decoding one item of the WiFi list, one per code path:
\* an access point whose macAddress decodes to 6 bytes, to fewer or to
\* more bytes, an item that is not an object, a macAddress that is not a
\* string, a macAddress that is not base64, a signalStrength that is not a
\* number.
ApItems == {"ValidAp", "ShortMacAp", "LongMacAp", "NotAnObject",
            "MacNotString", "MacBadBase64", "SignalNotNumber"}

\* The items the loop turns into an access point: copy(ap.MacAddress[:], b)
\* takes any decoded length, cutting or zero-filling it to 6 bytes.
DecodedAps == {"ValidAp", "ShortMacAp", "LongMacAp"}

\* The decoded value of field in jsonStr is present.
FieldPresent(field, jsonStr) ==
  jsonStr.kind = "object" /\ field \in DOMAIN jsonStr.fields

(***************************************************************************)
(* getBytesFromJSONObject: "" and a missing field give no bytes; a JSON    *)
(* error, a value that is not a string and a base64 error are errors.      *)
(***************************************************************************)
GetBytesFromJSONObject(field, jsonStr) ==
  LET present == FieldPresent(field, jsonStr)
      vv      == jsonStr.fields[field]
      decoded == present /\ vv.type = "string" /\ vv.base64
  IN  [err |-> \/ jsonStr.kind = "invalid"
               \/ present /\ ~decoded,
       len |-> IF decoded THEN vv.bytes ELSE 0]

(***************************************************************************)
(* getWifiAccessPointsFromJSONObject: "" and a missing field give no       *)
(* access points; a JSON error, a value that is not a list, and the first  *)
(* item of the list that fails to decode are errors; otherwise one access  *)
(* point per item, in list order.  macsOk: every MAC decoded to 6 bytes.  *)
(***************************************************************************)
GetWifiAccessPointsFromJSONObject(field, jsonStr) ==
  LET present == FieldPresent(field, jsonStr)
      vv      == jsonStr.fields[field]
      decoded == /\ present
                 /\ vv.type = "array"
                 /\ \A i \in 1..Len(vv.items) : vv.items[i] \in DecodedAps
  IN  [err |-> \/ jsonStr.kind = "invalid"
               \/ present /\ ~decoded,
       len |-> IF decoded THEN Len(vv.items) ELSE 0,
       macsOk |-> decoded => \A i \in 1..Len(vv.items) : vv.items[i] = "ValidAp"]

=============================================================================
