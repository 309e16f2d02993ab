---------------------------- MODULE GeolocFilters ----------------------------
(***************************************************************************)
(* Pure helpers of internal/integration/loracloud/loracloud.go over the    *)
(* reception metadata of frames.  A reception (gw.UplinkRXInfo) is kept    *)
(* only as far as the integration looks at it: its uplink id, which flows  *)
(* into the LocationEvent, and whether it carries a fine timestamp.        *)
(* A frame is the rx_info slice of one uplink, a geolocation buffer a      *)
(* sequence of frames, oldest first.                                       *)
(***************************************************************************)
EXTENDS Naturals, Sequences, SequencesExt

\* The set of receptions whose uplink id is drawn from Ids.
Reception(Ids) == [uplinkId : Ids, fineTimestamp : BOOLEAN]

\* GetFineTimestamp() != nil: true for a plain and for an encrypted fine
\* timestamp alike, although the comment of filterOnFineTimestamp speaks of
\* a plain one.  The model follows the code.
HasFineTimestamp(r) == r.fineTimestamp

(***************************************************************************)
(* Plausible faults of filterOnFineTimestamp, kept for mutation analysis: *)
(* a filter that keeps the frame whole once enough receptions carry a     *)
(* fine timestamp (the untimed receptions are sent as well).              *)
(***************************************************************************)
FilterOnFineTimestampKeepsWholeFrame(geolocBuffer, minPerFrame) ==
  SelectSeq(geolocBuffer,
            LAMBDA f : Len(SelectSeq(f, HasFineTimestamp)) >= minPerFrame)

(***************************************************************************)
(* The append loop "for i := range s { if i in keep { out = append(out,    *)
(* s[i]) } }": out after the first i elements of s, for i in 0..Len(s).    *)
(***************************************************************************)
AppendWherePrefix(s, keep) ==
  LET out[i \in 0..Len(s)] ==
        IF i = 0 THEN <<>>
        ELSE IF i \in keep THEN Append(out[i - 1], s[i]) ELSE out[i - 1]
  IN  out

\* The elements of s at the indices in keep, in order: the loop's result.
AppendWhere(s, keep) == AppendWherePrefix(s, keep)[Len(s)]

\* The receptions of frame f that carry a fine timestamp, in order.
TimedReceptions(f) ==
  AppendWhere(f, {j \in 1..Len(f) : HasFineTimestamp(f[j])})

(***************************************************************************)
(* filterOnFineTimestamp: per frame keep the receptions with a fine        *)
(* timestamp (the inner loop), then keep the frame only when at least      *)
(* minPerFrame are left (the outer loop).  Order of frames and receptions  *)
(* is preserved.                                                           *)
(***************************************************************************)
FilterOnFineTimestamp(geolocBuffer, minPerFrame) ==
  LET timed == [i \in 1..Len(geolocBuffer) |-> TimedReceptions(geolocBuffer[i])]
  IN  AppendWhere(timed, {i \in 1..Len(timed) : Len(timed[i]) >= minPerFrame})

\* A fault of the uplink-id loop: only the ids of the newest frame.
UplinkIDsOfLastFrame(geolocBuffer) ==
  IF geolocBuffer = <<>> THEN <<>>
  ELSE [j \in 1..Len(Last(geolocBuffer)) |-> Last(geolocBuffer)[j].uplinkId]

(***************************************************************************)
(* The uplinkIDs loops of geolocation(): the in-order concatenation of the *)
(* uplink ids of every reception of every frame sent to the resolver.      *)
(***************************************************************************)
UplinkIDs(geolocBuffer) ==
  FlattenSeq([i \in 1..Len(geolocBuffer) |->
                [j \in 1..Len(geolocBuffer[i]) |-> geolocBuffer[i][j].uplinkId]])

\* A fault of the append of updateGeolocBuffer: no 3-gateway gate.
AppendFrameUngated(geolocBuffer, rxInfo) == Append(geolocBuffer, rxInfo)

\* A fault of the append: the new frame put in front of the older ones.
AppendFrameInFront(geolocBuffer, rxInfo) ==
  IF Len(rxInfo) >= 3 THEN <<rxInfo>> \o geolocBuffer ELSE geolocBuffer

(***************************************************************************)
(* updateGeolocBuffer: the frame is appended only when the uplink was      *)
(* received by at least 3 gateways.                                        *)
(***************************************************************************)
AppendFrame(geolocBuffer, rxInfo) ==
  IF Len(rxInfo) >= 3 THEN Append(geolocBuffer, rxInfo) ELSE geolocBuffer

\* A fault of the size gate: the len(...) == 0 test dropped.
EnoughFramesNoEmptyCheck(b, minBufferSize) == ~(Len(b) < minBufferSize)

(***************************************************************************)
(* The gate of the TDOA and RSSI branches: they are skipped when           *)
(* len(b) == 0 || len(b) < GeolocationMinBufferSize.                       *)
(***************************************************************************)
EnoughFrames(b, minBufferSize) == ~(Len(b) = 0 \/ Len(b) < minBufferSize)

=============================================================================
