--------------------------- MODULE GeolocBufferStore ---------------------------
(***************************************************************************)
(* What the geolocation buffer promises (spec.md 4.2 and 5), with no       *)
(* handlers in it.  Each device key holds a sequence of frames.  A write   *)
(* under d's key stores some value the key has held before -- not          *)
(* necessarily the latest one, since concurrent uplinks of one device are  *)
(* last-writer-wins -- extended by the frame of one delivered uplink of d  *)
(* when that frame has >= 3 receptions; an empty buffer is never written.  *)
(* A key may expire at any moment.                                         *)
(***************************************************************************)
EXTENDS Naturals, Sequences

CONSTANTS
    Devices,   \* the device keys
    Uplinks,   \* the uplinks
    DevEui     \* DevEui[u]: the device of uplink u

VARIABLES
    kv,     \* kv[d]: the buffer stored under d's key
    held,   \* held[d]: every value d's key has held so far
    sent,   \* the uplinks delivered to the integration so far
    frame   \* frame[u]: the rx_info of uplink u (never changes)

avars == <<kv, held, sent, frame>>

\* The buffer a write makes of old and the writer's frame: the frame is
\* kept only when at least 3 gateways received it.
Extended(old, f) == IF Len(f) >= 3 THEN Append(old, f) ELSE old

Init ==
  /\ kv = [d \in Devices |-> <<>>]
  /\ held = [d \in Devices |-> {<<>>}]
  /\ sent = {}

\* The dispatcher hands uplink u to the integration (again).
Deliver(u) ==
  /\ sent' = sent \cup {u}
  /\ UNCHANGED <<kv, held, frame>>

\* A delivered uplink of d writes an earlier value of d's key extended by
\* its own frame.
Write(d) ==
  \E u \in sent, old \in held[d] :
    /\ DevEui[u] = d
    /\ Extended(old, frame[u]) # <<>>
    /\ kv' = [kv EXCEPT ![d] = Extended(old, frame[u])]
    /\ held' = [held EXCEPT ![d] = @ \cup {Extended(old, frame[u])}]
    /\ UNCHANGED <<sent, frame>>

\* The TTL of d's key runs out.
Expire(d) ==
  /\ kv[d] # <<>>
  /\ kv' = [kv EXCEPT ![d] = <<>>]
  /\ UNCHANGED <<held, sent, frame>>

Next ==
  \/ \E u \in Uplinks : Deliver(u)
  \/ \E d \in Devices : Write(d) \/ Expire(d)

Spec == Init /\ [][Next]_avars

=============================================================================
