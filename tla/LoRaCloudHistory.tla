--------------------------- MODULE LoRaCloudHistory ---------------------------
(***************************************************************************)
(* LoRaCloud with one auxiliary history variable, held[d]: every value the *)
(* store has held under d's key.  It does not constrain the handlers; it   *)
(* only records what the refinement mapping onto GeolocBufferStore needs   *)
(* to name the earlier value a save extends.                               *)
(***************************************************************************)
EXTENDS LoRaCloud

VARIABLE held

hvars == <<vars, held>>

HInit ==
  /\ Init
  /\ held = [d \in Devices |-> {<<>>}]

\* Every step of LoRaCloud, recording the value each key holds after it.
HNext ==
  /\ Next
  /\ held' = [d \in Devices |-> held[d] \cup {store'[d]}]

HSpec == HInit /\ [][HNext]_hvars

\* The store seen through the refinement mapping: the stored buffers, their
\* history, the uplinks called at least once, and their rx_info.
Store == INSTANCE GeolocBufferStore
           WITH kv <- store,
                sent <- {u \in Uplinks : deliveries[u] > 0},
                frame <- rxInfo

(***************************************************************************)
(* However the read and the save of updateGeolocBuffer of concurrent       *)
(* uplinks interleave with each other, with store failures, expiries and   *)
(* redeliveries, the store behaves as GeolocBufferStore: every save writes *)
(* an earlier value of the device's key extended by the saving uplink's    *)
(* own frame, and never an empty buffer.                                   *)
(***************************************************************************)
BufferRefinesStore == Store!Spec

=============================================================================
