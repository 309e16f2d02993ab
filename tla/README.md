# TLA+ models of the LoRaCloud geolocation integration

This directory models `src/internal/integration/loracloud/loracloud.go`. It
holds TLA+ modules, the TLC configurations that check them, and TLAPS proofs.
The behaviour of the key-value store, the resolver HTTP client and the
dispatcher comes from `spec.md`, because their code is not under `src/`.

## 1. The system

When geolocation is enabled, the dispatcher calls `HandleUplinkEvent` for each
uplink. Many calls run at once, one per in-flight uplink (spec.md 5). Each call
goes through three steps:

1. **updateGeolocBuffer, read** (lines 133-144). It gets the device's buffer
   from the KV store (`GetGeolocBuffer`). If the uplink was received by at
   least 3 gateways, it appends the uplink's `rx_info` to the buffer.
2. **updateGeolocBuffer, save** (lines 146-154). If the buffer is not empty,
   it writes the buffer back, which also refreshes the TTL. This is a second
   round trip. Between the two, other uplinks of the same device can read and
   write the same key.
3. **geolocation** (lines 156-244) and the rest of the handler (lines 63-87).
   The strategies are tried in a fixed priority:
   - GNSS, if the payload extracted from `object_json` is not empty;
   - WiFi, if the access-point list is not empty;
   - TDOA, over `filterOnFineTimestamp(buffer, 3)`;
   - RSSI, over the whole buffer.

   TDOA and RSSI need at least max(1, `GeolocationMinBufferSize`) frames. A
   helper (lines 246-337) picks the single-frame or multi-frame endpoint and
   interprets the resolver's answer. A location becomes a `LocationEvent` for
   the sink: it carries the uplink ids sent for TDOA/RSSI, and `f_cnt`
   otherwise.

Error paths:
- A store error (read or save) is returned and the resolver is not called.
- A resolver error is returned, except in `wifiTDOAGeolocation`, which drops it.
- An extraction error makes `geolocation` return nil, nil, nil.
- A sink error is only logged.

The dispatcher may deliver an uplink again after an error (spec.md 7).

## 2. Inventory

| Component | Code | State | Operations | Module |
|---|---|---|---|---|
| Facade `HandleUplinkEvent` | 51-91 | `cfg` (fixed at `New`) | disabled path, enabled path, event to the sink | LoRaCloud |
| Buffer update | 133-154 | `buf[u]` (the local `geolocBuffer`), `pc[u]` | read+append, save | LoRaCloud, GeolocFilters |
| KV store (not in src/) | spec 4.2 | `store[d]` | Get, Save, TTL expiry, failures | LoRaCloud (spec-modelled) |
| Orchestrator `geolocation` | 156-244 | none (pure over buffer, object, config) | strategy selection | LoRaCloud |
| Strategy helpers | 246-337 | none | endpoint choice, answer interpretation | LoRaCloud |
| `filterOnFineTimestamp` | 339-360 | pure | filter | GeolocFilters |
| Object extractors | 362-441 | pure | GNSS bytes, WiFi APs | ObjectExtractors |
| Resolver client (not in src/) | spec 4.6 | `requests` history | answer: location / no location / error | LoRaCloud (spec-modelled) |
| Dispatcher (not in repo) | spec 5, 7 | `deliveries[u]` | (re)delivery after an error | LoRaCloud (spec-modelled) |
| Metrics, logging | 256-334, log calls | none | observe/log | not modelled: no control flow depends on them |
| Konker UI (`src/ui`) | JS | React form state | unrelated to geolocation | not modelled |

What makes the code hard is listed in `PROJECT.json` under "hazards":
- the lost update between read and save;
- a stale or expired buffer that is saved back;
- redelivery after a partial success;
- a swallowed WiFi error;
- an extraction error that aborts the fallback to lower-priority strategies;
- the zero and one boundaries of the min-size gate and of the endpoint choice;
- frame order;
- handler termination;
- unbounded buffer growth;
- MAC truncation.

## 3. Modules

- **GeolocFilters.** Holds the pure helpers of the buffer.
  - `Reception(Ids)` is an abstract `gw.UplinkRXInfo`: an uplink id and whether
    it has a fine timestamp.
  - `FilterOnFineTimestamp` is written with `SelectSeq`, the per-frame keep
    first and the `>= minPerFrame` drop second, as in lines 345-357.
  - `UplinkIDs` is the double loop of lines 212-217, written with `FlattenSeq`.
  - `AppendFrame` is the `len(pl.RxInfo) >= 3` append.
  - `EnoughFrames` is the negation of the gate `len == 0 || len < min`.
- **ObjectExtractors.** Models the two extractors over an abstract JSON value.
  The value is empty, undecodable, or an object whose fields are strings
  (valid base64 or not, with a byte count), arrays of access-point items, or
  numbers. An item has one of the seven shapes the loop of lines 416-439
  tells apart. Three of them are decoded into an access point: a MAC of
  6 bytes, of fewer, or of more, because `copy(ap.MacAddress[:], b)` at
  line 431 takes any length. Each extractor returns `[err, len]`: whether
  it failed, and how many bytes or APs it produced. The WiFi result also carries `macsOk`, whether
  every MAC was 6 bytes long. The byte contents are abstracted, since no
  decision depends on them.
- **LoRaCloud.** Models the handlers, the store and the resolver.
  - State:
    - `pc[u]` is the handler position: idle, read, saved, done or failed.
    - `buf[u]` is the local buffer.
    - `store[d]` is the KV value under the device's key.
    - `deliveries[u]` counts the calls made so far.
    - `requests` and `events` are history variables.
  - Actions:
    - `HandleUplinkEventDisabled` is the handler with geolocation off.
    - `UpdateGeolocBufferRead` is step 1, with its store-failure disjunct.
    - `UpdateGeolocBufferSave` is step 2: skipped when empty, saved, or failed.
    - `Geolocation` is step 3 and the event to the sink. It takes one resolver
      answer from {Location, NoLocation, Error}.
    - `Expire(d)` is the TTL expiry of a key at any moment.
  - A handler can be delivered again from idle or failed, while
    `deliveries[u] < MaxDeliveries`.
  - `Strategy(u)` is the if-chain of lines 157-243 in code order, extraction
    errors included.
  - `ResolverResult` keeps the four helpers' handling of the answer, including
    the WiFi helper's.
  - When `GeolocationBufferTTL = 0` the store helpers make no round trip:
    `GetGeolocBuffer` returns nothing and `SaveGeolocBuffer` keeps nothing, so
    no store error is possible (`StoreIO`). The test corpus relies on this for
    its single-frame cases.
- **GeolocBufferStore.** The abstract specification of what the buffer
  promises (spec.md 4.2 and 5), with no handlers in it. Its state is:
  - `kv[d]`, the buffer under each key;
  - `held[d]`, every value the key has held so far;
  - `sent`, the uplinks delivered so far;
  - `frame`, the uplinks' rx_info.

  It has three actions:
  - `Deliver(u)` delivers an uplink.
  - `Write(d)` stores an earlier value of d's key, extended by the frame of one
    delivered uplink of d when that frame has at least 3 receptions. It never
    stores an empty buffer. "An earlier value" rather than "the current value"
    is the last-writer-wins of spec.md 5.
  - `Expire(d)` empties a key.
- **LoRaCloudHistory.** LoRaCloud with one auxiliary history variable,
  `held[d]`, the set of values `store[d]` has had. `HNext` is `Next` plus the
  update of `held`, so the history never constrains the handlers. The
  refinement mapping is
  `Store == INSTANCE GeolocBufferStore WITH kv <- store, sent <- {u : deliveries[u] > 0}, frame <- rxInfo`.
  `BufferRefinesStore == Store!Spec` states the refinement.
- **MC_LoRaCloud.** Gives TLC the instances: two devices, three uplinks, and
  frame shapes that cover the interesting cases:
  - 3 timed receptions;
  - 3 receptions of which 2 are timed, which TDOA drops;
  - 4 receptions of which 3 are timed, where the filter changes the frame;
  - 2 receptions, which are not buffered.

  It also gives config sets (TTL 0/60, min size 0/2, TDOA/RSSI on/off,
  disabled) and the object values.
- **LoRaCloudProofs**, **LoRaCloudRefinementProofs**, **GeolocFiltersProofs** and
  **LoRaCloudRequestProofs.** Hold the TLAPS proofs (section 5).
- **MC_LoRaCloudHistory.** The MC instances for `HSpec`; it extends `MC_LoRaCloud` and `LoRaCloudHistory`.

## 4. Runs

All runs use `MC_LoRaCloud`. `CHECK_DEADLOCK FALSE` is set because the system
really stops: once every delivery is used, every handler has returned and
every stored buffer has expired, no action is enabled.

| Run | Bounds | Checks | Result |
|---|---|---|---|
| buffered | 3 uplinks (2 on d1, 1 on d2), 1 delivery, all buffered configs | TypeOK, BufferHoldsOwnDeviceFrames, BufferedRequestWellFormed, UplinkIdRoundTrip, NewestFrameLast | pass (about 535k states) |
| redelivery | 2 uplinks of d1, 2 deliveries | the same, without the two-device property | pass (about 199k states) |
| strategy | 2 uplinks, GNSS/WiFi/TDOA configs, 9 object values | TypeOK, BufferedRequestWellFormed, UplinkIdRoundTrip, NewestFrameLast | pass (about 1.5M states) |
| wifi_error | strategy bounds | EventCarriesResolvedFix | violation: code bug |
| extract_error | strategy bounds | ExtractErrorSkipsStrategy | violation: with GNSS off, an object_json the WiFi extractor cannot parse (line 188) ends the selection and RSSI is never tried, against spec.md 7 |
| duplicate | redelivery bounds | NoDuplicateUplinkIds | violation: redelivery duplicates a frame |
| refinement (MC_LoRaCloudHistory) | 3 uplinks on 2 devices, 2 deliveries each, TTL 0/60, two frame shapes (3 and 2 receptions) | BufferRefinesStore | pass (about 508k states) |
| mac_length | 1 uplink, WiFi only, MACs of 6, 4 and 8 bytes | WifiMacsAreSixBytes | violation: a wrong-length MAC is sent instead of failing (spec.md 4.4) |

Why the bounds are enough:
- Two uplinks of one device are the smallest instance with a lost update and a
  multi-frame buffer.
- The third uplink on another device is what a wrong key would corrupt.
- Two deliveries are enough for a retry to read its own earlier save.
- The frame shapes reach every branch of the filter and of the `>= 3` gate.
- The refinement run combines two devices, three racing uplinks and
  redelivery. It drops the strategy configs, which never touch the store, and
  keeps one frame shape that is buffered and one that is not. That keeps the
  run within bounds.
- Min size 2 makes both sides of the gate reachable with two frames. Min size 0
  exercises the `len == 0` test.

Each property of a passing run is broken by a mutant listed in `PROJECT.json`.
Examples:
- a shared buffer key;
- an ungated or front append;
- a filter that keeps whole frames;
- a flattening of the last frame only;
- a gate without the empty check.

**No fairness, no liveness run.** `Spec` has no fairness conjunct.
Nothing in the code forces the dispatcher to deliver or a key to expire. A
handler's remaining steps are straight-line code, and each ends the call on
success or on error. So "a handler that has read returns" would hold under weak
fairness whatever the code does, and it is not checked.

## 5. What is proved

All theorems hold for every value of the constants that satisfies
`ConstantsAssumption`:
- `DevEui` is a function into `Devices`;
- the frame shapes are Boolean sequences;
- the configs are of `ConfigType`;
- `MaxDeliveries >= 1`.

- `StateTypeCorrect: Spec => []StateTypeOK`. `StateTypeOK` is inductive
  without strengthening. The lemma that matters is `AppendFrameType`: the
  gated append keeps a buffer of frames with at least 3 receptions.
- `OwnDeviceFrames: Spec => []BufferHoldsOwnDeviceFrames`. The inductive
  invariant is `IInv == StateTypeOK /\ BufferHoldsOwnDeviceFrames`. The
  property is not inductive alone, because the store and buffer updates need
  the types of `store`, `buf` and `rxInfo`. The argument has three parts:
  - "delivered frame of device d" is stable, because `rxInfo` never changes
    and delivery counts only grow (`DeliveriesGrow`, `DFMono`);
  - a read builds its buffer from the stored buffer of its own device plus its
    own frame (`AppendFrameElements`);
  - a save writes a handler's buffer only under that handler's device key.

  The proof uses state-explicit forms `DF`, `SOwn` and `BOwn`, so the same
  operator speaks of the state before and after a step.

- `BufferRefinement: HSpec => BufferRefinesStore`, in
  LoRaCloudRefinementProofs. The inductive invariant `HInv` has four parts
  beyond `StateTypeOK`:
  - `held` is a function over the devices;
  - `held[d]` contains the current and the empty buffer of d;
  - a handler that left idle has been delivered;
  - a handler at "read" holds `Extended(old, rxInfo[u])` for some
    `old \in held[DevEui[u]]`.

  The last part is the step the refinement needs: at the save, the stored
  value is an earlier one of the key plus the handler's own frame. Under
  `HInv` the proof goes action by action:
  - a call maps to `Deliver`;
  - a save that changes the store maps to `Write`, with the saving uplink and
    that `old` as witnesses;
  - an expiry maps to `Expire`;
  - everything else is a stutter.

- Lemmas about the filters, in GeolocFiltersProofs. They hold for every input.
  The loops of `filterOnFineTimestamp` and of the uplink ids are recursive
  functions over `0..Len(s)`, not RECURSIVE operators, so the SMT backend stays
  available. Each loop is first shown to satisfy its defining equation: the
  CHOOSE of the function has a witness. Its properties then follow from the
  least-number principle: a set of naturals with a violation has a least
  element (`LeastNat`, from `WFMin`). This avoids the library's induction
  theorems, which take an operator parameter. The lemmas state:
  - what `AppendWhere` keeps, and that appending an element extends the result
    by that element or by nothing (`AppendWhereKept`, `AppendWhereAppend`);
  - the same for `FilterOnFineTimestamp`. Every kept frame is the timed
    receptions of some buffer frame, with at least `minPerFrame` of them
    (`FilterKept`). Filtering `Append(b, f)` is filtering `b`, followed by the
    filtered `f` when that is kept (`FilterAppend`);
  - that `UplinkIDs` is a sequence of ids, non-empty when the last frame is
    (`UplinkIDsType`).
- Four theorems about what geolocation() sends and returns, in
  LoRaCloudRequestProofs:
  - `BufferedRequestsWellFormed: Spec => []BufferedRequestWellFormed`. Every
    TDOA or RSSI request has at least `max(1, GeolocationMinBufferSize)`
    frames. It uses the single-frame endpoint exactly when it has one frame.
    Each frame has at least 3 receptions, all fine-timestamped for TDOA, and
    every reception belongs to an uplink of the requester's device. GNSS and
    WiFi requests are outside its statement. The
    inductive invariant is `RInv == IInv /\ RxIds /\ BufferedRequestWellFormed`.
    `RxIds` states that a reception of uplink u carries u's ids. A new request
    is the record `NewRequest(u, Strategy(u), response)` of a handler at
    "saved" (`RequestsGrow`). Its frames are own-device frames by `IInv` and
    `FilterKept`, and its endpoint follows from `StrategyChoice`.
  - `OwnFrameNewest: Spec => []NewestFrameLast`. The inductive invariant is
    `NInv == StateTypeOK /\ BufferEndsWithOwnFrame /\ NewestFrameLast`.
    `BufferEndsWithOwnFrame` states that a handler past the read of a buffered
    frame holds a buffer whose last frame is its own. This is not a property of
    the store: another handler may have overwritten it in between. The property
    needs it at the request: the RSSI frames end with the own frame, and by
    `FilterAppend` so do the TDOA frames when that frame has 3 timed
    receptions.
  - `UplinkIdsRoundTrip: Spec => []UplinkIdRoundTrip`. The inductive invariant
    is `UInv == RInv /\ UplinkIdRoundTrip`. The step that matters is
    `SentUplinkIdsIsUplinkIDs`: the reference loop `SentUplinkIds` of the
    property equals the model's `UplinkIDs`, the `FlattenSeq` of the frames'
    ids, on every buffer of receptions. Both are unfolded to the same
    prefix function (`FlattenPrefixDef`, `UpToLoopUnique`).
  - `TypeCorrect: Spec => []TypeOK`, the type invariant that the runs check,
    including the histories. The inductive invariant is
    `TInv == StateTypeOK /\ HandlerDelivered /\ HistoryTypeOK`.
    `HandlerDelivered` states that a handler that left idle has been delivered,
    so the delivery a request records lies in `1..MaxDeliveries`. The types of
    the frames and ids come from `FilterType` and `UplinkIDsType`.

Model-checked only:
- The properties of the violation runs. They are false, and TLC shows the
  counterexamples.

## 6. Not modelled

- Metrics and logging.
- Request and response JSON, HTTP and the bearer token.
- The bytes of MACs and GNSS payloads. Only lengths, error/absent and
  whether MACs are 6 bytes long matter for control.
- A sink failure in `HandleLocationEvent` (line 84). It is only logged, and
  spec.md makes the event best-effort, so no state of the integration
  depends on it.
- A bound on the buffer's length. Neither the code nor the spec has one. In
  the model the buffer is bounded only by the number of calls.
- The `GeolocationGNSSUseRxTime` flag, which only shapes the request body.
- The Konker UI.

## 7. Plan for later work

1. (Done: GeolocBufferStore, its refinement and its proof. Done: the WiFi
   extractor now carries MAC lengths, and the mac_length run covers
   line 431.)
2. Check `FilterOnFineTimestamp`, `UplinkIDs` and the extractors against
   reference definitions over bounded inputs.
3. More theorems: an action property that a save only writes its own key.
