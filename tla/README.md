# A TLA+ verification project for moqlivemock

moqlivemock is a publisher (`mlmpub`) that loops a media asset as a live stream
over MoQ Transport, and a subscriber (`mlmsub`) that reads the catalog,
subscribes to tracks and writes or plays what it gets. This directory holds
TLA+ models of the parts of it that have state, concurrency or arithmetic worth
arguing about, the TLC configurations that check them, and TLAPS proofs.

Contents: [inventory](#inventory), [modules](#modules-and-the-code),
[runs](#runs), [disagreements](#where-code-and-text-disagree),
[proofs](#proofs), [plan](#plan), [what is not modelled](#not-modelled).

    tlc -workers 4 -config MCPlayback.cfg MCPlayback     # a run
    tlapm PlaybackProofs.tla                             # the proofs of a module

`PROJECT.json` lists the components, runs, mutants, the source lines that each
definition stands for, hazards, findings and theorems. Paths below are relative
to `src/`.

## Inventory

| Part | State | Operations | Hard behaviour | What makes it correct |
|---|---|---|---|---|
| Player, `internal/sub/playback.go` | pending units by (group, object); decoder state per layer, active layer; last presentation; stall; timer; wake channel of capacity one | `addObject` (one reader goroutine per layer), `run`, `schedule`, `advance`, `tryStart`, `nextUnit`, `trimPending`, `present`, `enterStall`, `snapshot` | readers notify outside the mutex; the deadline is read under the mutex and armed outside it; layers of one unit come from different streams; streams are reset | nothing is decoded on missing references; upswitch only at independent units; nothing is early; no lost wake-up; playback goes forward and gets going again |
| Groups and pacing, `internal/moqgroup.go` | none | `calcMoQGroup`, `GenMoQGroup`, `CurrMoQGroupNr`, `WriteMoQGroup` | three roundings (ms to time scale, time scale to sample, float to ms) | groups tile the samples; no object before its media time |
| Track publishers, `internal/pub/pub.go`, `moqmi.go` | group number, object number, open subgroup, `seqID` | `PublishTrack`, `PublishLOCTrack`, `PublishSubtitleTrack`, `publishMoqMIVideo`, `publishMoqMIAudio` | one goroutine per subscription, a context that ends at any point, calls that fail, a goroutine that lags | contiguous samples and sequence numbers; catches up; stops |
| Looped asset, `internal/asset.go`, `media.go` | immutable after loading | `LoadAssetWithProtection`, `InitContentTrack`, `setLoopDuration`, `validateAV1SVCGOP`, track groups, catalogs, lookups by name, `CalcSample` | 32-bit products; loops that are no multiple of a frame; rules that catalog, lookup and publisher each write down once more | what is listed is found; every output sample has a source sample; tracks loop together; key frames and layer chains can be decoded |
| Publisher session, `internal/pub/pub.go` | one goroutine per accepted subscription | `Handle` (announcements), SUBSCRIBE and FETCH handlers, `PublishCatalog` | any client may ask anything in any order and turn an announcement down | its answers suffice for every way a client retrieves the catalog |
| Subscriber session, `internal/sub/sub.go` | `catalog`, the set of media channels | `handle`, `joiningCatalog`, `subscribeToCatalog`, `fetchCatalog`, `dependencyOrder`, `subscribeAndRead` | the catalog arrives twice (FETCH and subscription); a background reader replaces it; one reader goroutine per track | catalog applied once; dependencies first; a client gets to its media and writes all of it |
| CMAF mux, `internal/sub/mux.go` | combined init, mutex | `AddInit`, `MuxSample` | init and fragments written in two critical sections; the init counts as there although its write failed | init before fragments unless its own write failed |
| Decryption, `internal/sub/cenc.go` | key, decrypt info per track | `decryptInit`, `decryptPayload` | license requests that fail for some tracks | init and fragments of a track agree |
| LOC and moq-mi readers, `internal/sub/loc.go`, `moqmi.go` | per-track decoder configuration, last sequence number | object to elementary stream, sequence gap | configuration arrives with the key frames; unsigned differences | round trip of the frame marking; a gap is a loss |
| Subtitles, `internal/subtitle.go` | none | cue intervals and samples per group | cues that straddle a group | samples tile the group |
| Catalog, captions, codec parsing | none | conversions | three conditions for captions and groups without a schedule | captions are advertised iff injected (not so: see [disagreements](#where-code-and-text-disagree)) |
| Receive timestamps, the fork's change in `deps/quic-go` (`internal/wire/ack_receive_timestamps.go`, `internal/ackhandler/received_packet_tracker.go`) | packet history, ring of arrival times, queued ACK, ACK alarm | `enableReceiveTimestamps`, `ReceivedPacket`, `IgnoreBelow`, `GetAckFrame`, `PrepareReceiveTimestamps`, `Truncate` | reordered and repeated packets, a ring that overflows between ACKs, an ACK that does not fit | no delta wraps; a reported time is the arrival of an acknowledged packet; the ACK itself is never lost |
| Commands, `cmd/*` | none | flags, TLS, wiring | the server's context outlives sessions | |

Interactions: `handle` starts one `subscribeAndRead` goroutine per track; for an
SVC chain each of them hands its objects to the player, whose `run` goroutine
lives beside them. On the other side every accepted SUBSCRIBE starts a publishing
goroutine, which shares nothing but the immutable asset and the wall clock with
the others. Publisher and subscriber meet in SUBSCRIBE, FETCH and subgroup
streams.

## Modules and the code

Every operator whose comment begins with "Mutant", or that `PROJECT.json` lists
as the `as` of a mutant, is a defective variant of the definition that follows it.
No specification uses these operators; they show that each property fails when the
code is wrong in the way they describe.

### Playback

The player, with the readers as an open environment: any object, in any order,
repeated, with contents that disagree. What the mutex makes atomic is one action:
`AddObject`/`DropObject` (`addObject`), `TimerFires` and `WakeUp` (a case of the
select, with the whole of `advance`), `Schedule` (the part of `schedule` under the
mutex). What lies outside it is a step of its own: `NotifyPlayback`, `Arm`. Unit
keys are pairs (group, object). A layer object is a timestamp, an independence
mark and a size, which is what the comparison of a repeated object looks at.
`advance` presents at most one unit per call, since the deadline of the next
unit lies after the present one; its loop is therefore one step (`NothingDue`,
`DueUnit`). The timer delivers a value between its deadline and the clock, so a
goroutine that lags works with an old `now`.

### PlaybackStreams

Playback composed with the transport as the subscriber uses it (external): every
group of every layer is a stream, in order and without repetition, that may be
delayed up to `MaxDelay` and may be reset. `Prompt` says whether goroutines are
served within the clock unit in which they are ready. `GroupAssumption` is what
`PublishLOCTrack` (`pub.go:448`) and `validateAV1SVCGOP` (`asset.go:389`) make of an
SVC chain: a group starts with its one independent unit, objects are numbered without
gaps and timestamps follow the numbers.

### MoQGroup, TrackPublisher

`MoQGroup` is the arithmetic of `moqgroup.go` and `CalcSample`. `TrackPublisher`
is the publishing goroutine. The five publishing functions are one loop that
differs in how a group is cut, when an object may go out, whether the wait comes
before or after the subgroup is opened, and which exits close the subgroup. One
action per blocking point: `Begin`, `LoopHead`, `OpenSubgroup`, `Pace`, `Select`,
`WriteObject`, `CloseSubgroup`; `Cancel` and `Tick` belong to the environment.
Every call into the transport may fail. The milliseconds of the clock are scaled
(`MsPerSecond` = 4 in the runs), so that sample boundaries fall between clock
units as they do at 1000. The float64 product in `WriteMoQGroup` is a choice
between the exact truncation and one less where the product is a whole number.

### LiveTrack, PublishedTrack

`LiveTrack` is the abstract specification of what a subscriber is promised,
whatever the packaging: it joins near the live edge and never gets media from
before that, then gets every sample once and in order, none before the clock has
reached it, until the track ends. It knows no groups, objects, subgroups or timers.
`PublishedTrack` states the refinement: the publishing loop implements it
(`ImplementsLiveTrack`) with the first sample of the first group for the place of
joining and the object written last for the object got last. The module also holds
the cues of subtitle groups: `CalcCueItvls` and the samples of a WVTT fragment.

### Asset, PublishedAsset

`Asset` is mlmpub before the first session: `LoadAssetWithProtection` file by file
(durations, edit list, GOP length, parameter sets, AV1 units and layers), the two
passes of protected copies, the sort, which is not stable and therefore a choice,
the loop duration in 32-bit arithmetic (`Word`), subtitle tracks, captions, and the
CMSF, LOC and moq-mi entries in the order of `run`. One action per step of that
sequence, with the early returns and the panics. A file is a list of samples with a
decode time, a duration, a sync flag and the kinds of its units; a name is a base and its
suffixes; a codec string is its place in the alphabetical order. Bit rates are numbers of
the file, but the chunks that `calcCmafBitrate` and `calcLocmafBitrate` generate to measure
them are modelled as far as they can panic (`Measurable`: batches below one are clamped, two
batches are read, `CalcSample` divides by the loop).
`PublishedAsset` adds the lookups and gates of the other side (`GetTrackByName`,
`GetLOCTrackByName`, `TrimSuffix` of `PublishTrack`, the captioners, the frame
marking and the player's check of it) and the properties that compare both. For which
frame rates and group lengths go-608 can build a schedule is a constant (`Captionable`,
external).

### CatalogExchange

A subscriber from the start of its session to its media subscriptions, in the
three catalog modes, against the SUBSCRIBE and FETCH handlers, the announcements of
`Handle` and `PublishCatalog`, with other clients that ask for anything. The client
takes announcements of its own namespace, of any, or only discovers. A catalog is a
function from track names to packaging. Calls that fail are choices recorded in `fault`.

### DependencyOrder

`dependencyOrder`, the depth-first walk with its two marks, against the smallest set
closed under dependencies. The recursion of `visit` is a stack of calls, each with its
track and the dependency it is at; a call returns at once (`VisitDone`), fails
(`VisitFails`: every caller returns the error), marks its track and looks at its first
dependency (`VisitBegins`), or is through with them (`VisitEnds`). `calls` is a history
variable.

### SubscriberPipeline

The other half of the subscriber: `handle` walks the catalog (`ConsiderTrack`,
`Prepare`: init segments, decryption, mux), subscribes, and one reader per track
takes objects through `ReadObject`, `MuxSample`, `EncodeFragment` and `WriteOut`. The
steps are cut where the code releases the mutex of the mux or calls out, so that two
readers interleave there. An object carries its place, whether it is encrypted and
whether a LOCMAF delta met its reference; outputs are the sequences of what was
written. Every write of an init segment may fail; `handle` only logs it, and the mux
counts its combined init as there from before it is written (`mux.go:69`), so such an
output, recorded in `lost`, gets its fragments without an init. `overtaking` says whether streams of later groups may come first. The
moq-mi client has no catalog and no outputs and reports sequence gaps.

### ReceiveTimestamps

The fork's change to quic-go with the upstream code it depends on. The history of
received packets is the set of numbers in its ranges, of which the lowest are
dropped beyond `MaxNumAckRanges`. The frames of a packet are handled before the
packet is recorded, in one run of the connection's loop, so `Receive` is one action:
a confirmed ACK deletes history (`IgnoreBelow`), then the packet enters history and
ring and an ACK is queued or its alarm set. `GetAckFrame` sorts and filters the ring
and truncates the frame; byte budgets are a choice of how much fits. `Encoded` is
the wire form in unsigned arithmetic (`Word`), `Decoded` the reader at the other end
(external).

### Proof modules

`PlaybackProofs`, `PublisherProofs`, `CatalogProofs`, `DependencyProofs`,
`PipelineProofs`, `AssetProofs` and `TimestampsProofs` extend the modules they are
about; `LoopLemmas` holds the lemmas about division, bounded sets of numbers and
flattened sequences that several of them need. See [proofs](#proofs).

### MC modules

`MCPlayback`, `MCStreams`, `MCPublisher`, `MCCatalog`, `MCAsset` and `MCPipeline`
define the constants of the runs. `DependencyOrder` and `ReceiveTimestamps` need none.

## Runs

| Run | Shows |
|---|---|
| `playback` | In the open environment: `ActiveChainValid` (the validity flags and the active layer are the same thing), `ReportedStateAgrees`, `NeverAheadOfTarget`, `UpswitchOnlyAtIndependent`, `FixedRate`, `StallsWithinGaps` (stall time is counted only where nothing was presented); with fair goroutines `DueIsServed`: what is due is served, no wake-up is lost |
| `playback_streams` | With late, overtaking and reset streams: `ReferenceChain`, `NoRewind`; `StartsAtTargetLatency` when the latency fits the pending limit; `ReachesLastGroup`: no combination of late layers, a reset stream and stalls stops playback for good |
| `publisher` | For all five loops, `ImplementsLiveTrack`: they implement the abstract live track, and its two sides that are also proved, `NotBeforeMediaTime` and `SamplesContiguous`; `PlaysTheLoop`; `SeqIDNumbersSamples` (the sequence number counted beside the samples never parts from them); `CuesTileTheGroup`; with a fair goroutine `CatchesUp` and `StopsWhenCancelled` |
| `catalog` | `AppliedOnce`; `EndsOnlyOnFault`: no client gives up or meets a nil catalog unless a call failed (or it joins a publisher with a delay); `EverythingAnnounced` to a client that takes announcements; `EventuallyPlaying`, also for one that turns them down |
| `dependency_order` | `OrdersDependencies`: it fails exactly on missing and cyclic dependencies, else returns them in order, and in both cases within a bounded number of calls |
| `asset` | From a directory and a command line to namespaces: `ListedTracksServed`, `EachRenditionOnce`, `LoopsTogether`, `ConformingAssetServed` (a directory of regular files is not turned down and nothing panics, the measurement of the bit rates included), `KeyframesSelfContained`, `SvcChainsPlayable` |
| `pipeline` | From a catalog to files: `InitFirst` (of every output whose own init could be written), `ProtectionConsistent`, `DecodedOnReference`, `StopsOnlyOnOwnFailure`; with fair goroutines `EverythingWritten` |
| `receive_timestamps` | `ReportsAreArrivals` (what the peer decodes is true, so nothing wraps around), `OmittedOnlyIfOvertaken` (and complete, as far as the ring and the format allow); `EventuallyAcked`: each packet of the history gets into a frame, unless the limit on the ranges, a confirmed ACK or a lack of room drops it at the low end |

The runs that expect a violation are described in the next section.

### Bounds

- Playback: two layers (a chain with something to switch to), two groups of an
  independent and a delta unit, one of which has two conflicting contents, five
  objects, clock 0..5, and a pending limit of two, which is reached. Start,
  downswitch, upswitch, stall, restart, conflict and trimming all occur.
- Streams: three groups of two units; a delay of two clock units, which is one group,
  lets layers and groups overtake each other; one stream may be reset. The pending limit
  of four is the number of units that can be there before the first is due. Goroutines are
  prompt here, which `StartsAtTargetLatency` needs; a goroutine that lags is part of the
  run `playback`, and for `ReferenceChain` and `NoRewind` the theorems do not ask for
  promptness.
- Publisher: clock 0..16 with four units per second, so four groups; the tracks
  have frames that divide neither the group nor the loop, batches that do not divide
  a group, a sample as long as a group, and GOPs of one second and of another length.
- Catalog: two namespaces with a catalog, one of moq-mi, two others; at most two
  tracks are selected (a video track and its dependency, or two roles).
- Asset: every pattern of durations and sync flags of up to four samples; decode times that
  start late; batches of minus one, zero and more; a loop shorter than a tick; every pair
  of nine kinds of AV1 units; and some twenty directories, each with four
  combinations of protections, captions and subtitles, chosen so that every check of
  the loader fails somewhere and both products of the loop duration pass `Word` = 64.
- Pipeline: thirteen clients of the catalogs that mlmpub generates, two groups of two
  objects per track, one failing call.
- Receive timestamps: three packet numbers and four arrivals, so that a packet whose
  range was dropped (`MaxNumAckRanges` = 1) comes again and stands in the ring of four
  twice; with a ring of two, times are overwritten. The clock has three values at
  which packets arrive, and a packet may be handled one unit late.
- Dependency order: three listed tracks and a missing one, and for each listed track
  every list of dependencies up to the bound `MaxDeps`, with repetitions and orders.

Runs allow the system to stop (`CHECK_DEADLOCK FALSE`): clocks and arrivals are
bounded, publishers and players are cancelled, the asset is loaded once, and the
pipeline's streams are finite. `dependency_order` checks for deadlock: the walk may stop
only where `dependencyOrder` returned (`Returned`).

### Fairness

- `Playback!RunFairness`: a `run` goroutine that can take a step other than
  `ctx.Done` takes one infinitely often, or is infinitely often not ready; a reader
  that left `addObject` reaches its notification. This is Go's scheduler. Nothing is
  assumed of the clock or of arrivals.
- `PlaybackStreams!StreamFairness` adds that time passes and live streams deliver.
- `TrackPublisher!FairSpec`: the publishing goroutine runs when it can. Nothing is
  assumed of the clock or the context.
- `SubscriberPipeline!FairSpec`: every goroutine that can take a step without a failing
  call does.
- `ReceiveTimestamps!FairSpec`: time passes, and the connection's loop, which arms its
  timer with the ACK alarm, sends an ACK that is due.
- `CatalogExchange!FairSpec`: the subscriber, `Handle` and `PublishCatalog` run when they can
  take a step that does not fail. A failure is never assumed to come to the rescue
  of a reader that waits for an object that nobody sends.

## Where code and text disagree

Each of these is a run that violates a property taken from a comment, a document or
a test; `PROJECT.json` quotes it.

- `playback_latency_beyond_limit`: with a target latency longer than 64 units
  `trimPending` deletes every start candidate before it is due.
- `catalog_delay_joining`: a default client gives up at a publisher with a catalog
  delay.
- `pipeline_subtitles_mux`: a client with a combined output that also selects subtitles
  divides by the missing time scale of the subtitles and dies.
- `asset_captions`: a video whose frame rate go-608 cannot carry captions at (5 fps in the
  code's own test) is listed with captions that no group has, although the comment at the
  catalog's gate says that captions are advertised iff they are injected.

Observations that no run is about:

- `tryStart` measures the buffer at the full prefix of the independent unit. If that
  unit has one more layer than the units behind it, it is skipped although the lower
  chain is buffered and due.
- A stream that is delayed by more than a group can break `NoRewind` and
  `ReferenceChain` after a stall, because `tryStart` does not compare the candidate
  with the last presentation. The condition that rules it out is `NotAGroupLate` of
  PlaybackStreams: the runs meet it, and the proofs of both properties assume it.
- `trimPending` also deletes references: a unit that is dropped at the limit of 64 while
  playback goes on leaves its successor to be played without it. `RoomForNext` is the
  condition under which that does not happen.
- `fetchCatalog` and `subscribeToCatalog` report success at the end of a track without
  an object, and `handle` then uses a nil catalog (`pc = "panic"` in CatalogExchange).
- A start candidate that appears in a stall and is lost again overwrites the stalled
  state (`playback.go:322`), so that one interruption counts twice and its start moves.
  The time is never counted twice (`StallsWithinGaps`), but the part before the new start
  is lost.
- `publishMoqMIVideo` truncates the GOP duration to milliseconds (`moqmi.go:69`); a GOP
  of 500.5 ms puts the first group some twenty days ahead. Groups start at multiples of
  the GOP length (`moqmi.go:93`); when the loop is no whole number of GOPs, later turns
  start in the middle of a GOP. The tracks of the run are free of both.
- Subtitle tracks are looked up before the namespace's catalog is, and so are served in
  the LOC namespace too, although `README.md:77` says that only CMSF carries them: the LOC catalog does not list them, but a
  client that asks gets them (`SubscribeReply`).
- `README.md:148` says that the server announces all namespaces; `Handle` returns at the
  first rejection, and a default client turns down every namespace but its own.
- `handle` gives up on a catalog in which any track, selected or not, has another LOCMAF
  version (`sub.go:207`), and `RunWithConn` then waits for the end of the context.
- `decryptInit` indexes the catalog's list of protections with a position in the track's
  list of references (`cenc.go:77`), which agree only while every track refers to all.
- A file without samples makes the loader panic (`asset.go:302`), and so does a batch of
  more than half the samples of a track in `calcLocmafBitrate` (`asset.go:1078`) and a loop
  of less than one tick of a track in `CalcSample` (`asset.go:1292`);
  `Duration * 1000` overflows 32 bits (`asset.go:609`); the durations of video tracks are
  compared in ticks although their time scales may differ; names that end in a suffix
  of their own collide with generated names. `Conforming` in PublishedAsset is what an
  asset has to satisfy.
- The arithmetic of `calcCueItvls` is right for cues of up to a second, which is all that
  mlmpub makes.
- `PublishTrack`, `PublishSubtitleTrack` and `publishMoqMIVideo` leave the subgroup open
  when they return early; publishing goroutines run with the server's context.

## Proofs

Proved with TLAPS for every value of the constants that meets the `ASSUME`s, in eight
modules. A theorem that states a property of a run is listed with it in
`PROJECT.json`. Every inductive invariant is defined beside the specification it
belongs to, or in the module of its proofs, and was checked with TLC on the runs first.

- **Player** (`PlaybackProofs`). `Invariance`: `Spec => []IInv` with
  `IInv == TypeOK /\ PlayInv /\ TimesInOrder`. `PlayInv` is the state of the player
  between calls of `advance`: the layers up to `active` are exactly the valid ones, the
  reported state agrees with it, what has been presented was not early, and a stall began
  no earlier than the last presentation. None of these is inductive alone:
  `ActiveChainValid` needs `active` and the choice of `ActiveAfter`; a presentation keeps
  `NeverAheadOfTarget` because the deadline of the next unit is measured from the last one;
  and `TimesInOrder` is needed because `advance` runs with the value of the timer, which is
  older than the clock but not older than what was done with earlier values. The lemmas characterise the operators that
  choose (`LowestLayer`, `Earliest`, `CompletePrefix`, `StartUnit`, `NextUnit`,
  `ActiveAfter`) and then treat `advance` case by case. From it follow `TypeCorrect`,
  `DecoderStateConsistent`, `ReportConsistent`, `LatencyFloor`, and the action properties
  `PlaysAtFixedRate`, `NoDeltaUpswitch` and `StallTimeInGaps`. `WakeupsNotLost` is the
  safety half of `DueIsServed`: whatever is due, the run goroutine is ready or a reader
  is about to notify it. Its invariant `Armed` says that between `schedule` and the next
  object the timer stands for the current deadline; the step that needs an argument is
  `Schedule` itself, which deletes units after it read the deadline (`CleanupKeepsNext`).
  Assumptions: a non-empty chain, keys that are pairs of naturals, the latency above the
  minimal buffer as `newNativePlayback` requires.
- **Player and streams** (`PlaybackProofs`). `StreamsRefinePlayback`: `StreamSpec => Spec`,
  so all of the above holds for in-order streams too. `StreamInv` relates the two sides:
  a buffered layer is the object that its stream delivered (`AsSent`), streams are in
  order and on time, and once `schedule` has cleaned up there is no independent unit
  before the last presentation (`NoOldStart`). The last part is inductive because an
  object that arrives after a presentation is not the base layer of an earlier
  independent unit: in its own stream it would have come first (`InStreamOrder`), and from
  another group it would be later than `MaxDelay` (`OnTime`, `NeverAheadOfTarget`).
  `NeverRewinds` follows. `KeptUntilPassed` then shows that what arrived stays until it is
  passed; a delta whose predecessor was neither pending nor presented last is
  thereby impossible (`DeltasOnReference`), and the first unit with its buffer is a start
  candidate whose deadline somebody is awake for (`StartsOnTime`). The hypotheses of these
  theorems are conditions that the code does not enforce, and without which the properties
  fail: `NotAGroupLate` about the network, `[]RoomForNext` (the limit of `trimPending` is
  not reached, the subject of the run `playback_latency_beyond_limit`) and, for
  `StartsOnTime`, `BufferEndsOnUnit` (the minimal buffer ends on a unit).
- **Publishers** (`PublisherProofs`). `Invariance`: `Spec => []IInv`, where `IInv` adds to
  the properties `Position` (there is an object to write wherever the loop is not about to
  close, and it continues the last one) and `Paced` (the timer stands for the object about
  to be written). The arithmetic is in `GroupsTile` (the end of a group is the start of the
  next), `GroupNotEmpty`, `ObjectsTile` and `ObjectTimeSpec` (a time truncated to
  milliseconds, through float64 too, is less than a unit before the media time), which
  rest on lemmas about division. From it follow `TypeCorrect`, `PacedByMediaTime`,
  `SeqIDConsistent` and the action property `NoSampleLostOrRepeated`.
  Assumptions: a sample is no longer than a group, and the samples fill the loop.
- **The abstract track** (`PublisherProofs`). `PublishersImplementLiveTrack`:
  `Spec => ImplementsLiveTrack`, step by step under the refinement mapping. A step of the
  loop is `Join`, `Release`, `Leave` or `Clock` of LiveTrack or a stutter; `Release` follows
  from `Position` and `Paced`, `Join` from the live edge: the group that `Begin` chooses
  starts at the clock or later and not further ahead than `Lead` (`AtJoined` carries it to
  the first object). `LoopPlayedAsRecorded` is the lemma about `OrigNr`: consecutive output samples
  come from consecutive source samples or from the turn of the loop. Assumption: the GOP
  of a moq-mi video track is a whole number of milliseconds (`GopAssumption`); see the
  observation about `moqmi.go:69`.
- **Subtitle cues** (`PublisherProofs`). `CuesFillTheGroup`: the samples of a WVTT group
  fill it and each cue is shown in its second. The loop over the cues is a recursive
  function of their number, so the proof is an induction over it (`LoopInduction`): after
  n cues the samples reach from the start of the group to the end of the n-th cue, without
  gap. Assumption (`CueAssumption`): cues of at most a second, as mlmpub makes them, and
  groups of whole seconds (`MoqGroupDurMS` is 1000). With other groups it is false: a cue
  that is cut at the start of a group may end before it begins.
- **Catalog** (`CatalogProofs`). `Invariance` with `IInv` of CatalogExchange: `RetrievedOnce`
  ties the place of the client, its background reader, the publisher's catalog task and the
  object on the subscription to whether the catalog has been applied; `AskedAsListed` says
  that what the client goes through is the catalog of its namespace. From it follow
  `CatalogAppliedOnce` and `OnlyJoiningDelayedFails`: the property that the run
  `catalog_delay_joining` violates holds for every client but the joining one of a
  publisher with a catalog delay, and the panic of a nil catalog takes a failed call.
  Assumptions: the namespaces, catalogs and handlers have the types that
  `ConfigAssumption` gives.
- **Pipeline** (`PipelineProofs`). `PipelineInvariance` with `IInv` of SubscriberPipeline.
  The properties speak of outputs, but what keeps them is what each goroutine holds between
  its steps: `SetUp` (the state of `handle` in the middle of the catalog), `Outputs` (an
  output holds the init of the selected track, unless its write failed, then its fragments;
  the combined one nothing before the combined init), `InHand` and `Holding` (the piece a reader carries
  from one critical section to the next), `Remembered` and `Decoding` (the state of the
  LOCMAF decoder and of the sequence numbers). The proof splits the invariant into the
  parts of `handle`, the outputs and the readers (`Parts`), with frame lemmas for what a
  step leaves alone. From it follow `DecodesOnReference`, `ReadersStopOnOwnFailure`,
  `OutputsStartWithInit` and `ProtectionAgrees`. Assumptions (`IsConfig`): names in a
  catalog are unique, and a dependency chain consists of listed tracks of one role and
  packaging.
- **Dependency order** (`DependencyProofs`). `Invariance`: `Spec => []IInv`, where `IInv`
  describes a walk under way: the active calls are for different tracks, each for the
  dependency its caller is at (`Active`), so the stack is a path (`Path`) and a track met
  again on it depends on itself; what a call has passed is done (`Passed`); what is done
  is listed once, behind its dependencies (`Sorted`), and needed (`Reached`). At the end
  the tracks that are done are closed under dependencies, so they are all that is needed;
  and the prefix before any of them is closed as well, so none depends on itself
  (`InvariantOrders`). For the number of calls, `Looked` is the set of places in the
  catalog's lists that were looked at: every call but the first adds one (`Counted`).
  `WalkOrders` is `Spec => []OrdersDependencies` for every finite set of listed tracks
  and any lists.
- **Asset** (`AssetProofs`). `Invariance`: `Spec => []IInv` for every directory and command
  line. `IInv` follows the loader: while files are parsed and copied, each list holds
  exactly the renditions of the files so far under the protections so far, each once
  (`ListOf`); the sort permutes it, so the groups hold the renditions of all files
  (`Grouped`), which then get the loop (`Looped`), subtitles (`Subtitled`), captions
  (`Captioned`) and namespaces (`Published`: one CMSF namespace for every protection that
  is on and done). A rendition is described by its file (`Rendition`), so nothing of the
  history of the lists is needed later. Every filter is `Picked` and every catalog a
  `FlattenSeq`; `PickedPlaces` and `FlattenPlaces` say that each element of the result
  has one place it comes from and the other way round, which turns statements about
  sequences into statements about files. From the invariant follow all properties of the
  run `asset`:
  `RenditionsOnce` (entries and renditions correspond one to one);
  `ListedServed` (names of renditions, packagings and layers are all different, so each
  lookup finds what was listed);
  `ConformingServed`: `Conforming` speaks of files (constant durations, times from zero, sync
  samples every GOP, one frame of every layer) and not of what the loader computes, so the
  proof first shows what the loader makes of such files: the trimmed samples are still
  periodic, every distance between sync samples is the GOP (`PeriodicGops`), the layers
  found are the layers there (`RegularLayers`), so nothing is refused (`RegularLoads`); then
  that the loop, which captions do not change (`SameLoop`), lies within each track
  (`LoopInTrack`), so that neither measurement fails (`AllMeasurable`);
  `KeyframesComplete`;
  `TracksLoopTogether` (the loop in local ticks is the loop in milliseconds, truncated;
  output sample `nr` lies in turn `w` iff it is within `w` loops, whatever the remainders);
  `SvcPlayable` (`validateAV1SVCGOP` makes a GOP a group, so a group number that is mapped
  into the loop is a multiple of the GOP length; the frame marking is decoded bit by bit).
  Assumptions (`AssetAssumption`, `IsConfig`): types of what is read from files, unique
  file names, spatial layers of two bits.
- **Receive timestamps** (`TimestampsProofs`). `Invariance` with
  `IInv == TypeOK /\ RingHoldsLatest /\ FrameOK /\ OmittedOnlyIfOvertaken`.
  `RingHoldsLatest` is what makes the rest inductive: the cell d places behind the cursor
  holds the arrival d places before the last one, through every overflow of the ring.
  `FrameOK` says that the times of a frame decrease with the packet numbers
  (`Encodable`), from which the peer's decoding, an induction along the frame, gives back
  the frame without wrapping: `ReportsAreTrue`. `NothingElseOmitted` is an induction over
  the sorted timestamps: what the filter skipped is either the packet kept last or was
  overtaken by one that was kept. Assumption (`TimestampAssumption`): the clock and the packet
  numbers stay below an eighth of the word, 2^64 in the code.

What the attempts at proof changed: the reply to a SUBSCRIBE was a `CASE` with
overlapping guards, in which TLC takes the first and the logic any; it is now an
`IF`/`ELSE` chain in the order of the handler. `StopsOnlyOnOwnFailure` did not allow for
readers that stop because the client died. A chain of dependencies was any set of names.
`CueAssumption` did not say that groups are whole seconds. The walk of
`DependencyOrder` was a recursive operator, which the prover cannot reason about; as a
machine it has the intermediate states that its invariant is about.

Only model-checked: liveness (`DueIsServed`, `ReachesLastGroup`, `CatchesUp`,
`StopsWhenCancelled`, `EventuallyPlaying`, `EverythingAnnounced`, `EverythingWritten`,
`EventuallyAcked`), which is out of the prover's reach.

All other invariants and safety properties of the runs are theorems.

## Plan

Done: Playback and PlaybackStreams; MoQGroup, TrackPublisher, LiveTrack and
PublishedTrack; CatalogExchange; SubscriberPipeline; Asset and PublishedAsset;
DependencyOrder; ReceiveTimestamps, all with their proofs.

To model, should the code grow there: the player's metrics (`snapshot`, `bufferAhead`,
`playheadTimestamp`, the byte windows); a publisher that updates its catalog, and the
background reader racing `handle`; an abstract player that Playback implements.

## Not modelled

- quic-go (apart from the fork's own change) and moqtransport: third-party transport,
  modelled from how the code uses it. Of the fork's change, ECN counters and the parsing
  of transport parameters are left out.
- Byte layout: boxes, Annex B and ADTS writers, CTA-608 bytes, JSON and the text of the
  catalog and of cues, the bits of AV1, AVC and HEVC units.
- Cryptography, PSSH data and the license server.
- Commands: flags, TLS, HTTP side servers, and `mlmtest`, a scripted interop client
  without state of its own. The content generator under `utils/` calls ffmpeg.
- Logging and metrics files.
