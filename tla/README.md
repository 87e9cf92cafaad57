# TLA+ verification of the flagd Redis sync service

This directory models the standalone Redis sync service of this repository:
the Redis provider `redis.Sync` (`src/core/pkg/sync/redis/redis_sync.go`) and
the service that drives it, `redissync.Service`
(`src/flagd/pkg/service/redis-sync/service.go`). The modules are checked with
TLC on small instances. TLAPS proves three things for every value of the
constants: type correctness; the delivery order with a single cron goroutine;
and, under the same hypothesis, that the service implements an abstract feed
specification.

## 1. The system

| Part | Code | State | Operations |
|---|---|---|---|
| Poller (`redis.Sync`) | redis_sync.go 22-34, 132-197, 200-279 | `LastSHA` (base64 SHA3-256 of the last converted document), `ready`, the cron scheduler, one goroutine per cron firing | `Sync` (AddFunc, initial fetch, send, `ready = true`, `Cron.Start`, wait for ctx, `Cron.Stop`), the cron job (read `previousSHA`, fetch, compare, send), `ReSync`, `fetchData` (JSON.GET, then GET as a fallback, ConvertToJSON, write `LastSHA`), `IsReady` |
| Source connector | redis_sync.go 52-129, 282-312 | the Redis client, key, database, TLS | `NewRedisSync` (URI parsing), `NewRedisSyncFromConfig`, `Init` (PING), `SetInterval`, `Close` |
| Cron cadence | redis_sync.go 136 (robfig/cron v1) | the schedule `*/N * * * *` | when the cron job runs |
| Orchestrator (`redissync.Service`) | service.go 42-230 | the event channel (capacity 1), the flag store behind the evaluator, `mu` | `NewService`, `Start` (PING, errgroup of three goroutines, `g.Wait`), `processSyncData`, `updateStoreFromSyncData` (SetState, then a detached `ReSync`), `GetFlagConfiguration`, `IsReady`, `Shutdown` |
| CLI command | service.go 232-362 | flags | builds the config and the service, and cancels the context on SIGINT/SIGTERM |

How they interact: `Start` pings Redis. It then runs `Sync`, the gRPC sync
service and `processSyncData` on one errgroup, which has one shared context.
`Sync` and every cron firing (each on a goroutine of its own, because robfig
cron v1 does not wait for the previous run) send `DataSync` events into the
channel. `processSyncData` takes them off and applies them to the store. When
`SetState` reports `resyncRequired`, the service starts `ReSync` on a new
goroutine with a 30 s timeout. That `ReSync` sends into a fresh channel that
nobody reads. The first errgroup goroutine to fail cancels the context, and so
does a signal.

What makes it hard: the cron goroutines and `ReSync` read and write the
unsynchronised `rs.LastSHA` concurrently, and the cron job reads it twice
(line 138, before the fetch; line 153, after it). Sends block on a full
channel of capacity 1. No send selects on the context. Redis replies can be
errors, `redis.Nil`, or documents that fail conversion.

## 2. Modules

* **Poller.tla**: the provider. Its variables are `redis` (the key's value, a
  raw text or `Absent`), `wver` (a ghost count of writes that orders
  versions), `ctxDone`, `LastSHA`, `ready`, `cron`, and the program counter and
  locals of each goroutine: `syncPc`/`sdata` for `Sync`, `jpc`/`jprev`/`jres`
  for each cron goroutine `j \in Jobs`, and `rpc`/`rres` for each detached
  `ReSync` `r \in Resyncs`. The channel is `q`. Its first `ChanCap` entries
  are the buffer, and the rest are senders blocked on it in FIFO order, as in
  Go's runtime. Actions: `RedisWrite` (the environment), `SyncInitialFetch`,
  `SyncSend`, `SyncStop`, `Tick`, `JobFetch`, `JobSetSHA`, `JobCompare`,
  `JobSend`, `JobReleased`, `RsFetch` and `RsDone`. A goroutine takes one step
  per access to shared state: the read of `LastSHA`, the round trip together
  with the write of `LastSHA`, the re-read of `LastSHA`, and the send.
  `fetchData` is an operator over the two replies. `Replies` gives the
  replies a command may get: once the context is cancelled, only an error;
  before that, an error at any time, else `nil` for an absent key and a value
  for an existing one. ConvertToJSON is the constant
  function `Normalize`, with `ConvErr` for malformed text. `generateSHA` is
  the constant `SHA`, assumed injective (no SHA3 collisions).
* **Service.tla**: extends Poller with `Start`, `processSyncData` and
  `updateStoreFromSyncData`. Its variables are `mainPc`, `grpc`, `cpc`,
  `received` (the last event taken off the channel) and `store`. `Receive`
  models a whole iteration of the consumer: the dequeue, then one of three
  outcomes of SetState (error, ok, or ok with a resync that starts a
  `ReSyncCall`). `Signal`, `GrpcFail`, `GrpcStop`, `ConsumerStop`,
  `StartReturns` and `Exited` model cancellation and shutdown.
  `Fairness` and `FairSpec` add the fairness of section 3.2.
  Poller also keeps a ghost variable, `lastFetch`: the document the latest
  round trip converted, in real time. It is updated by `RecordFetch` in the
  three fetch actions and read only by `FingerprintIsLastFetch`.
* **Connector.tla**: construction as pure operators. A URI is the result of
  `url.Parse`, a record. Its path is a sequence of one-character strings,
  because the path is the only datum the code computes with. `NewRedisSync`
  makes the checks in the code's order (parse error, scheme, key). It then
  builds a provider record: address with the `localhost:6379` default,
  `database` (`DatabaseOf`: `TrimSlash`, then `Atoi`, written as the
  `n = n*10 + d` fold of strconv, `DigitsValue`), `password`, `key`, `tls`, `interval` 30,
  and `clientTLS`. That last field says whether the options the client was
  built from carry a TLSConfig. `SetInterval`, `NewRedisSyncFromConfig`
  (overrides the interval only when it is positive, then sets the TLS flag)
  and `NewService` (the provider, then `SetInterval` with whatever the flag
  says, then the store and the gRPC service, whose constructors may fail)
  follow the code line by line.
* **ConnectorMC.tla**: one construction step over every input of a bounded
  set. `BuildService` is the command's call to `NewService`, and
  `BuildFromConfig` is a caller of `NewRedisSyncFromConfig`. It extends only
  the standard modules, so that its proofs reach no RECURSIVE operator: the
  bounded paths are listed explicitly, and the reference sum `Magnitude` is
  a recursive function, not a library fold. `Numeral`, `SignedNumeral`,
  `Magnitude` and `SpecDatabase` state spec 4.1's database rule from the
  spec's words, not from the code's branches.
* **Cadence.tla**: `Seconds(N)` is the set of seconds of a minute that the
  spec `*/N` selects. robfig/cron v1 reads five fields as second, minute,
  hour, day and month, and refuses N = 0. `NextSecond` is the scheduler's
  next run, with wrap-around into the next minute. `Gap` is the time between
  two runs. **CadenceMC.tla** runs the scheduler from any second at which
  `Cron.Start` may fall.
* **MC.tla**: model values for documents and digests. `r1`, `r2` and `rbad`
  are raw texts. `rbad` fails conversion. `MCZeroInterval` is the interval
  that `Connector!NewService` hands the provider for `--redis-interval=0`.
  The zero_interval run uses it as the constant `Interval`, which composes
  construction with the poller.
* **ServiceProofs.tla**, **PipelineProofs.tla**,
  **CadenceProofs.tla** and **ConnectorProofs.tla**: the TLAPS proofs (section 4).

## 3. Properties and runs

### 3.1 Properties

* `TypeOK`: the type invariant of MC and of ConnectorMC. In Service it says
  that every event on the channel carries a document. CadenceMC's `TypeOK` is
  proved (section 4) and not checked by a run.
* `PipelineConsistent`: whenever no goroutine is mid-poll and the channel is
  empty, `LastSHA` is the digest of the document the consumer received last.
  If it fails, a later poll of an unchanged key compares equal, and the
  consumer never gets the key's content.
* `DeliveryOrder`: what the consumer received last, and every queued event,
  were read from non-decreasing versions of the key.
* `FingerprintIsLastFetch` (spec 8): once no goroutine is between its
  round trip and its write of `LastSHA`, `LastSHA` is the hash of the
  document fetched last in real time. The ghost variable `lastFetch`
  records that document. It is only checked where two goroutines write
  `LastSHA` (resync_lastfetch). With one writer it restates the write.
* `Convergence` (liveness): while the service runs and is not cancelled,
  once the key holds a well-formed document for good, the consumer
  eventually receives that document and keeps it.
* `ShutdownCompletes` (liveness): a cancellation (signal or failed sibling)
  leads to `Start` returning. This holds even when a cron goroutine stays
  blocked on the full channel after the consumer stopped.
* `CancelNotFailure` (action property): once the context is cancelled, Sync
  does not end in failure (spec 5).
* `NoEmitAfterCancel` (action property): once the context is cancelled, no
  event enters the channel.
* `DatabaseAsSpecified`: the provider's database is the one spec 4.1
  describes: "defaults to 0 if the path segment is absent or non-numeric".
  `SpecDatabase` reads that rule without the code's branches. The segment
  is what follows the leading "/". A segment of decimal digits (`Numeral`)
  names its value, the sum of digit * 10^position added up from the right
  (`Magnitude`). Anything else gives 0. The spec does not say whether a
  sign followed by digits is numeric, so the property leaves that case open
  (`SignedNumeral`). There the code takes Atoi's reading: "/-1" gives -1,
  which go-redis never SELECTs. The property covers:
  * the url.Parse path and the `""`/`"/"` test;
  * TrimPrefix, which a doubled slash and a bare slash exercise;
  * Atoi's sign handling, which a lone sign and a sign before text
    exercise;
  * the left fold, checked against the positional sum.
* `TLSHonoured`: a provider reports TLS exactly when its client was built
  with a TLSConfig.
* `PeriodIsInterval`: from its second run on, the cron job runs every N
  seconds, as the `--redis-interval` help text ("interval in seconds")
  promises.
* `PollsWithinInterval`: whatever N is, no gap between two runs, the first
  from `Cron.Start` included, is longer than N. The key is never polled
  less often than asked.

### 3.2 Fairness

`FairSpec` gives weak fairness to every step of the service's own
goroutines: Start's PING, Sync's steps, each cron goroutine's steps, each
ReSync's steps, the consumer's receive and its stop, the gRPC task's stop,
and `g.Wait` returning. The Go scheduler runs every runnable goroutine, and
the cron scheduler keeps firing while it runs, so a `Tick` that stays enabled
is taken. The successful round trip `JobFetchOk` gets strong fairness: Redis
is assumed to answer eventually when asked again and again. Without this, a
Redis that fails forever would refute `Convergence` trivially. Writes to the
key, signals and gRPC failures come from the environment and get no
fairness, so the liveness properties never depend on the environment
stopping or acting.

### 3.3 Runs

| Run | cfg | Expect | What it shows |
|---|---|---|---|
| sequential | MC_sequential.cfg | pass | One cron goroutine, no resync, under `FairSpec`. `TypeOK`, `PipelineConsistent` and `DeliveryOrder` hold, as do `Convergence` and `ShutdownCompletes`, over writes, deletions, malformed documents, errors, PING failure, gRPC failure and shutdown (147,566 states). |
| resync | MC_resync.cfg | pass | One cron goroutine plus a detached ReSync, which writes `LastSHA` between the job's steps. `DeliveryOrder` still holds (1.73 M states). |
| connector_parse | ConnectorMC_parse.cfg | pass | Both constructors build a typed provider or return one of the code's errors. Both select the database spec 4.1 names wherever the spec decides it, on 76,940 URI/configuration pairs. |
| cadence_divisors | CadenceMC_divisors.cfg | pass | Every N below 60 that divides 60 runs the job exactly every N s, and `PollsWithinInterval` holds, whatever second `Cron.Start` falls on. |
| resync_fingerprint | MC_resync_fingerprint.cfg | violation | ReSync moves `LastSHA` to a document that is dropped. |
| overlap | MC_overlap.cfg | violation | Two overlapping cron firings deliver a stale document after a newer one. |
| cancel | MC_cancel.cfg | violation | The initial send of `Sync` happens after cancellation. |
| cancel_failure | MC_cancel_failure.cfg | violation | A signal during the initial fetch makes Sync, and so Start, return an error. |
| resync_lastfetch | MC_resync_lastfetch.cfg | violation | A cron job fetches c1, the key changes, a ReSync fetches c2 and writes d2, then the job writes d1. |
| zero_interval | MC_zero_interval.cfg | violation | `--redis-interval=0` passes through `NewService`, and no job is ever added: the consumer keeps the first document while the key changes. |
| tls_override | ConnectorMC_tls.cfg | violation | `NewRedisSyncFromConfig` with `config.TLS` on `redis://` sets `TLS` on a plaintext client. |
| cadence_irregular | CadenceMC_irregular.cfg | violation | N = 7 runs at second 56 and again at second 0, 4 s later. |

Bounds. The Service runs use three raw values (two valid, one malformed)
plus `Absent`, two documents and digests, and `MaxWrites = 3` writes to the
key. That is enough for write → poll → write → poll. It also covers a
deletion followed by a re-creation, and a malformed value between two good
ones. They have one or two cron goroutines and at most one ReSync goroutine.
Each counterexample needs at most two writes and two concurrent goroutines.
`Interval = 30` is the default of `--redis-interval`.

ConnectorMC enumerates the following:
* every scheme class (`redis`, `rediss`, other) and an unparsable URI;
* empty and non-empty hosts;
* no userinfo, a user without a password, and one with a password;
* a missing and a present key;
* every path `""` or `"/"` followed by up to two characters of
  `/ + - 0 1 7 x`. This covers signs, the order of two digits, a bare and a
  doubled slash, and trailing text.

CadenceMC covers every start second of a minute. The passing run uses every
divisor of 60 below 60. The violating run uses 7, 45 and 90: two
intervals that do not divide 60, and one longer than a minute.
`PollsWithinInterval` for those intervals is left to the theorem
`PollsEveryInterval` (section 4), which covers every interval.

Findings (see PROJECT.json):
1. service.go:181: the document that ReSync fetches is lost, but `LastSHA`
   has already moved, so the change never reaches the store.
2. redis_sync.go:153: robfig/cron v1 does not wait for a firing to end
   before the next one. A firing held up for an interval between its write
   of `LastSHA` (234/268) and its re-read at 153 sees the next firing's
   hash and emits its stale document after the newer one. That stretch does
   no I/O, so it takes a scheduling delay, not a blocked send. The spec says
   cycles run one at a time.
3. redis_sync.go:167/152/155: sends ignore the context, so events are emitted
   after cancellation.
4. redis_sync.go:163: a cancellation during the initial fetch is reported as
   a startup failure. Spec 5 says cancellation is never a failure.
5. redis_sync.go:136 (with service.go:48): an interval of 0 reaches the cron
   parser, which refuses it. The error is discarded, so the service never
   polls.
6. redis_sync.go:300: the TLS override of `NewRedisSyncFromConfig` changes
   the flag, not the connection, which stays plaintext.
7. redis_sync.go:136: the interval is a seconds-field step. It is exact only
   for divisors of 60, uneven for other values below 60, and once a minute
   from 60 on. Spec 9 calls the spec minute-granular. The divisors run shows
   that it is not.

8. redis_sync.go:234: the round trip and the write of `LastSHA` are not
   atomic. A cron job and a ReSync that fetch in one order and write in the
   other leave the hash of the older fetch. Spec 8 requires the hash of the
   payload fetched last.

## 4. Proofs

`ServiceProofs.tla` proves `THEOREM TypeCorrect == Spec => []TypeOK` for
every value of the constants that satisfies `PollerAssumption` and
`ServiceAssumption`. `TypeOK` alone is not inductive. A send builds a `Msg`
from the data its goroutine fetched, and that data is a document only because
the goroutine passed the `err != nil` and `data == ""` checks before it
reached `send`. The inductive invariant is therefore
`IInv == TypeOK /\ SendersHoldDocs`. The proof has one step per action of
`Next` and rests on the lemmas `FetchDataType`, `SetLastSHAType`, `QueueType`
and `PollerStepType`.

`LEMMA SingleJobOInv` proves `Spec => []OInv` under the hypothesis
`Jobs = {j0}`, which means no two cron firings overlap. The number of ReSync
goroutines is arbitrary. The invariant is
`OInv == IInv /\ VerBounds /\ SyncFirst /\ JobLatest /\ DeliveryOrder`:
* `VerBounds`: every version held anywhere is at most the number of writes
  so far.
* `SyncFirst`: while `Sync` has not finished its initial send, the channel is
  empty, nothing has been received and the cron scheduler is off. A cron
  goroutine exists only once the scheduler has started. This is the order of
  lines 166-171.
* `JobLatest`: a cron goroutine that has fetched holds a version at least as
  new as everything queued or received.

Together these make every append to the channel the newest version.
`NextOrderRest` has one step per action of `Next`. The hypothesis
`Jobs = {j0}` is needed only in the `JobSend` case, and the `overlap` run
shows that it cannot be dropped. `THEOREM SingleJobDeliveryOrder` follows:
`Spec => []DeliveryOrder`.

`PipelineProofs.tla` proves `THEOREM SingleJobPipelineConsistent`:
with `Jobs = {j0}` and `Resyncs = {}`, `Spec => []PipelineConsistent`.
`PipelineConsistent` is not inductive: it speaks only of quiet states, and
the steps that lead into one (a job's compare, its send, the consumer's
receive) need to know what `LastSHA` was before. The strengthening is
`FingerprintRest`, stated over `PipeLast`, the newest document in the pipeline
(the last one queued, else the last one received):
* before `Sync`'s initial send, `LastSHA` is `NoSHA`, or the fingerprint of
  the document `Sync` is about to send;
* a cron goroutine that is idle, fetching or setting the SHA sees `LastSHA`
  equal to the fingerprint of `PipeLast`, and its `previousSHA` is that
  fingerprint too;
* a goroutine that is comparing or sending holds the document `LastSHA`
  fingerprints.
`NextFingerprintRest` has one step per action. It takes `OInv` before and
after the step, from `SingleJobOInv`, for `SyncFirst` (no cron goroutine runs
before the initial send) and `SendersHoldDocs`. `TailKeepsLast` shows that a
receive keeps `PipeLast`. `QuiescentConsistent` derives the property, and the
temporal step combines these by PTL. The `resync_fingerprint` run shows that
the hypothesis `Resyncs = {}` cannot be dropped.

`CadenceProofs.tla` proves three theorems about the cron cadence for every
value of `Intervals`:
* `CadenceTypeCorrect`: `Spec => []TypeOK`, for every set of positive
  intervals.
* `DivisorPeriod`: `Spec => []PeriodIsInterval`, whenever every interval
  divides 60. That covers 60 itself, which the run leaves out.
* `PollsEveryInterval`: `Spec => []PollsWithinInterval`, for every set of
  positive intervals. No gap is longer than the interval. `GapBound` shows
  that the gap after t equals `FirstAfter(N, t) - t`. The first multiple of
  N after t is at most t + N, and the wrap to second 60 only comes earlier.
  `TypeOK /\ PollsWithinInterval` is inductive as it stands.

Both rest on `NextSecondForm`, a closed form of the library's next run. After
second t the job runs at `FirstAfter(N, t)`. That is the first multiple of N
after t if it falls within the minute, else second 60, which is second 0 of
the next minute. It is the least element of the set `NextSecond` chooses
from. The minimality argument uses `MulMono`: multiplying by a positive N
preserves strict order. `DivisorGap` uses it again: when N divides 60, a
selected t is at most 60 - N, so the gap is N. `PeriodIsInterval` is not
inductive, because the first gap, measured from `Cron.Start`, can be
shorter. The invariant adds `OnSelected`: after the first run, the clock
stands on a selected second. The `cadence_irregular` run shows the
divisibility hypothesis is needed.

`ConnectorProofs.tla` proves two facts about the constructors, for every URI
and configuration:
* `ServiceProvider`: a provider built by `NewService` has its TLS flag equal
  to its connection's, and its interval equal to `--redis-interval`, zero
  included. This is the zero_interval finding for every input.
* `FromConfigProvider`: a provider built by `NewRedisSyncFromConfig` has a
  TLS flag that differs from its connection's exactly when the
  configuration asks for TLS and the scheme is `redis`. This delimits the
  tls_override finding. The interval of such a provider is always positive.

`ConnectorProofs.tla` also proves ConnectorMC's two invariants,
`THEOREM ConnectorTypeCorrect == Spec => []TypeOK` and
`THEOREM ConnectorDatabaseAsSpecified == Spec => []DatabaseAsSpecified`.
The proof has two halves:
* what the code computes;
* that it is what the spec says.

The inductive invariant is
`CInv == TypeOK /\ cfg \in Configs /\ DatabaseIsAtoi`. `DatabaseIsAtoi`
says that a provider's database is `AtoiDatabase` of its path, a closed form
of the code: the segment read with Atoi's optional sign. `CInv` needs the
configuration's type, because the one step reads `cfg`. TLC checks `CInv` on
the connector_parse state space. The step case splits on the two
constructors. `ServiceBuilt` and `FromConfigBuilt` show that each
constructor returns one of the code's errors or a provider in `Providers`
whose database is `AtoiDatabase` of the path.

`SpecAgreement` then shows, for paths of any length over any characters,
that `AtoiDatabase` equals the spec's `SpecDatabase` unless the segment is a
signed number. There are two cases:
* A segment that starts with a sign is non-numeric to the spec. Outside the
  open case, what follows the sign is not a digit string either, so Atoi
  fails and the code gives 0 as well.
* An unsigned segment is numeric to both exactly when it is all digits.

The remaining fact, `DatabaseIsAtoi`, is the agreement of Atoi's left fold
with the positional sum.
Both are recursive functions over `0..Len(ds)`, and a LET-defined recursive
function is a CHOOSE of a function satisfying its equation. For a bounded
length no induction is needed:
* `DigitsValueShort` and `MagnitudeShort` exhibit such a function for every
  digit string of at most three characters.
* `HornerShort` and `PositionalShort` unfold the equation and show that any
  such function ends in the same value, `ShortValue`.
* `AtoiShort` handles the sign.
* `DatabaseShortPath` is then stated for every path of at most four
  characters that is empty or starts with "/". The characters are arbitrary,
  not only the seven of the run, so it covers every database index from -999
  to 999.

What is only model-checked:
* `DeliveryOrder` with overlapping cron firings (the overlap run).
* `PipelineConsistent` with a ReSync (the resync_fingerprint run).
* `FingerprintIsLastFetch` with a ReSync (the resync_lastfetch run).
  TLC shows each of these violated. With a single writer of `LastSHA`,
  `FingerprintIsLastFetch` only restates the write, so it is neither
  checked nor proved there.
* The liveness properties are out of TLAPS's reach (ENABLED and fairness).
* `DatabaseAsSpecified` on paths longer than four characters. Neither
  TLC's bounded inputs nor the proof reach them. For an arbitrary length the
  fold needs induction over data. The library's induction theorems
  (`FiniteNatInductiveDef`) take an operator parameter, which the installed
  provers cannot instantiate.
* The violated properties.

## 5. Not modelled

* `Close`: only a unit test calls it (neither `Shutdown` nor the
  command), so it changes no state the system reads.
* `GetFlagConfiguration` and `IsReady` (service level) are reads.
  `Shutdown` only logs.
* The evaluator and the flag store: SetState is modelled by its three
  outcomes, not by JSON parsing. So what a resync would repair in the store
  is not observable (hazard at service.go:178).
* The gRPC sync service is modelled as a goroutine that may fail or stop on
  cancellation.
* `url.Parse` itself is not modelled. Its result is the input record.
  `strconv.Atoi` is modelled only on strings too short to overflow.
* The TLS `ServerName` derived from the host is not modelled.
* The CLI's flag binding, the logger and viper; the tests, the script and
  the docs.

## 6. Plan

1. An abstract specification of what the provider promises its consumer
   that says more than `DeliveryOrder`: which documents are published
   (change detection) and with which fingerprint. A refinement to it would
   make `SingleJobPipelineConsistent` a corollary.
