# A TLA+ model of whatsapp-normalizer

The service takes WhatsApp Cloud API webhooks from Meta, normalizes them, drops
redeliveries, queues the events in a Redis stream and forwards each one to a
downstream URL, at least once. What is hard about it is not the code of any one
function but what happens between two of its awaits: another worker, another
request, an expiry, a crash, a reply that never comes. These modules model that.

Line numbers refer to the repository's files under `src/`.

## 1. The system

| component | state | operations | talks to |
| --- | --- | --- | --- |
| Webhook ingest (`app/main.py`) | requests in progress, in memory | `receive_webhook`, `_ingest`, `lifespan` | dedup, stream |
| Ingest dedup (`app/dedup.py`) | Redis keys `wa:dedup:<id>` with a TTL | `is_duplicate` (SET NX EX) | Redis |
| Stream and group (`app/queue.py`) | the stream, last-delivered-id, pending list, dead-letter stream | `ensure_group`, `enqueue_event`, `read_new`, `reclaim_stale`, `ack`, `dead_letter`, `depth`, `peek_dlq` | Redis |
| Delivery claim (`app/queue.py`) | Redis keys `wa:delivered:<id>`: `inflight` (short TTL) or `done` (24 h) | `begin_delivery`, `complete_delivery`, `abandon_delivery` | Redis |
| Worker (`app/worker.py`) | loop position, reclaim cursor, shutdown event, one handler per entry of the batch | `run`, `process_batch`, `handle`, `dispatch`, `request_shutdown` | stream, claim, downstream |
| Redis client (`app/redis_client.py`) | two pools | retries of a command whose reply was lost | Redis |
| Settings (`app/config.py`) | environment | `validate`, the derived lifetimes | all |
| Normalizer (`app/normalizer.py`, `app/models.py`) | none | `extract_events` | ingest |
| Queue statistics (`app/queue.py`, used by `main.py` and `worker.py`) | none between calls | `depth` | Redis, `/stats`, the gauges |
| Security, metrics, logging, deployment | none that decides anything here | | |

**What is hard in it.** API requests, workers, the handlers inside a batch and
Redis's clock interleave at every await; Meta redelivers, also concurrently;
processes die between two commands; `ack()` and "requeue, then ack" and "claim,
then enqueue" are several commands; a reply may be lost after the command took
effect, and the client may then send the command again; claims and reclaim ages
run out while someone relies on them; SIGTERM arrives anywhere in the loop; what `depth()`
reads with two commands is never one state of the queue.

**What makes each part correct.** *Ingest*: a 200 means every event of the payload is
stored; one stream entry per message id; only redeliveries are dropped; every
delivery is accepted in the end. *Stream and worker*: an event in the stream is
delivered or parked before it is forgotten, and one of the two does happen; the
copies of an event stay bounded; a shutdown finishes the batch and ends.
*Claim*: one attempt at a time; what was recorded as delivered is not sent again;
a second send has a cause. *Settings*: the lifetimes cover what they should.
*Normalizer*: one event per message and status, whatever is null, missing or mistyped
around it. *Queue statistics*: what waits is reported, what is being worked on is not.
*All together*: what Meta was told 200 for is delivered or parked.

The complete list of components with their status, and the list of hazards with
the line each bites at and the properties aimed at it, are in `PROJECT.json`.

## 2. The modules

| module | models | role |
| --- | --- | --- |
| `Delivery` | stream, group, claim, workers, downstream, Redis's clock | component |
| `AtLeastOnce` | the promise of the delivery path (docstring of `queue.py`) | abstract specification |
| `DeliveryProofs` | | theorems about `Delivery`: types, no loss, one attempt at a time |
| `PromiseProofs` | | a recorded delivery is final; each step of `Delivery` is one of `AtLeastOnce`, or a stutter |
| `CopiesProofs` | | how many entries of an event are at work, what makes a duplicate, what a shutdown leaves |
| `ClaimLease` | `Delivery` with a clock and the lifetimes of `config.py` | composition |
| `ClaimLeaseProofs` | | the lifetimes provide what the theorems about `Delivery` assume of time |
| `QueueDepth` | `depth()` against a moving `Delivery` | composition |
| `QueueDepthProofs` | | what `depth()` may report |
| `Normalizer` | `extract_events()` and the schema of an event, as operators | pure algorithm |
| `Ingest` | Meta, API requests, dedup keys, the stream as the API sees it | component |
| `IngestProofs` | | theorems about `Ingest` |
| `Webhook` | `receive_webhook()` from the JSON on: `Ingest` on what `Normalizer` makes of each payload | composition |
| `WebhookProofs` | | what `extract_events()` yields, and what a 200 says of the payload as sent |
| `Pipeline` | `Ingest` and `Delivery` over one stream | composition, end to end |
| `PipelineProofs` | | what is proved of the two parts holds of the two together |
| `Payloads` | | builders of payloads, malformed families |
| `MC_Delivery`, `MC_ClaimLease`, `MC_QueueDepth`, `MC_Ingest`, `MC_Pipeline` | symmetry, payloads | instances for TLC |

In `Delivery` alone, `Publish` stands for the API: one entry per message id with
`retry_count` 0, which is what `Ingest` promises (`OncePerId`).
`PublishAgain` is the exception, an XADD the API's client sent twice. In `Pipeline`
the API of `Ingest` takes the place of both.

### Delivery

One action per Redis command, per outcome of the POST, per decision of the loop.

* `log` is every entry ever added, its position the stream id; `present` the ids
  still there (not deleted, not trimmed); `lastDelivered` and `pel` the group;
  `stale` the pending ids that have been idle for `CLAIM_MIN_IDLE_MS`; `claim` the
  key of each message; `dlq`, `received`, `confirmed` what became of it.
* `handler[w][e]` is the await at which `handle()` of entry `e` in worker `w` stands:
  `begin` (SET NX), `get`, `post`, `landed` (the downstream has it, the answer is on its
  way), `complete`, `backoff` (the sleep and the DEL that ends it), `dead`,
  `dl_abandon`, `requeue`, `xack`, `xdel`. `phase[w]` is the position of `run()`.
* `XAdd` trims: above `StreamMaxlen` the oldest entries may go, never below it,
  which is what `MAXLEN ~` allows.
* `Answered` is what any Redis command adds: the reply comes; or it is lost and the
  handler raises (`gather(return_exceptions=True)` leaves the entry as it is); or it
  is lost and the client sends the command again (`Resend`). `Refused` is a command that
  did not take effect at all.
* `Sweep` is XAUTOCLAIM with its cursor, deleting pending ids the stream no longer
  has; `ReadNew` XREADGROUP. Either may take effect without its reply arriving.
* `NoDownstream` is `dispatch()` in a worker without `DOWNSTREAM_WEBHOOK_URL`: it
  reports success and nothing is sent. `Unconfigured` is the set of such workers.
* `Crash` drops a worker's handlers; `Start` is Docker's restart; `RequestShutdown`
  is SIGTERM; a stopped worker does not come back.
* There is no clock. With `Timely = FALSE` a claim lapses and an entry becomes
  reclaimable at any moment. With `Timely = TRUE` neither happens to an attempt that is
  still running, and a `done` marker outlives the entries of its message: that is
  what `claim_ttl_seconds()`, `validate()` and `DELIVERED_TTL_SECONDS` are for.

### ClaimLease

Extends `Delivery`: every step of it is taken unchanged, with three timers beside it.
`ttl[m]` is what is left of a claim, `idle[e]` how long ago a pending entry was handed
out, `clock[w][e]` how long a handler has been in its await. `Tick` is one unit of
time, not possible while somebody is due: a Redis command returns within `Latency`, a
POST within `PostTimeout` of its start, a backoff within `BackoffMax`. `Lapse` and `AgeOut` are
`ClaimLapses` and `GoStale` of `Delivery` when their time has come, and only then.
`ClaimTTL` is `claim_ttl_seconds()`, `int()` included; `Validated` is the condition of
`validate()`. `Latency` is a parameter no setting bounds: a command may take
`REDIS_SOCKET_TIMEOUT_SECONDS` for each of its tries. `LatencyFits` says what the five
seconds of margin cover: the reply of SET NX, and the DEL at the other end. `IdleFits` says what
`CLAIM_MIN_IDLE_MS` has to cover: besides the attempt ceiling, with which `validate()` compares it, five commands.
`DELIVERED_TTL_SECONDS`, a day, is not on this scale; `Forget` treats it as `Timely` does.

### Ingest

`pc[d][c]` is request `c` for delivery `d`, `at` the event it is at. `Claim` and
`DropDuplicate` are the two answers of SET NX, `Enqueue` the XADD, `Refused` and a lost reply lead
to the 503, `Answer` is the response, which Meta may not see. `Receive` is a
delivery or a redelivery, as often and as concurrently as the instance has
`Requests`; where `extract_events()` raises (`Unreadable`), outside the `try`, the answer is an
error before any event is looked at. Meta stops (`Close`) only after a 200, and keys lapse (`KeyLapses`) only
after Meta has stopped, which is how `config.py:27-28` sizes `DEDUP_TTL_SECONDS`.
Meta is outside the repository; the model takes of it what the README says.
Trimming is left to `Delivery`.

### Normalizer

A JSON value is a record whose only field names its type, so that `isinstance`, `bool()` and
`int()` are sets, guards and field accesses; an object is a function from its keys. `AsDict`,
`AsList`, `At` (`dict.get`), `ExtractText` and `SafeTimestamp` are the helpers of the source, one operator
each; `FromMessage` and `FromStatus` yield a sequence of no or one event, and the nested
loops are `Collected` over `FromChange`, `FromEntry`, `ExtractEvents`. `Constructs` is what pydantic
accepts of an event, `Raises` that some event of a payload is refused: the exception takes the whole
payload with it.

### Webhook

Joins the two. `Json` is a set of JSON values that holds the parts of its members (`JsonAssumption`), `Sent` the
payload of each delivery. `WebhookAssumption` says that `Ingest` runs on what the normalizer makes of them: `Body` is
`ExtractEvents` of what was sent, `Unreadable` the deliveries for which it raises, `IdOf` the field `message_id`. The
instances of `MC_Ingest` compute these from concrete payloads, and TLC checks both assumptions there; `WellFormed`
is the reference, the set of ids found anywhere in a payload, said without the loops of the code.

### QueueDepth

Extends `Delivery` with processes that call `depth()`: `Measure` is its first command,
`Report` the second with the subtraction, `Meanwhile` any step of `Delivery`. `ReportWithoutGroup` is the
`except` clause that takes a failed XPENDING for a missing group, `GiveUp` any other failure.
`unread` and `slack` are history variables for the two properties: which entries nobody
had read when the call began, and how many acked ones its first command may have counted.

### Pipeline

Extends `Delivery`, and instantiates `Ingest` with `Ids <- Msgs` and its stream as `published`, the
API's own record of what it added. A step of the API that adds an event adds it to `log` in the
same step (`WorkersWait`); otherwise the two share only the budget of faults. Crashes of either side, a
re-sent XADD and the dedup keys act together here.

## 3. The runs

Bounds: `MaxEntries` stream ids, `MaxFaults` crashes, lost or refused commands and
lost answers together, `BatchSize` 2 (1 in `queue_depth`), `MaxRetries` 1. Two workers and one message
give every race the claim is about, because a claim, and every handler's path, concerns one
message only: the other contender is a second entry of the same message (a requeue, a reclaim or
a re-sent XADD). One retry makes both exits of a failed attempt happen; three or
four entries are first attempt, retry and a duplicated one. Once the stream has had
`MaxEntries` entries an XADD is refused, as Redis does when it is full.

| run | checks | shows |
| --- | --- | --- |
| `delivery_safety` | `TypeOK`, `NoLoss`, `NoLossInv` | no timing assumption at all, re-sent commands: no event is lost |
| `delivery_timely` | `OneAttempt`, `NoAmplification`, `NoSendAfterConfirmed` | with the timing the settings promise, and two faults; three workers, one of them without a downstream |
| `delivery_shutdown` | `ShutdownDrains`, `DuplicateNeedsFault`, `ShutdownCompletes` | two messages, nothing fails, both workers stopped at any time |
| `lease_timed` | `LeaseTypeOK`, `LeaseCoversAttempt`, `KeepsTiming` | with the lifetimes the settings derive, the timed system is `Delivery` with `Timely` |
| `queue_depth` | `WaitingIsReported`, `NoPhantomBacklog` | `depth()` called at any moment, two messages, one worker without a downstream, one fault |
| `ingest_safety` | `TypeOK`, `OncePerId`, `AckedIsClaimed`, `LossNeedsFault`, `PayloadCovered`, `AllAnswered` | two raw payloads with malformed parts, sharing an id, two concurrent requests each, two faults |
| `pipeline` | `AcceptedIsKept`, `KeepsPromise`, `AcceptedIsSettled` | API and two workers end to end, one stopped, one fault on either side, re-sent commands |

`PayloadCovered` compares what is acknowledged with the raw payload, by way of `WellFormed`. Next to the runs, `MC_Pipeline` asserts (`ASSUME`) two
facts about `ExtractEvents` alone, which TLC evaluates before it starts. `SiblingsSurvive`: every list of up to three elements, good or
junk, at each of the four levels of a payload yields exactly the events of its good elements, in order; three
are the least that put junk before, between and after good ones. `NullsKeepTheEvent`: a message of any type, or a
status, of which any two parts are nulled or left out, is still normalized as long as it has its id.

`AcceptedIsKept` is the safety half of `AcceptedIsSettled`: at every moment after the 200 somebody still has the
message, or it has reached its end, or a fault kept it from the stream. It is the end-to-end statement that needs no fairness.

`WaitingIsReported` depends on two things: XLEN is read before XPENDING (swapped, an
entry that is added and read in between hides one that waits), and the stream is not trimmed.
`NoPhantomBacklog` allows for what was acked since the first command and for entries left
between XACK and XDEL: an error there leaves an entry that no worker will ever read or delete and that
`queued` counts from then on, although README.md:679 calls `queued` the "entries waiting for a worker".

`lease_timed` counts in seconds and is chosen tight: a latency of 2 leaves
one second of the margin of 5, and `MinIdle` is the smallest value under which no entry is
reclaimed from a running handler, `PostTimeout + BackoffMax + 5 * Latency` plus one tick (`IdleFits`).
With a latency of 3 `LeaseCoversAttempt` fails, with a `MinIdle` of one less `KeepsTiming`
does, although `validate()` accepts both. The defaults (10 s, 60 s, 120 s) have room for the
second, and for the first as long as Redis takes less than 2.5 s at each end.

`delivery_shutdown`, `ingest_safety` and `ingest_raises` switch the deadlock check off: all
workers may have been stopped, and all deliveries may be over and forgotten. `MaxFaults` is
0 in `delivery_shutdown` because its two safety properties are about runs without a fault.

**Fairness** (`FairSpec`, `PipelineSpec`). The event loop of a worker never idles while one of its
handlers is ready -- weak fairness of the worker as a whole, not of each handler, which is enough
because a handler has finitely many steps; the API's runs every request to its answer; Docker
restarts a process that died (`restart: unless-stopped`, not after a stop); Redis's
clock makes claims lapse and pending entries old; Meta repeats what it has no 200
for. Nothing is assumed of the downstream, which may refuse for ever (then the
event is parked), nor that faults stop other than by the bound.

### What the code does not do

Five runs end in a violation, each of a statement the repository makes; TLC's
traces are a few steps long.

| run | statement | what happens |
| --- | --- | --- |
| `delivery_trim` | `NoLoss` (README.md:258) | `MAXLEN` drops undelivered entries, no fault needed |
| `delivery_resend` | `OneSender` (queue.py:182, README.md:261) | a re-sent DEL removes another handler's claim |
| `ingest_orphan` | `AcceptedIsDurable` (main.py:120-123) | the dedup key outlives a failed XADD; the redelivery gets a 200 and is dropped |
| `ingest_status` | `OnlyRedeliveriesDropped` (README.md:700) | a second status of one message is dropped as a redelivery |
| `ingest_raises` | `AllAnswered` (normalizer.py:66-68, README.md:263) | a text whose body is a number makes every redelivery a 500; the good message next to it is never accepted |

`delivery_resend` needs `REDIS_RETRIES` above 0, its default; so does the shortest of the
ways to `ingest_orphan` (SET NX sent twice finds its own key), but a crash or a
refused XADD after the claim gives it too. `AcceptedIsSettled` makes an exception for such an
orphan, and for nothing else.

Two more that the model shows and no run is spent on: an event is attempted `MAX_RETRIES` + 1 times,
where README.md:586 and 261 say `MAX_RETRIES` (`AfterFailure`); and a worker started without a
downstream "just queues" according to `.env.example:18` and README.md:577, while it acks, marks as
delivered and deletes what it reads (`NoDownstream`), as README.md:847 says.

## 4. The proofs

`tlapm` on the eight modules named `...Proofs`. Everything is proved for
arbitrary constants under the named `ASSUME`s (the types of the settings; in `Webhook`, that the events of a
delivery are those of its payload), which TLC evaluates in every run, and the hypotheses each theorem states.

**What is assumed of time** comes in three strengths, each a next-state relation below `Next`: `UnhurriedNext`
(no entry is reclaimed under a running handler), `OrderlyNext` (no claim lapses under a running
attempt) and `InTimeNext` (both, and a marker outlives the entries of its message). `Timely` gives
`InTimeNext`, and so do the lifetimes of the settings. A theorem is proved of the weakest relation that carries it,
so that it holds of `Delivery` with `Timely` and of `ClaimLease` without. Every theorem holds for any `MaxFaults`.

**The delivery path**

* `Delivery: TypeCorrect`. `TypeOK` alone is not inductive: that a requeued entry's
  `retry_count` stays in range needs to know that a handler in its backoff has a retry left,
  and that a handler's entry was read at all. `ReadInOrder` says so; `TypesInductive`
  carries both.
* `NothingUngrounded`: with a downstream for every worker (`Unconfigured = {}`),
  `Spec /\ [][~Trims]_vars => []NoLossInv`, and from it `NoLossUnlessTrimmed`, the same for `NoLoss`.
  No loss is not inductive: an ack is safe only because of what the handler did earlier. `Grounded`
  records it per program point -- the POST landed, the dead letter was written, or a **later**
  entry of the message is live. "Later" is what keeps two handlers of two entries from each acking on
  the strength of the other. `CarriesOver` states once what a step must preserve; one step per action
  discharges it. The hypothesis on trimming excludes exactly what `delivery_trim` exhibits.
* `NoLossWithinMaxlen`: with `MaxEntries <= StreamMaxlen` no step trims, hence
  `Spec => []NoLoss`.
* `OneAttemptAtATime`: with `Timely` and without `Resend`, `Spec => []OneAttempt`. The
  invariant adds that who is inside an attempt finds the claim `inflight`. Without
  `~Resend` it is false (`delivery_resend`).
* `ConfirmedIsNotSentAgain`: with `Timely`, without `Resend` and without trimming,
  `NoSendAfterConfirmed`. Its invariant joins `Exclusive` (an attempt has its message and the
  claim to itself) to `ConfirmedIsFinal`: a message whose delivery was recorded keeps its `done` marker as long
  as an entry of it is live, so no entry of it is requeued and every handler that reads the key acks.
* `DeliveryImplementsPromise`: under those conditions and with a downstream for every worker, the
  initial states are those of `AtLeastOnce` and every step maps to one of its steps or a
  stutter, with `owed` the messages that have a live entry. This is the safety half of
  `KeepsPromise`; `OwedGrows` and `OwedShrinks` say what XADD and XACK do to `owed`, and an ack that ends what a message
  is owed is one the promise allows because of `Grounded`.
* `FaultsAtMostDouble`: with `Timely`, `Spec => []NoAmplification`, whatever else the stream and the client do. The bound
  alone is not inductive: a crash gives a whole batch back, requeued entries included. `Bounded` therefore bounds, next to the
  unfinished entries of a message (`Todo`), those any one worker has in its batch, which were all unfinished when the
  batch was read; `OneHandler` keeps an entry in one batch. Only a requeue whose ack does not follow, a crash and
  a re-sent command add to either, and each is one fault. The provers know nothing of `^`: `2^n` is
  reasoned about as the number of subsets of `1..n` (`PowersDouble`).
* `NoDuplicateWithoutFault`: with `Timely`, `Spec => DuplicateNeedsFault`. `SentOnce`: while nothing has failed, the only
  unfinished entry of an event that the downstream has is the one whose handler is about to record it.
* `ShutdownLeavesNothingPending`: with `Timely` and `Cardinality(Msgs) * (MaxRetries + 1) <= MaxEntries`,
  `Spec => []ShutdownDrains`. `Counted`: without a fault no two entries are equal, message and `retry_count`, so the stream
  has room for every retry and no XADD is refused; `Attended`: every pending entry has a handler on its
  way to the ack and no handler finds its claim taken. The hypothesis on sizes is about the model's bound on ids, not about the
  code: Redis has more.

**The lifetimes**

* `ClaimLease: LeaseTypeCorrect`, `ClaimOutlastsAttempt` and `OneAttemptUnderLease`, with
  `LatencyFits` and without `Resend`. Here `Timely` is not assumed. The lease and the exclusion need each
  other: the lease of a holder is not cut short because no other holder can drop the claim, and there
  is no other holder because the lease has not lapsed; `LeaseHeld` carries both. The measure is
  `ToRelease`, the longest way from an await to the end of the attempt: a tick takes one from it and one
  from the lease, and moving on (`FollowsIsCloser`) never needs more than staying did.
* `LifetimesKeepTiming`: with `LatencyFits` and `IdleFits` and without `Resend`, `LeaseSpec => KeepsTiming`: the timed
  system is `Delivery` with `Timely`, step by step. `IdleBounded` is the second half of it: a pending entry with a handler has
  been idle no longer than every await before the present one may have taken (`Since`) and the time spent in this one.
  The sum at XACK is what `IdleFits` compares with `MinIdle`, and `lease_timed` shows that it cannot be lowered.
* `FaultsAtMostDoubleUnderLease`, `NoDuplicateUnderLease`, `ShutdownUnderLease`, `LeaseImplementsPromise` and
  `ConfirmedIsFinalUnderLease` are the theorems above with the lifetimes in the place of `Timely`. Of the lifetimes all but the last need
  `IdleFits` only: a claim that lapses early does not amplify or duplicate anything, because nobody else has the entry.

**The API**

* `Ingest: TypeCorrect`, and `OneEntryPerMessage`: without `Resend`, `Spec => []OncePerId`. The
  invariant `KeysHeld`: an id in the stream is spent for good (its key exists or Meta is done with
  it), a request about to write has the key of its id to itself, and while `NothingResent` its id is not in the
  stream. Stated so, it is an invariant with `Resend` too, which the end-to-end bounds need.
* `EveryFurtherEntryIsAFault`: what is left of it with `Resend`: an id has one entry, and at most one more for each fault
  (`EntriesHaveCauses`). A request about to write has its own still to come (`RoomToWrite`).
* `AckCoversPayload`: `Spec => []AckedIsClaimed`, without any hypothesis. `PassedClaimed` is what the loop
  leaves behind it: every event a request has passed has its key, and keys lapse only once Meta has given up.
* `NoLossWithoutFault`: `Spec => []LossNeedsFault`. As long as nothing failed, `ClaimedIsStored`: a key stands for
  an entry in the stream or for a request about to write it.

**The normalizer** (`WebhookProofs`)

The loops of `extract_events()` are `Collected`, a flattening the community modules define by recursion on the length of
the list. The library's induction theorems take an operator and cannot be used, so induction is done on a **set**: the
lengths at which a statement fails have a least element (`LeastNumber`), and `NumbersInductive` and `SequencesInductive`
follow. With them what a flattening yields is known for lists of any length, and four of them make a payload.

* `ExactlyTheIds`: the string ids among the events of a payload are `WellFormed` of it, no less and no more; a payload that
  does not raise yields no others. TLC compares the two on the payloads of the runs; this is for every JSON value.
* `PayloadIsCovered` and `PayloadIsStored`: from it and the theorems about `Ingest`, `Spec => []PayloadCovered`, and, as long
  as nothing failed, every id of an accepted payload is in the stream or being written (`PayloadStored`).
* `InPayloadOrder`: at each of the four levels a list yields what its first part does, then what the rest does, down to
  the single elements, and the messages of a change come before its statuses. No element's events depend on its siblings.
* `MalformedIsPassedOver`: an element that is no object, anywhere in any of the four lists, changes nothing.
* `NullCostsOneField`: a message or status of which a field other than the id becomes null or goes missing keeps its event,
  and its event keeps being one that `NormalizedEvent` accepts.

**Statistics**

* `NoPhantom`: `DepthSpec => NoPhantomBacklog`, without any hypothesis. `Accounted`: what a call counted was unread then, was
  acked then or since, or is pending.
* `WaitingReported`: without trimming, `DepthSpec => WaitingIsReported`. `Snapshots`: there is a set of the size the first
  command returned that holds every entry unread then and every entry before one of them that is still in the
  stream. What XPENDING counts is in the stream (`AckedBeforeDeleted`) and was read before anything that is
  still unread, so it is counted in that set as well and the difference leaves the unread ones.

**End to end** (`PipelineProofs`, which joins the invariants of `Ingest` and `Delivery`)

* `ServiceSteps`: a step of `Pipeline` is a step of `Delivery`, or one of `Ingest` that leaves the stream
  alone or writes one event to it. `SameMessages`: the stream has entries of exactly the ids the API wrote,
  because workers write only what was there. So the invariants of `Ingest` carry over, and those of `Delivery` need one more case, a
  `Publish` without its guard.
* `AcceptedNeverDropped`: with a downstream for every worker and without trimming, `PipelineSpec => []AcceptedIsKept`, with no
  assumption on time and with re-sent commands. It joins `AckedIsClaimed` (a 200 covers claimed ids), `ClaimedIsStored`
  (without a fault a claimed id is in the stream) and `NoLoss`.
* `KeysKeepPublish`: without `Resend`, the API writes only messages that never were in the stream. `Delivery` takes this on
  trust as the guard of `Publish`; here it follows from `KeysHeld`. Hence `ConfirmedIsNeverRepublished` and
  `PipelineImplementsPromise`: the theorems about the delivery path, with Meta, the requests and the faults of the API in the
  place of `Publish`. They assume `Timely` and `~Resend`, as theirs do.
* `FaultsAtMostDoubleEndToEnd`, `NoDuplicateEndToEnd` and `ShutdownDrainsEndToEnd` need `Timely` only: they hold with
  `REDIS_RETRIES` at its default. An XADD that was sent twice has written two entries of one id, and the request may still
  be at it, so `Bounded` is not inductive by itself. `Room` is what is missing: as long as a request is about to write an
  entry of a message, the bound has one to spare. A request gets there with no entry of its id in the stream
  (`NewWriterIsFirst`); the workers take the room only in a fault, which makes as much (`WorkersAddLittle`); a write takes it
  and, if it is to be repeated, is a fault itself (`WriterGoes`). Until the first fault each step is one of `Delivery`
  (`FaultOrStep`), which is all the other two ask.

**Only model-checked**

* All that needs fairness, which the prover has no rule for here: the progress half of `KeepsPromise`, `AcceptedIsSettled`,
  `ShutdownCompletes` and `AllAnswered`. The safety half of the first two is proved (`DeliveryImplementsPromise`,
  `PipelineImplementsPromise`, `AcceptedNeverDropped`).
* `NullsKeepTheEvent` for two parts nulled at once, and the five violations.
* The lifetimes and the API together: `PipelineProofs` has `Timely`, not the clock.

## 5. Not modelled

* A POST that reaches the downstream after the worker gave up on it, and the per-phase
  timeouts of httpx: `Land` comes before the failure or not at all.
* Redis losing writes of its last second (`appendfsync everysec`) or being restored; Redis
  is a linearizable store that may be unreachable.
* Stream entries that `enqueue_event()` did not write, XAUTOCLAIM's limit on the ids it inspects, an operator
  who deletes the group or the dead-letter stream or replays dead letters by hand (README.md:755-790).
  The service itself does none of this.
* Trimming of the dead-letter stream at `DLQ_MAXLEN`: `dlq` is what was ever parked.
* `depth()` on a trimmed stream, where a trimmed pending entry makes it report too little.
* Signatures, tokens, rate limiting, the handshake and `/health`: they look at one request and
  change nothing; a request they turn away is one Meta has not sent yet. A body that is not UTF-8 is
  answered 500 (main.py:102-103 catches another exception) and changes nothing either.
* Metrics and logging, which no decision of the code reads; the placeholder checks of `validate()`,
  after which the process does not start; the recording scripts under `docs/`.

## 6. Plan

Done: `Delivery`, `AtLeastOnce`, `Ingest`, `ClaimLease`, `QueueDepth`, `Normalizer`, `Webhook`, `Pipeline`, and the theorems
above: every safety property of the passing runs has one. Left, in order:

1. Proofs: the pipeline with the lifetimes of `ClaimLease`, so that its theorems need no `Timely` either.
2. `ClaimLease` further: a POST of several phases (httpx bounds each, not their sum).
3. `QueueDepth` on a stream that is trimmed.
