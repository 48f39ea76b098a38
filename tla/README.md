# Verification of confluent-kafka-javascript

TLA+ specifications of the parts of the library in which concurrency is hard to
test: the consumer that hands messages to user code from concurrent workers, the
cache between it and librdkafka, and the life of a connection. Small instances are
checked with TLC; the core is proved with TLAPS for every instance.

## The system

| Part | Code | Kind |
| --- | --- | --- |
| Promisified consumer | `lib/kafkajs/_consumer.js` | async state machine: workers, fetches, pending operations, rebalances |
| Message cache, linked list | `lib/kafkajs/_consumer_cache.js`, `_linked-list.js` | data structure shared by the workers |
| Promisified producer | `lib/kafkajs/_producer.js` | connection life cycle, transactions, send |
| Promisified admin | `lib/kafkajs/_admin.js`, `lib/admin.js` | life cycle, single requests |
| Common helpers | `lib/kafkajs/_common.js` | readers-writer lock, deferred promise, serializers, configuration |
| Callback clients | `lib/client.js`, `kafka-consumer.js`, `producer.js` | wrappers of the native handles, connect and disconnect |
| High-level producer | `lib/producer/high-level-producer.js`, `lib/tools/ref-counter.js` | asynchronous serializers, delivery callbacks |
| Streams | `lib/kafka-consumer-stream.js`, `producer-stream.js` | Node streams over the callback clients |
| Native binding | `src/*.cc` | worker threads, event dispatch, connection locks |
| Schema registry client | `schemaregistry/*.ts` | caches under mutexes, retries, tokens |
| Serdes, rules, encryption | `schemaregistry/serde`, `schemaregistry/rules` | pipelines over library encoders |

The native client delivers batches of messages and rebalance events. The
consumer puts the messages into the cache, its workers take them out and call
`eachMessage` or `eachBatch`. `seek`, `pause`, `resume`, a revocation and the
expiry of the cache are *pending operations*: they stop all the workers, run alone,
and the workers start again. The lock serializes `run` and `disconnect`. Both
clients connect with retries, and `disconnect` may abort them.

JavaScript runs one callback at a time. What happens between two awaits is one
action; the continuations of different async functions interleave in every order.

## Modules

- **PartitionCache** defines every method of `MessageCache` as an operator on a
  cache value. A per-partition object (PPC) is a pair of its key and a tag, because a
  worker may hold a PPC that was dropped while a new one exists for its partition.
- **MessageCache** is the cache with workers that call it in any order, while
  partitions are dropped and fetched again.
- **Consumer** is the consume engine over PartitionCache. `sync` holds the promises
  and the control of the workers, `hands` what they hold, `book` the maps
  (`#lastConsumedOffsets`, `#pendingSeeks`, `#pausedPartitions`, open batches), `loop`
  the state of `#runInternal`, of the expiry loop and of the rebalance callback, `native`
  the internal client. `ghost` is read by properties only: the first offset
  of a partition that the user has not processed since choosing a position.
- **ConnectLifecycle** is `connect` with retries and `disconnect` by several callers, for
  the consumer and (`IsProducer`) the producer, with `Client.connect`'s failure path.
- **Lock** is the readers-writer lock with its reentrant calls.
- **MessageCacheProofs** holds the theorems about MessageCache.
- **MC...** modules and `.cfg` files are the instances.

The native client is external: it returns any number of messages up to a bound,
may fail, and raises rebalance events whose callback runs before, while or after
the result of the fetch is handled.

## Runs

| Run | Instance | What it shows |
| --- | --- | --- |
| cache | 2 partitions, 2 workers, batch sizes 1 and all | lists, map, flags and size agree; one live holder for a partition; gapless messages; no forgotten waiter |
| each_message | 2 partitions, 2 workers, 2 user calls, 1 failing callback | no message skipped, one worker for a partition, pauses respected, the barrier reaches the workers |
| each_batch | the same with batches, 1 expiry, 1 commit error | partly resolved, stale and failed batches skip nothing and yield to a seek of the user |
| cooperative | incremental rebalances, 1 user seek | the rebalance callback races the fetch; partitions are given up only when unused |
| eager | up to 3 eager rebalances, deserializers, a disconnect | the same for the other protocol, also before `run` |
| liveness | fair scheduling, 1 user call | every pending operation runs and `disconnect` gets past the workers |
| connect_consumer, connect_producer | 2 `disconnect` calls, 2 retries, 2 `connect` calls | a disconnected client stays so, serializers follow it, attempts are bounded, no client is left behind, the producer's promises settle |
| lock | 3 stacks of 2 calls, nested in one mode | exclusion, no lost wake-up, every call is granted |
| skip_on_pause, commit_state_error, disconnect_twice | as small as shows it | the findings below |

**Bounds.** Two partitions and two workers are the least at which workers compete for
one partition while another is free; two messages for a partition are the least at
which a message can be skipped or reordered. Three tags name every object that two
workers and the map can refer to. Budgets (`MaxUserOps`, `MaxFailures`, `MaxExpiries`,
`MaxRebalances`, `MaxStateErrors`, `MaxConnects`, `Retries`) bound what the environment
does and are named in the modules. They are small: longer sequences of user
calls and rebalances are not explored, and a run combines only some of these events.
Symmetry over the workers is used in safety runs only.

**Fairness** is weak, on what the event loop and librdkafka do: continuations run,
timers fire, native calls call back, user callbacks return. Users, rebalances and
errors owe nothing. A user callback that never returns is outside the assumption, and
so is a native `disconnect` that never calls back.

**Deadlock** is not checked for ConnectLifecycle and Lock, where everything may
have been called and ended.

## Proofs

`MessageCacheProofs.CacheSafe` proves, for all sets of partitions, workers, offsets
and batch sizes,

    Spec => [](TypeOK /\ ListsMatchMap /\ ExclusiveHolder /\ NoLostWakeup)

from the assumptions named in PartitionCache and MessageCache: offsets are
naturals, batch sizes are non-zero integers, `null` is no PPC, and there are enough tags
for a new object always to have a name of its own (memory is never short of
addresses).

`ExclusiveHolder` alone says that two workers never hold live PPCs of one
partition. It is inductive only together with the other parts: the lists must
match the map, or `next` could hand out a PPC that is already held; an available PPC
must be in nobody's hands, or a stale handle would come alive again;
every variable must have its type. The conjunction is the inductive invariant. The
proof has a lemma for every method of the cache (what it preserves, and which PPCs
it drops, assigns or releases) and one for every action that calls it.

`AddMessages` has the conjunct `total \in Nat`, always true: that a sum over a set
is a natural number needs an induction the provers cannot do.

Only model-checked: `SizeIsSum` and `GaplessUpToPosition`; everything about
Consumer, ConnectLifecycle and Lock; all liveness, which is out of the prover's
reach.

## Findings

Shown by a run:

- **skip_on_pause.** A pause, or an expiry of the cache, drops the cached messages and
  seeks back only if the partition has a last consumed offset. Before the first one is
  recorded the dropped messages are never delivered (`_consumer.js:375, 2190`).
- **commit_state_error.** `#commitOffsetsUntilNoStateErr` does not reset `err`: after one
  `ERR__STATE` it loops for ever (`_consumer.js:2004-2013`).
- **disconnect_twice.** The second of two overlapping `disconnect()` calls of a consumer
  never settles (`_consumer.js:2489`, `client.js:401`).

Shown by changing a configuration, and not kept as runs:

- `AtLeastOnce` with `UserOps = {"seek"}`, `SeekOffsets = {0}`, `MaxFailures = 1`: the seek
  of a failed `eachMessage` is queued behind the user's and undoes it
  (`_consumer.js:1674`; `#batchProcessor` guards against this).
- `NoSeekPending` with `UserOps = {"pause"}`, `MaxRebalances = 1`: pausing a revoked
  partition leaves a seek for its next assignment (`_consumer.js:2188-2203`), though
  `INTRODUCTION.md:325` says that it has no effect.
- `NoneStillClosing` (consumer, `Retries = 1`): when `fail()` gives up waiting after ten
  seconds, the next client is built while the last one closes (`client.js:278`), against
  the comment at `_consumer.js:1460`.
- `DisconnectNotIgnored` (consumer): `disconnect()` while `connect()` builds the
  deserializers returns at once, and the consumer connects (`_consumer.js:1415, 2473`).
- Lock with `Nested <- ReadUnderWrite` breaks `Exclusion` and with `Nested <- Upgrade`
  breaks `NoLostWakeup` (`_common.js:991, 926`), though the comment at `_common.js:905-906`
  promises both. The consumer nests neither.

`NoMessageSkipped` **excuses** exactly three cases, tracked in `ghost.excused`: the messages
dropped as in skip_on_pause; a seek back to a last consumed offset that survived from
an earlier assignment (`#unassign` does not delete it) and is ahead of the position; the
late seek of a failed message. `AtLeastOnce` is the same property without excuses.

## Not modelled

In Consumer: the adaptive fetch size, leader epochs, logging, a user rebalance callback
that changes the assignment itself, an operation that throws, a native seek that fails
(it is logged as fatal, `_consumer.js:395`). In ConnectLifecycle: the length of backoffs.
Configuration conversion, errors and generated code have no state to check.
PROJECT.json lists every part with its status.

## Plan

1. ProducerTransactions: the transaction flag against overlapping and failing calls
   (`_producer.js:743-868`), `send` and its delivery reports.
2. CallbackClient, Streams, HighLevelProducer: several callers of `connect`, a full
   queue in `writev`, `close` while connecting, the polling counter.
3. Serdes and the cluster id resolver; the admin life cycle.
4. RegistryClient: caches under two mutexes, request fail-over, token refresh; rule
   execution; rotation of data keys.
5. Native binding: the event dispatcher and the consume workers.
6. PartitionDelivery, an abstract specification of what the user of one partition sees,
   with Consumer as its implementation.
7. Proofs: `GaplessUpToPosition`; `OneLiveClient` and `DisconnectedForGood`; `Exclusion` of Lock;
   the initial and step conditions of PartitionDelivery.

New runs take the place of older ones that ask a lesser question, so that the suite stays
short enough to be run as a whole.
