------------------------------ MODULE Consumer ------------------------------
(***************************************************************************)
(* The consume engine of the promisified consumer (lib/kafkajs/_consumer.js) *)
(* on top of the message cache: run() spawns workers that take messages     *)
(* from the cache, fetch when it is empty and call the user's eachMessage   *)
(* or eachBatch.  seek, pause, resume, a revocation and the expiry of the   *)
(* cache are pending operations: they end all the workers, run alone, and   *)
(* the workers are spawned again (the "barrier").                           *)
(*                                                                         *)
(* JavaScript runs one callback at a time, so what happens between two      *)
(* awaits is one action here, and the continuations of different async      *)
(* functions interleave in every order.  A promise that is resolved moves   *)
(* the functions that await it to their continuation.                       *)
(***************************************************************************)
EXTENDS PartitionCache, SequencesExt

CONSTANTS LogEnd,          \* offset after the last message of every partition
          EachBatch,       \* run({eachBatch}) instead of run({eachMessage})
          AutoResolve,     \* eachBatchAutoResolve
          AutoCommit,      \* enable.auto.commit
          Deserializers,   \* a key or a value deserializer is configured
          Eager,           \* rebalanceProtocol() = "EAGER"
          MaxBatchSize,    \* js.consumer.max.batch.size, -1 for unbounded
          MaxFetch,        \* messages in one fetch
          InitAssignment,  \* partitions owned when the model starts
          UserOps,         \* what the user calls: "seek", "pause", "resume", "disconnect"
          SeekOffsets,     \* where the user seeks to
          MaxUserOps, MaxFailures, MaxExpiries, MaxRebalances, MaxStateErrors  \* budgets

ASSUME ConsumerAssumption ==
  /\ Offsets = 0..(LogEnd - 1)
  /\ InitAssignment \subseteq Partitions
  /\ SeekOffsets \subseteq 0..LogEnd
  /\ MaxBatchSize \in Int \ {0}

NoOffset == -2     \* an absent entry of #lastConsumedOffsets or #pendingSeeks

Positions == 0..LogEnd

VARIABLES
  sync,     \* what the async functions synchronize on, and the workers' control
  hands,    \* each worker's PPC and the messages it took
  cache,    \* #messageCache
  book,     \* #lastConsumedOffsets, #pendingSeeks, #pausedPartitions, batch payloads
  loop,     \* #runInternal, #cacheExpirationLoop, the rebalance callback, disconnect
  native,   \* the internal client (external)
  ghost,    \* what the user is owed; read by properties only
  budget    \* bounds of the model

vars == <<sync, hands, cache, book, loop, native, ghost, budget>>

-----------------------------------------------------------------------------
(***************************************************************************)
(* Synchronization.  sync.terminated is #workerTerminationScheduled's      *)
(* resolved flag, sync.fetching whether #fetchInProgress is set,           *)
(* sync.nonEmpty whether #nonEmpty is, sync.callbacks the calls of         *)
(* #queueNonEmptyCb that await the fetch or are about to continue after it.*)
(***************************************************************************)
Wake(s, waits) ==
  [s EXCEPT !.pc = [w \in Workers |-> IF @[w] \in waits THEN "loop" ELSE @[w]]]

notifyNonEmpty(s) == Wake([s EXCEPT !.nonEmpty = FALSE], {"waitNonEmpty", "waitAvailable"})

queueNonEmptyCb(s) ==
  IF s.fetching THEN [s EXCEPT !.callbacks = @ \cup {"awaitFetch"}] ELSE notifyNonEmpty(s)

\* Mutant: the workers that wait are not woken.
resolveWithoutWaking(s) == [s EXCEPT !.terminated = TRUE]

resolveWorkerTerminationScheduled(s) == queueNonEmptyCb([s EXCEPT !.terminated = TRUE])

\* Mutant: the operation is queued, and nobody is told.
addOperationSilently(s, op) == [s EXCEPT !.pendingOperations = Append(@, op)]

addPendingOperation(s, op) ==
  LET t == IF s.pendingOperations = << >> THEN resolveWorkerTerminationScheduled(s) ELSE s
  IN [t EXCEPT !.pendingOperations = Append(@, op)]

\* #fetchInProgress.resolve()
FetchDone(s) ==
  Wake([s EXCEPT !.fetching = FALSE,
                 !.callbacks = {"ready" : c \in @}],
       {"waitFetch"})

SeekOp(p, o, user, late) ==
  [op |-> "seek", tps |-> {p}, offset |-> o, user |-> user, late |-> late]

Op(kind, tps) == [op |-> kind, tps |-> tps, offset |-> 0, user |-> TRUE, late |-> FALSE]

\* A seek of p that the user asked for is waiting.
UserSeekPending(p) ==
  \E i \in 1..Len(sync.pendingOperations) :
    LET op == sync.pendingOperations[i] IN op.op = "seek" /\ op.user /\ p \in op.tps

-----------------------------------------------------------------------------
ClosedPayload == [open |-> FALSE, stale |-> FALSE, seeked |-> FALSE, resolved |-> -1]

OpenPayload == [ClosedPayload EXCEPT !.open = TRUE]

\* #markBatchPayloadsStale
markBatchPayloadsStale(payloads, S, isSeek) ==
  [p \in Partitions |->
     IF p \in S /\ payloads[p].open
     THEN [payloads[p] EXCEPT !.stale = TRUE, !.seeked = @ \/ isSeek]
     ELSE payloads[p]]

markStaleAll(c, S) == FoldSet(LAMBDA p, d : markStale(d, p), c, S)

NoEvent == [kind |-> "none", tps |-> {}]

Init ==
  /\ sync = [pendingOperations |-> << >>, terminated |-> FALSE,
             fetching |-> FALSE, nonEmpty |-> FALSE, callbacks |-> {},
             pc |-> [w \in Workers |-> "idle"]]
  /\ hands = [ppc |-> [w \in Workers |-> NoPpc], msgs |-> [w \in Workers |-> << >>]]
  /\ cache = EmptyCache
  /\ book = [lastConsumed |-> [p \in Partitions |-> NoOffset],
             pendingSeeks |-> [p \in Partitions |-> NoOffset],
             paused |-> {},
             payload |-> [p \in Partitions |-> ClosedPayload],
             partitionCount |-> Cardinality(InitAssignment)]
  /\ loop = [run |-> IF InitAssignment = {} THEN "notRunning" ELSE "top",
             expiry |-> "off", rebalanceCb |-> "null", disconnecting |-> FALSE,
             stateErr |-> FALSE]
  /\ native = [assignment |-> InitAssignment, pos |-> [p \in Partitions |-> 0],
               paused |-> {}, revoking |-> {}, event |-> NoEvent,
               batch |-> [p \in Partitions |-> << >>], failed |-> FALSE]
  /\ ghost = [owed |-> [p \in Partitions |-> 0], excused |-> {}, outdated |-> {}]
  /\ budget = [user |-> MaxUserOps, failures |-> MaxFailures, expiries |-> MaxExpiries,
               rebalances |-> MaxRebalances, stateErrors |-> MaxStateErrors]

-----------------------------------------------------------------------------
(***************************************************************************)
(* The user's calls.  They only mark batch payloads and queue an operation. *)
(***************************************************************************)
Spend(kind) == budget[kind] > 0 /\ budget' = [budget EXCEPT ![kind] = @ - 1]

Connected == loop.run # "done"

Seek(p, o) ==
  /\ "seek" \in UserOps /\ Connected /\ Spend("user")
  /\ book' = [book EXCEPT !.payload = markBatchPayloadsStale(@, {p}, TRUE)]
  /\ sync' = addPendingOperation(sync, SeekOp(p, o, TRUE, FALSE))
  /\ UNCHANGED <<hands, cache, loop, native, ghost>>

Pause(S) ==
  /\ "pause" \in UserOps /\ Connected /\ Spend("user")
  /\ book' = [book EXCEPT !.payload = markBatchPayloadsStale(@, S, FALSE),
                          !.paused = @ \cup S]
  /\ sync' = addPendingOperation(sync, Op("pause", S))
  /\ UNCHANGED <<hands, cache, loop, native, ghost>>


Resume(S) ==
  /\ "resume" \in UserOps /\ Connected /\ Spend("user")
  /\ book' = [book EXCEPT !.paused = @ \ S]
  /\ sync' = addPendingOperation(sync, Op("resume", S))
  /\ UNCHANGED <<hands, cache, loop, native, ghost>>

\* disconnect() up to the write lock, which it gets when #runInternal ends.
Disconnect ==
  /\ "disconnect" \in UserOps /\ Connected /\ ~loop.disconnecting
  /\ loop' = [loop EXCEPT !.disconnecting = TRUE,
                          !.run = IF @ = "notRunning" THEN "done" ELSE @]
  /\ sync' = resolveWorkerTerminationScheduled(sync)
  /\ UNCHANGED <<hands, cache, book, native, ghost, budget>>

Run ==
  /\ loop.run = "notRunning"
  /\ loop' = [loop EXCEPT !.run = "top"]
  /\ UNCHANGED <<sync, hands, cache, book, native, ghost, budget>>

-----------------------------------------------------------------------------
(***************************************************************************)
(* #runInternal.  A worker that is not spawned is idle; #workers.length is *)
(* the number of those that are not.                                       *)
(***************************************************************************)
WorkersToSpawn(count) == Max({1, Min({Cardinality(Workers), count})})

SpawnedWorkers == Cardinality({w \in Workers : sync.pc[w] # "idle"})

RunTop ==
  /\ loop.run = "top"
  /\ \/ /\ loop.disconnecting
        /\ loop' = [loop EXCEPT !.run = "done"]
        /\ UNCHANGED sync
     \/ /\ ~loop.disconnecting /\ sync.pendingOperations # << >>
        /\ loop' = [loop EXCEPT !.run = "ops"]
        /\ sync' = [sync EXCEPT !.terminated = FALSE]
     \/ /\ ~loop.disconnecting /\ sync.pendingOperations = << >>
        /\ loop' = [loop EXCEPT !.run = "working", !.expiry = "on"]
        /\ \E S \in SUBSET Workers :
             /\ Cardinality(S) = WorkersToSpawn(book.partitionCount)
             /\ sync' = [sync EXCEPT !.terminated = FALSE,
                                     !.pc = [w \in Workers |-> IF w \in S THEN "loop" ELSE "idle"]]
  /\ UNCHANGED <<hands, cache, book, native, ghost, budget>>

\* The workers have settled and so has the expiration loop.
WorkersEnded ==
  /\ loop.run = "working" /\ loop.expiry = "off"
  /\ \A w \in Workers : sync.pc[w] \in {"idle", "exited"}
  /\ loop' = [loop EXCEPT !.run = "ops"]
  /\ UNCHANGED <<sync, hands, cache, book, native, ghost, budget>>

\* The loop of #executePendingOperations ends.
OperationsDone ==
  /\ loop.run = "ops" /\ sync.pendingOperations = << >>
  /\ loop' = [loop EXCEPT !.run = "top"]
  /\ UNCHANGED <<sync, hands, cache, book, native, ghost, budget>>

-----------------------------------------------------------------------------
(***************************************************************************)
(* #cacheExpirationLoop.  Time is left out: a timeout may fire whenever    *)
(* the loop awaits it.                                                     *)
(***************************************************************************)
ExpiryLoopEnds ==
  /\ loop.expiry = "on" /\ sync.terminated
  /\ loop' = [loop EXCEPT !.expiry = "off"]
  /\ UNCHANGED <<sync, hands, cache, book, native, ghost, budget>>

\* No fetch for a second: fetch again even if nothing came last time.
FetchTimeout ==
  /\ loop.expiry = "on" /\ ~sync.terminated
  /\ sync.nonEmpty \/ \E w \in Workers : sync.pc[w] = "waitAvailable"
  /\ sync' = notifyNonEmpty(sync)
  /\ UNCHANGED <<hands, cache, book, loop, native, ghost, budget>>

\* No fetch for the maximum poll interval.
CacheExpires ==
  /\ loop.expiry = "on" /\ ~sync.terminated /\ Spend("expiries")
  /\ sync' = addPendingOperation(sync, Op("clear", {}))
  /\ loop' = [loop EXCEPT !.expiry = "maxPoll"]
  /\ UNCHANGED <<hands, cache, book, native, ghost>>

\* #checkMaxPollIntervalNotExceeded returns, after the timeout or before it.
MaxPollChecked(exceeded) ==
  /\ loop.expiry = "maxPoll"
  /\ loop' = [loop EXCEPT !.expiry = "off"]
  /\ book' = IF exceeded
             THEN [book EXCEPT !.payload = markBatchPayloadsStale(@, native.assignment, FALSE)]
             ELSE book
  /\ UNCHANGED <<sync, hands, cache, native, ghost, budget>>

\* librdkafka's queue is not empty any more.
QueueNonEmpty ==
  /\ sync.nonEmpty \/ sync.fetching
  /\ sync' = queueNonEmptyCb(sync)
  /\ UNCHANGED <<hands, cache, book, loop, native, ghost, budget>>

\* #queueNonEmptyCb continues after the fetch it waited for.
NonEmptyCallback ==
  /\ "ready" \in sync.callbacks
  /\ sync' = notifyNonEmpty([sync EXCEPT !.callbacks = @ \ {"ready"}])
  /\ UNCHANGED <<hands, cache, book, loop, native, ghost, budget>>

-----------------------------------------------------------------------------
(***************************************************************************)
(* #worker: the loop, #consumeSingleCached or #consumeCachedN, and         *)
(* #fetchAndResolveWith.                                                   *)
(***************************************************************************)
BatchSize == IF EachBatch THEN MaxBatchSize ELSE 1

Refs == {hands.ppc[w] : w \in Workers}

PartitionOf(w) == KeyOf(hands.ppc[w])

\* The worker's local ppc and messages; a PPC that the cache has let go of is
\* never live again, so that null stands for it.
Holds(w, ppc, msgs) == [hands EXCEPT !.ppc[w] = ppc, !.msgs[w] = msgs]

GoTo(s, w, label) == [s EXCEPT !.pc[w] = label]

NotifyIf(cond, s) == IF cond THEN Wake(s, {"waitAvailable"}) ELSE s

WorkerEnds(w) ==
  LET ppc == hands.ppc[w]
  IN /\ sync.pc[w] = "loop" /\ sync.terminated
     /\ cache' = IF ppc = NoPpc THEN cache ELSE return(cache, ppc)
     /\ sync' = NotifyIf(ppc # NoPpc /\ NotifiesOnReturn(cache, ppc), GoTo(sync, w, "exited"))
     /\ hands' = Holds(w, NoPpc, << >>)
     /\ UNCHANGED <<book, loop, native, ghost, budget>>

\* nextN(ppc, size); on null the worker awaits another worker's partition, the
\* fetch in progress, or messages, or it fetches itself.
WorkerTakes(w) ==
  LET r == nextN(cache, hands.ppc[w], BatchSize)
  IN /\ sync.pc[w] = "loop" /\ ~sync.terminated
     /\ cache' = r.cache
     /\ hands' = Holds(w, r.ppc, r.msgs)
     /\ sync' = IF r.ppc # NoPpc THEN GoTo(sync, w, "got")
                ELSE IF r.cache.assigned # {} THEN GoTo(sync, w, "waitAvailable")
                ELSE IF sync.fetching THEN GoTo(sync, w, "waitFetch")
                ELSE IF sync.nonEmpty THEN GoTo(sync, w, "waitNonEmpty")
                ELSE GoTo([sync EXCEPT !.fetching = TRUE], w, "consuming")
     /\ UNCHANGED <<book, loop, native, ghost, budget>>

\* The internal client's consume(): count[p] messages of p.
\* Messages of a partition that is being revoked may have been queued before.
ConsumeReturns(w, count) ==
  /\ sync.pc[w] = "consuming"
  /\ \A p \in Partitions :
       /\ native.pos[p] + count[p] <= LogEnd
       /\ count[p] > 0 => p \in native.assignment \ native.paused
  /\ native' = [native EXCEPT
       !.batch = [p \in Partitions |-> [i \in 1..count[p] |-> native.pos[p] + i - 1]],
       !.pos = [p \in Partitions |-> @[p] + count[p]]]
  /\ sync' = GoTo(sync, w, "fetched")
  /\ UNCHANGED <<hands, cache, book, loop, ghost, budget>>

ConsumeFails(w) ==
  /\ sync.pc[w] = "consuming"
  /\ native' = [native EXCEPT !.failed = TRUE]
  /\ sync' = GoTo(sync, w, "fetched")
  /\ UNCHANGED <<hands, cache, book, loop, ghost, budget>>

Orders == UNION {[1..k -> Partitions] : k \in 0..Cardinality(Partitions)}

NoBatch == [p \in Partitions |-> << >>]

\* #fetchAndResolveWith continues: no rebalance callback is in progress any more.
FetchResolves(w, order) ==
  LET added == addMessages(cache, native.batch, order,
                           MapThenSumSet(LAMBDA p : Len(native.batch[p]), Partitions), Refs)
      r == nextN(added, NoPpc, BatchSize)
      idle == loop.rebalanceCb = "null" /\ r.cache.assigned = {}
  IN /\ sync.pc[w] = "fetched" /\ loop.rebalanceCb # "inProgress" /\ ~native.failed
     /\ Enumerates(order, NewKeys(cache, native.batch))
     /\ cache' = r.cache
     /\ hands' = Holds(w, r.ppc, r.msgs)
     /\ sync' = NotifyIf(NotifiesOnAdd(order),
                  [FetchDone(GoTo(sync, w, IF r.ppc = NoPpc THEN "loop" ELSE "got"))
                     EXCEPT !.nonEmpty = @ \/ idle])
     /\ loop' = [loop EXCEPT !.rebalanceCb = "null"]
     /\ native' = [native EXCEPT !.batch = NoBatch]
     /\ UNCHANGED <<book, ghost, budget>>

FetchThrows(w) ==
  /\ sync.pc[w] = "fetched" /\ loop.rebalanceCb # "inProgress" /\ native.failed
  /\ sync' = FetchDone(GoTo(sync, w, "loop"))
  /\ loop' = [loop EXCEPT !.rebalanceCb = "null"]
  /\ native' = [native EXCEPT !.failed = FALSE]
  /\ UNCHANGED <<hands, cache, book, ghost, budget>>

-----------------------------------------------------------------------------
(***************************************************************************)
(* Messages in hand: #returnMessages, #messageProcessor, #batchProcessor.  *)
(* ghost.owed[p] is the first offset of p that has not been processed since *)
(* the user last chose a position (or p was assigned); ghost.outdated the   *)
(* partitions with a last consumed offset from an earlier assignment.       *)
(***************************************************************************)
Processed(g, p, first, o) ==
  [g EXCEPT !.owed[p] = IF first <= @ THEN Max({@, o + 1}) ELSE @]

\* The offset is stored, which fails for a partition that is not owned, and
\* then recorded as the last consumed one.
LastConsumed(b, p, o) == IF p \in native.assignment THEN [b EXCEPT !.lastConsumed[p] = o] ELSE b

Fresh(g, p) == IF p \in native.assignment THEN [g EXCEPT !.outdated = @ \ {p}] ELSE g

GivesBack(w) ==
  LET p == PartitionOf(w)
      ms == hands.msgs[w]
  IN /\ sync.pc[w] = "got" /\ sync.pendingOperations # << >>
     /\ book' = IF book.lastConsumed[p] = NoOffset
                THEN [book EXCEPT !.lastConsumed[p] = ms[1] - 1] ELSE book
     /\ cache' = returnMessages(cache, p, ms, Refs)
     /\ sync' = NotifyIf(NotifiesOnReturnMessages(cache, p), GoTo(sync, w, "loop"))
     /\ hands' = Holds(w, hands.ppc[w], << >>)
     /\ UNCHANGED <<loop, native, ghost, budget>>

\* The callback is called, at once or after the deserializers; a batch payload
\* is registered just before.
Calls(w, label) ==
  /\ sync' = GoTo(sync, w, label)
  /\ book' = IF EachBatch /\ label = "processing"
             THEN [book EXCEPT !.payload[PartitionOf(w)] = OpenPayload] ELSE book
  /\ UNCHANGED <<hands, cache, loop, native, ghost, budget>>

StartsProcessing(w) ==
  /\ sync.pc[w] = "got" /\ sync.pendingOperations = << >>
  /\ Calls(w, IF Deserializers THEN "deserializing" ELSE "processing")

Deserialized(w) == sync.pc[w] = "deserializing" /\ Calls(w, "processing")

MessageProcessed(w) ==
  LET p == PartitionOf(w)
      o == hands.msgs[w][1]
  IN /\ ~EachBatch /\ sync.pc[w] = "processing"
     /\ book' = LastConsumed(book, p, o)
     /\ ghost' = Fresh(Processed(ghost, p, o, o), p)
     /\ sync' = GoTo(sync, w, "loop")
     /\ hands' = Holds(w, hands.ppc[w], << >>)
     /\ UNCHANGED <<cache, loop, native, budget>>

\* Mutant of RetryOffset: seeks after the failed message.
AfterFailed(o) == o + 1

\* The offset of the message itself.
RetryOffset(o) == o

\* eachMessage threw: the consumer seeks to the message itself.
MessageFails(w) ==
  LET p == PartitionOf(w)
      o == RetryOffset(hands.msgs[w][1])
  IN /\ ~EachBatch /\ sync.pc[w] = "processing" /\ Spend("failures")
     /\ sync' = addPendingOperation(GoTo(sync, w, "loop"), SeekOp(p, o, FALSE, UserSeekPending(p)))
     /\ hands' = Holds(w, hands.ppc[w], << >>)
     /\ UNCHANGED <<cache, book, loop, native, ghost>>

\* The user calls resolveOffset(o) in eachBatch.
ResolveOffset(w, o) ==
  LET p == PartitionOf(w)
      ms == hands.msgs[w]
  IN /\ EachBatch /\ sync.pc[w] = "processing"
     /\ o \in Range(ms) /\ o > book.payload[p].resolved
     /\ book' = LastConsumed([book EXCEPT !.payload[p].resolved = o], p, o)
     /\ ghost' = Fresh(Processed(ghost, p, ms[1], o), p)
     /\ UNCHANGED <<sync, hands, cache, loop, native, budget>>

\* Mutants: only the last message is fetched again; a seek of the user is not noticed.
RetryLast(ms, resolved) == ms[Len(ms)]


\* Where the messages of a batch that are not resolved start.
RetryFrom(ms, resolved) == IF resolved = -1 THEN ms[1] ELSE resolved + 1

NeedsRetry(payload, resolved, last) == ~payload.seeked /\ resolved # last

\* eachBatch returned or threw: what is not resolved is fetched again, unless
\* the user chose another position meanwhile.
BatchEnds(w, ok) ==
  LET p == PartitionOf(w)
      ms == hands.msgs[w]
      last == ms[Len(ms)]
      payload == book.payload[p]
      resolves == ok /\ AutoResolve /\ ~payload.stale /\ last > payload.resolved
      resolved == IF resolves THEN last ELSE payload.resolved
      closed == [book EXCEPT !.payload[p] = ClosedPayload]
      s == GoTo(sync, w, "loop")
  IN /\ EachBatch /\ sync.pc[w] = "processing"
     /\ IF ok THEN UNCHANGED budget ELSE Spend("failures")
     /\ book' = IF resolves THEN LastConsumed(closed, p, last) ELSE closed
     /\ ghost' = IF resolves THEN Fresh(Processed(ghost, p, ms[1], last), p) ELSE ghost
     /\ sync' = IF NeedsRetry(payload, resolved, last)
                THEN addPendingOperation(s, SeekOp(p, RetryFrom(ms, resolved), FALSE,
                                                   UserSeekPending(p)))
                ELSE s
     /\ hands' = Holds(w, hands.ppc[w], << >>)
     /\ UNCHANGED <<cache, loop, native>>

-----------------------------------------------------------------------------
(***************************************************************************)
(* Pending operations, run by #executePendingOperations with no worker.    *)
(* The seeks of an operation are merged with the answers of the internal   *)
(* client, which the operation awaits.                                     *)
(***************************************************************************)

\* Mutant: what was fetched before the seek stays cached.
SeekKeepsCache(c, S) == c

\* A partition that is seeked has nothing cached.
SeekedCache(c, S) == markStaleAll(c, S)

\* #seekInternal for the offsets tpo, after the cache became c and the client n.
\* ghost.excused are the partitions whose messages the code is known to skip
\* (README, findings): skips is what this operation adds.
seekInternal(tpo, c, n, user, skips) ==
  LET seeked == DOMAIN tpo \cap native.assignment
  IN /\ book' = [book EXCEPT
            !.lastConsumed = [p \in Partitions |-> IF p \in seeked THEN NoOffset ELSE @[p]],
            !.pendingSeeks = [p \in Partitions |-> IF p \in seeked THEN NoOffset
                                                   ELSE IF p \in DOMAIN tpo THEN tpo[p]
                                                   ELSE @[p]]]
     /\ cache' = SeekedCache(c, seeked)
     /\ native' = [n EXCEPT !.pos = [p \in Partitions |-> IF p \in seeked THEN tpo[p] ELSE @[p]]]
     /\ loop' = [loop EXCEPT !.run = IF seeked # {} /\ AutoCommit THEN "commit" ELSE @,
                             !.stateErr = FALSE]
     /\ ghost' = [owed     |-> [p \in Partitions |->
                                  IF user /\ p \in seeked THEN tpo[p] ELSE ghost.owed[p]],
                  excused  |-> {p \in ghost.excused :
                                  ~(p \in seeked /\ (user \/ tpo[p] <= ghost.owed[p]))} \cup skips,
                  outdated |-> ghost.outdated \ seeked]

\* The partitions of S with a last consumed offset go back to the one after it.
LastConsumedPositions(S) ==
  [p \in {q \in S : book.lastConsumed[q] # NoOffset} |-> book.lastConsumed[p] + 1]

\* Dropping the cached messages of p loses them when nothing of p was consumed,
\* or when its last consumed offset is from before it was assigned.
SkipsByReset(S) ==
  {p \in S \cap native.assignment :
     IF book.lastConsumed[p] = NoOffset
     THEN Cached(cache, p) # << >>
     ELSE p \in ghost.outdated /\ book.lastConsumed[p] + 1 > ghost.owed[p]}

unassignedCache(c, tps) == IF Eager THEN clear(c) ELSE markStaleAll(c, tps)

\* #unassign
unassign(tps) ==
  LET lost == IF Eager THEN native.assignment ELSE tps
  IN /\ native' = [native EXCEPT !.assignment = @ \ lost, !.revoking = {},
                                 !.paused = @ \ lost, !.event = NoEvent]
     /\ cache' = unassignedCache(cache, tps)
     /\ book' = [book EXCEPT !.partitionCount = IF Eager THEN 0 ELSE @ - Cardinality(tps)]

Operation(kind) ==
  /\ loop.run = "ops" /\ sync.pendingOperations # << >>
  /\ Head(sync.pendingOperations).op = kind
  /\ sync' = [sync EXCEPT !.pendingOperations = Tail(@)]
  /\ UNCHANGED <<hands, budget>>

SeekOperation ==
  LET op == Head(sync.pendingOperations)
      tpo == [p \in op.tps |-> op.offset]
  IN /\ Operation("seek")
     /\ seekInternal(tpo, cache, native, op.user,
                     {p \in op.tps : op.late /\ op.offset > ghost.owed[p]})

\* Mutant of PauseOperation: what was fetched before the pause stays cached.
PauseKeepsCache ==
  LET S == Head(sync.pendingOperations).tps
  IN /\ Operation("pause")
     /\ native' = [native EXCEPT !.paused = @ \cup (S \cap native.assignment)]
     /\ UNCHANGED <<cache, book, loop, ghost>>

\* #pauseInternal
PauseOperation ==
  LET S == Head(sync.pendingOperations).tps
  IN /\ Operation("pause")
     /\ seekInternal(LastConsumedPositions(S), markStaleAll(cache, S),
                     [native EXCEPT !.paused = @ \cup (S \cap native.assignment)],
                     FALSE, SkipsByReset(S))

\* #resumeInternal
ResumeOperation ==
  /\ Operation("resume")
  /\ native' = [native EXCEPT !.paused = @ \ Head(sync.pendingOperations).tps]
  /\ UNCHANGED <<cache, book, loop, ghost>>

\* #clearCacheAndResetPositions
ClearOperation ==
  /\ Operation("clear")
  /\ seekInternal(LastConsumedPositions(native.assignment), clear(cache), native,
                  FALSE, SkipsByReset(native.assignment))

UnassignOperation ==
  /\ Operation("unassign")
  /\ unassign(Head(sync.pendingOperations).tps)
  /\ UNCHANGED <<loop, ghost>>

\* #commitOffsetsUntilNoStateErr: one commitOffsets returns.  Its error is kept
\* by later rounds.
CommitReturns ==
  /\ loop.run = "commit"
  /\ loop' = [loop EXCEPT !.run = IF loop.stateErr THEN "commit" ELSE "ops"]
  /\ UNCHANGED <<sync, hands, cache, book, native, ghost, budget>>

CommitStateError ==
  /\ loop.run = "commit" /\ Spend("stateErrors")
  /\ loop' = [loop EXCEPT !.stateErr = TRUE]
  /\ UNCHANGED <<sync, hands, cache, book, native, ghost>>

-----------------------------------------------------------------------------
(***************************************************************************)
(* Rebalances.  The internal client reports one from within consume(), or   *)
(* when it is closed, and reports no other until it has been answered.  Its *)
(* callback reaches JavaScript through another queue than the result of     *)
(* consume(), so it may run before or after that result is used.            *)
(***************************************************************************)
Assignable ==
  IF Eager THEN (IF native.assignment = {} THEN (SUBSET Partitions) \ {{}} ELSE {})
  ELSE (SUBSET (Partitions \ native.assignment)) \ {{}}

Revocable == IF Eager THEN {native.assignment} \ {{}} ELSE (SUBSET native.assignment) \ {{}}

Quiet == native.event = NoEvent /\ native.revoking = {}

AssignEvent(tps) ==
  /\ Quiet /\ \E w \in Workers : sync.pc[w] = "consuming"
  /\ Spend("rebalances")
  /\ native' = [native EXCEPT !.event = [kind |-> "assign", tps |-> tps]]
  /\ UNCHANGED <<sync, hands, cache, book, loop, ghost>>

RevokeEvent(tps) ==
  /\ Quiet
  /\ (\E w \in Workers : sync.pc[w] = "consuming") \/ (loop.disconnecting /\ loop.run = "done")
  /\ Spend("rebalances")
  /\ native' = [native EXCEPT !.event = [kind |-> "revoke", tps |-> tps], !.revoking = tps]
  /\ UNCHANGED <<sync, hands, cache, book, loop, ghost>>

\* The trampoline of rebalance_cb, and #rebalanceCallback up to the user's callback.
RebalanceCallbackStarts ==
  /\ native.event # NoEvent /\ loop.rebalanceCb # "inProgress"
  /\ loop' = [loop EXCEPT !.rebalanceCb = "inProgress"]
  /\ UNCHANGED <<sync, hands, cache, book, native, ghost, budget>>

\* The end of #rebalanceCallback: the right number of workers is spawned.
RebalanceCallbackEnds(s, count) ==
  /\ loop' = [loop EXCEPT !.rebalanceCb = "resolved"]
  /\ sync' = IF WorkersToSpawn(count) # SpawnedWorkers
             THEN resolveWorkerTerminationScheduled(s) ELSE s
  /\ UNCHANGED <<hands, budget>>

\* Mutant: partitions assigned incrementally replace the others.
CountAssigned(tps) == Cardinality(tps)

CountAfterAssign(tps) ==
  IF Eager THEN Cardinality(tps) ELSE book.partitionCount + Cardinality(tps)

\* assignmentFn, with #assignAsPerSeekedOffsets: consumption starts at the
\* pending seek, if there is one, or at the committed offset.
Assign(committed) ==
  LET tps == native.event.tps
      start(p) == IF book.pendingSeeks[p] = NoOffset THEN committed ELSE book.pendingSeeks[p]
      count == CountAfterAssign(tps)
      At(f) == [p \in Partitions |-> IF p \in tps THEN start(p) ELSE f[p]]
  IN /\ loop.rebalanceCb = "inProgress" /\ native.event.kind = "assign"
     /\ native' = [native EXCEPT !.assignment = @ \cup tps, !.pos = At(@), !.event = NoEvent]
     /\ book' = [book EXCEPT !.partitionCount = count,
                             !.pendingSeeks = [p \in Partitions |-> IF p \in tps THEN NoOffset ELSE @[p]]]
     /\ ghost' = [ghost EXCEPT !.owed = At(@), !.excused = @ \ tps,
                               !.outdated = @ \cup {p \in tps : book.lastConsumed[p] # NoOffset}]
     /\ RebalanceCallbackEnds(sync, count)
     /\ UNCHANGED cache

\* Mutant: partitions are given up while their messages are processed.
AlwaysAtOnce == TRUE

UnassignsAtOnce == loop.disconnecting

\* unassignmentFn: a pending operation, or at once when the consumer disconnects.
Revoke ==
  LET tps == native.event.tps
  IN /\ loop.rebalanceCb = "inProgress" /\ native.event.kind = "revoke"
     /\ \/ /\ UnassignsAtOnce
           /\ unassign(tps)
           /\ RebalanceCallbackEnds(sync, book'.partitionCount)
        \/ /\ ~UnassignsAtOnce
           /\ native' = [native EXCEPT !.event = NoEvent]
           /\ RebalanceCallbackEnds(addPendingOperation(sync, Op("unassign", tps)),
                                    book.partitionCount)
           /\ UNCHANGED <<cache, book>>
     /\ UNCHANGED ghost

-----------------------------------------------------------------------------
\* At most MaxFetch messages in all.
Counts == {c \in [Partitions -> 0..MaxFetch] : MapThenSumSet(LAMBDA p : c[p], Partitions) <= MaxFetch}

Consumes(w) == ConsumeFails(w) \/ \E count \in Counts : ConsumeReturns(w, count)

Finishes(w) == MessageProcessed(w) \/ MessageFails(w) \/ \E ok \in BOOLEAN : BatchEnds(w, ok)

WorkerStep(w) ==
  \/ WorkerEnds(w) \/ WorkerTakes(w)
  \/ \E order \in Orders : FetchResolves(w, order)
  \/ FetchThrows(w)
  \/ GivesBack(w) \/ StartsProcessing(w) \/ Deserialized(w)

Operations ==
  \/ SeekOperation \/ PauseOperation \/ ResumeOperation \/ ClearOperation \/ UnassignOperation

RunStep == RunTop \/ WorkersEnded \/ OperationsDone \/ Operations

Rebalances ==
  \/ RebalanceCallbackStarts
  \/ \E o \in Positions : Assign(o)
  \/ Revoke

UserCalls ==
  \/ \E p \in Partitions, o \in SeekOffsets : Seek(p, o)
  \/ \E p \in Partitions : Pause({p}) \/ Resume({p})
  \/ Disconnect

\* After disconnect the engine is at rest.
AtRest == loop.run = "done" /\ UNCHANGED vars

Next ==
  \/ Run \/ UserCalls
  \/ RunStep \/ CommitReturns \/ CommitStateError
  \/ ExpiryLoopEnds \/ FetchTimeout \/ CacheExpires
  \/ \E exceeded \in BOOLEAN : MaxPollChecked(exceeded)
  \/ QueueNonEmpty \/ NonEmptyCallback
  \/ \E w \in Workers : WorkerStep(w) \/ Consumes(w) \/ Finishes(w)
  \/ \E w \in Workers, o \in Offsets : ResolveOffset(w, o)
  \/ \E tps \in Assignable : AssignEvent(tps)
  \/ \E tps \in Revocable : RevokeEvent(tps)
  \/ Rebalances
  \/ AtRest

Spec == Init /\ [][Next]_vars

\* Continuations run, consume() and commit() answer, the user's callbacks end
\* and timers fire.  Nothing obliges the user, a rebalance or an error.
Fairness ==
  /\ WF_vars(RunStep) /\ WF_vars(CommitReturns)
  /\ WF_vars(ExpiryLoopEnds) /\ WF_vars(FetchTimeout)
  /\ WF_vars(\E exceeded \in BOOLEAN : MaxPollChecked(exceeded))
  /\ WF_vars(NonEmptyCallback) /\ WF_vars(Rebalances)
  /\ \A w \in Workers : WF_vars(WorkerStep(w)) /\ WF_vars(Consumes(w)) /\ WF_vars(Finishes(w))

FairSpec == Spec /\ Fairness

-----------------------------------------------------------------------------
Delivering(w) == sync.pc[w] \in {"deserializing", "processing"}

Labels == {"idle", "loop", "exited", "got", "deserializing", "processing", "consuming",
           "fetched", "waitAvailable", "waitFetch", "waitNonEmpty"}

\* Every variable has its type; #partitionCount, by which #runInternal sizes its
\* workers, is the size of the native assignment.
TypeOK ==
  /\ sync.pc \in [Workers -> Labels]
  /\ sync.callbacks \subseteq {"awaitFetch", "ready"}
  /\ cache \in Cache
  /\ hands.ppc \in [Workers -> PpcOrNull] /\ hands.msgs \in [Workers -> Seq(Offsets)]
  /\ book.lastConsumed \in [Partitions -> {NoOffset, -1} \cup Offsets]
  /\ book.pendingSeeks \in [Partitions -> {NoOffset} \cup Positions]
  /\ book.partitionCount = Cardinality(native.assignment)
  /\ native.pos \in [Partitions -> Positions]
  /\ native.paused \subseteq native.assignment
  /\ ghost.owed \in [Partitions -> Positions]

\* At-least-once: a message is handed to the user only when every message of
\* its partition from the position the user chose, or was assigned, up to it
\* has been processed.  Fetches, messages given back for a pending operation,
\* failed messages, stale batches, pauses, expiries and rebalances in any order
\* never step over a message, the excused cases apart.
NoMessageSkipped ==
  \A w \in Workers : Delivering(w) =>
    hands.msgs[w][1] <= ghost.owed[PartitionOf(w)] \/ PartitionOf(w) \in ghost.excused

\* The messages of one partition are processed one after the other: two workers
\* never have messages of the same partition in their callbacks.
OneWorkerPerPartition ==
  \A v, w \in Workers :
    v # w /\ Delivering(v) /\ Delivering(w) => PartitionOf(v) # PartitionOf(w)

\* A revoked partition is given up only after its messages have been processed:
\* unless the consumer disconnects, messages in a callback are of an owned
\* partition (the unassign is a pending operation, _consumer.js:443-452).
ProcessesOnlyOwned ==
  \A w \in Workers : Delivering(w) => PartitionOf(w) \in native.assignment \/ loop.disconnecting

\* Once a pause has been applied no message of the partition reaches the user
\* until it is resumed, not even one that was fetched before the pause.
PausedNotDelivered ==
  \A w \in Workers : Delivering(w) => PartitionOf(w) \notin native.paused

\* The barrier is not missed: while operations are pending and workers run, the
\* workers have been told to end, and one that waits for a partition or for
\* messages is going to be woken.
BarrierReachesWorkers ==
  /\ loop.run = "working" /\ sync.pendingOperations # << >> => sync.terminated
  /\ \A w \in Workers :
       /\ sync.pc[w] = "waitFetch" => sync.fetching
       /\ sync.pc[w] \in {"waitAvailable", "waitNonEmpty"} /\ sync.terminated => sync.callbacks # {}

\* paused() tells what the internal client will have paused once the pending
\* operations have run.
PausedAfterOperations(S, op) ==
  IF op.op = "pause" THEN S \cup op.tps ELSE IF op.op = "resume" THEN S \ op.tps ELSE S



\* Every pending operation is executed, as seek, pause and resume promise, unless
\* the consumer disconnects.
OperationsRun ==
  sync.pendingOperations # << >> ~> (sync.pendingOperations = << >> \/ loop.disconnecting)

\* disconnect() gets the lock that run() holds: the workers and the pending
\* operations end.
DisconnectEnds == loop.disconnecting ~> loop.run = "done"

\* At-least-once without exception (_consumer.js:367-369, CHANGELOG.md:137).
AtLeastOnce ==
  \A w \in Workers : Delivering(w) => hands.msgs[w][1] <= ghost.owed[PartitionOf(w)]

\* Where no seek is asked for, none is pending: pausing a partition that is not
\* owned has no effect (INTRODUCTION.md:325).
NoSeekPending == \A p \in Partitions : book.pendingSeeks[p] = NoOffset

=============================================================================
