-------------------------- MODULE ConnectLifecycle --------------------------
(***************************************************************************)
(* connect() with its retries and disconnect(), for the promisified        *)
(* consumer (lib/kafkajs/_consumer.js) and the promisified producer        *)
(* (lib/kafkajs/_producer.js), on top of Client.connect and                *)
(* Client.disconnect (lib/client.js).  Every attempt builds a client of its *)
(* own; disconnect() may be called by several callers at any time.          *)
(***************************************************************************)
EXTENDS Naturals, Sequences

CONSTANTS IsProducer,   \* the producer, or the consumer
          Callers,      \* calls of disconnect()
          Retries,      \* retry.retries
          MaxConnects   \* calls of connect() that start an attempt (bound)

ASSUME LifecycleAssumption ==
  IsProducer \in BOOLEAN /\ Retries \in Nat /\ MaxConnects \in Nat

VARIABLES
  state,      \* ConsumerState or ProducerState
  conn,       \* #connectWithRetries: where it is, the attempt, whether it may retry
  promise,    \* #connectPromise is set
  abort,      \* #connectAbort: "none", "armed" or "resolved"
  clients,    \* the internal clients built so far, the last one current
  serdes,     \* the (de)serializers: "none", "open" or "closed"
  calls,      \* what each disconnect() awaits, or how it returned
  connects    \* calls of connect() left

vars == <<state, conn, promise, abort, clients, serdes, calls, connects>>

\* Native connection up, metadata pending; ready; closing (the callback of
\* Client.connect or Client.disconnect is pending or has been given up); closed.
Status == {"connecting", "up", "ready", "closing", "closed"}

Alive == {"connecting", "up", "ready"}

Init ==
  /\ state = "INIT"
  /\ conn = [pc |-> "idle", attempt |-> 0, retriable |-> FALSE]
  /\ promise = FALSE
  /\ abort = "none"
  /\ clients = << >>
  /\ serdes = "none"
  /\ calls = [c \in Callers |-> "none"]
  /\ connects = MaxConnects

Current == clients[Len(clients)]

Becomes(status) == clients' = [clients EXCEPT ![Len(clients)] = status]

At(label) == conn.pc = label

GoTo(label) == conn' = [conn EXCEPT !.pc = label]

\* #connectPromise settles, which ends every disconnect() that awaits it.
PromiseSettles(answer) ==
  /\ promise' = FALSE
  /\ abort' = "none"
  /\ GoTo("idle")
  /\ calls' = [c \in Callers |-> IF calls[c] = "aborting" THEN answer ELSE calls[c]]

-----------------------------------------------------------------------------
(***************************************************************************)
(* connect().  A call while the promise is set shares it and one in another *)
(* state than INIT throws: neither changes anything.                        *)
(***************************************************************************)
Connect ==
  /\ ~promise /\ state = "INIT" /\ connects > 0
  /\ connects' = connects - 1
  /\ promise' = TRUE
  /\ GoTo("config")
  /\ UNCHANGED <<state, abort, clients, serdes, calls>>

\* #config built the serdes.
Configured ==
  /\ At("config")
  /\ serdes' = "open"
  /\ state' = "CONNECTING"
  /\ abort' = "armed"
  /\ conn' = [conn EXCEPT !.pc = "build", !.attempt = 0]
  /\ UNCHANGED <<promise, clients, calls, connects>>

\* A builder, or #setSerdeClusterIdResolver, threw: back in INIT, nothing left open.
ConfigThrows ==
  /\ At("config")
  /\ promise' = FALSE
  /\ GoTo("idle")
  /\ UNCHANGED <<state, abort, clients, serdes, calls, connects>>

\* #connectInternalClientOnce, up to Client.connect.
BuildsClient ==
  /\ At("build")
  /\ state' = "CONNECTING"
  /\ clients' = Append(clients, "connecting")
  /\ GoTo("native")
  /\ UNCHANGED <<promise, abort, serdes, calls, connects>>

\* The constructor of the client threw.
BuildThrows ==
  /\ At("build")
  /\ state' = "INIT"
  /\ serdes' = "closed"
  /\ PromiseSettles("early")
  /\ UNCHANGED <<clients, connects>>

-----------------------------------------------------------------------------
(***************************************************************************)
(* Client.connect: the native connect, then the metadata.                  *)
(***************************************************************************)
NativeConnected ==
  /\ At("native") /\ Current = "connecting"
  /\ Becomes("up")
  /\ UNCHANGED <<state, conn, promise, abort, serdes, calls, connects>>

MetadataReceived ==
  /\ At("native") /\ Current = "up"
  /\ Becomes("ready")
  /\ GoTo("connected")
  /\ UNCHANGED <<state, promise, abort, serdes, calls, connects>>

AttemptFails(retriable) == conn' = [conn EXCEPT !.pc = "teardown", !.retriable = retriable]

NativeFails(retriable) ==
  /\ At("native") /\ Current = "connecting"
  /\ Becomes("closed")
  /\ AttemptFails(retriable)
  /\ UNCHANGED <<state, promise, abort, serdes, calls, connects>>

\* fail() of a client that is up closes it first, for ten seconds at most.
MetadataFails ==
  /\ At("native") /\ Current = "up"
  /\ Becomes("closing")
  /\ UNCHANGED <<state, conn, promise, abort, serdes, calls, connects>>

FailCloses(retriable) ==
  /\ At("native") /\ Current = "closing"
  /\ Becomes("closed")
  /\ AttemptFails(retriable)
  /\ UNCHANGED <<state, promise, abort, serdes, calls, connects>>

FailTimesOut(retriable) ==
  /\ At("native") /\ Current = "closing"
  /\ AttemptFails(retriable)
  /\ UNCHANGED <<state, promise, abort, clients, serdes, calls, connects>>

-----------------------------------------------------------------------------
(***************************************************************************)
(* The rest of an attempt in #connectWithRetries.                          *)
(***************************************************************************)
Succeeds ==
  /\ state' = "CONNECTED"
  /\ PromiseSettles("returned")

\* Mutant of Connected: the client is kept though disconnect() has been called.
ConnectedAnyway ==
  /\ At("connected") /\ ~IsProducer
  /\ Succeeds
  /\ UNCHANGED <<clients, serdes, connects>>

\* #onConnected of the consumer is synchronous.
Connected ==
  /\ At("connected") /\ ~IsProducer /\ abort = "armed"
  /\ Succeeds
  /\ UNCHANGED <<clients, serdes, connects>>

\* #onConnected of the producer awaits its configuration and, with a
\* transactional.id, initTransactions.
StartsSetup ==
  /\ At("connected") /\ IsProducer /\ abort = "armed"
  /\ state' \in {"CONNECTING", "INITIALIZING_TRANSACTIONS"}
  /\ GoTo("setup")
  /\ UNCHANGED <<promise, abort, clients, serdes, calls, connects>>

SetUp ==
  /\ At("setup")
  /\ state' = "CONNECTED"
  /\ GoTo("check")
  /\ UNCHANGED <<promise, abort, clients, serdes, calls, connects>>

SetupFails(retriable) ==
  /\ At("setup") /\ state = "INITIALIZING_TRANSACTIONS"
  /\ AttemptFails(retriable)
  /\ UNCHANGED <<state, promise, abort, clients, serdes, calls, connects>>


\* "A successful attempt that was not aborted is the only success path."
Checks ==
  /\ At("check")
  /\ IF abort = "armed" THEN Succeeds
     ELSE GoTo("teardown") /\ UNCHANGED <<state, promise, abort, calls>>
  /\ UNCHANGED <<clients, serdes, connects>>

\* disconnect() came first: the late success is torn down.
ConnectedTooLate ==
  /\ At("connected") /\ abort = "resolved"
  /\ GoTo("teardown")
  /\ UNCHANGED <<state, promise, abort, clients, serdes, calls, connects>>

\* Mutant of Teardown: a client that is ready is not closed.
TeardownDetachesOnly ==
  /\ At("teardown")
  /\ GoTo("decide")
  /\ UNCHANGED <<state, promise, abort, clients, serdes, calls, connects>>

\* #teardownFailedClient: a client that is ready is disconnected, and that awaited.
Teardown ==
  /\ At("teardown")
  /\ IF Current = "ready"
     THEN Becomes("closing") /\ GoTo("tearing")
     ELSE UNCHANGED clients /\ GoTo("decide")
  /\ UNCHANGED <<state, promise, abort, serdes, calls, connects>>

TornDown ==
  /\ At("tearing")
  /\ Becomes("closed")
  /\ GoTo("decide")
  /\ UNCHANGED <<state, promise, abort, serdes, calls, connects>>

\* Mutant: one retry too many.
OneMore == conn.attempt > Retries \/ ~conn.retriable

RetriesExhausted == conn.attempt >= Retries \/ ~conn.retriable

\* #throwIfConnectAborted, then the decision to retry.
Decides ==
  /\ At("decide")
  /\ IF abort = "resolved" \/ RetriesExhausted
     THEN state' = "DISCONNECTED" /\ GoTo("settle")
     ELSE UNCHANGED state /\ GoTo("backoff")
  /\ UNCHANGED <<promise, abort, clients, serdes, calls, connects>>

\* Mutant of BackoffEnds: the attempt is not counted.
BackoffForgetsAttempt ==
  /\ At("backoff")
  /\ IF abort = "resolved"
     THEN state' = "DISCONNECTED" /\ GoTo("settle")
     ELSE UNCHANGED state /\ GoTo("build")
  /\ UNCHANGED <<promise, abort, clients, serdes, calls, connects>>

\* Mutant of BackoffEnds: the timer does not end the wait.
BackoffEndsByAbort ==
  /\ At("backoff") /\ abort = "resolved"
  /\ state' = "DISCONNECTED" /\ GoTo("settle")
  /\ UNCHANGED <<promise, abort, clients, serdes, calls, connects>>

\* The wait ends by the timer or by the abort, which is checked again.
BackoffEnds ==
  /\ At("backoff")
  /\ IF abort = "resolved"
     THEN state' = "DISCONNECTED" /\ GoTo("settle")
     ELSE UNCHANGED state /\ conn' = [conn EXCEPT !.pc = "build", !.attempt = @ + 1]
  /\ UNCHANGED <<promise, abort, clients, serdes, calls, connects>>

\* Mutant of Settles: the serdes stay open.
SettlesOnly ==
  /\ At("settle")
  /\ PromiseSettles("returned")
  /\ UNCHANGED <<state, clients, serdes, connects>>

\* The catch and finally clauses: the connect promise is rejected.
Settles ==
  /\ At("settle")
  /\ serdes' = "closed"
  /\ PromiseSettles("returned")
  /\ UNCHANGED <<state, clients, connects>>

\* A client whose fail() gave up waiting is closed in the end.
LateClose ==
  /\ \E i \in 1..Len(clients) :
       /\ clients[i] = "closing"
       /\ i < Len(clients) \/ ~(At("native") \/ At("tearing") \/ state = "DISCONNECTING")
       /\ clients' = [clients EXCEPT ![i] = "closed"]
  /\ UNCHANGED <<state, conn, promise, abort, serdes, calls, connects>>

-----------------------------------------------------------------------------
(***************************************************************************)
(* disconnect().                                                            *)
(***************************************************************************)
Answer(c, label) == calls' = [calls EXCEPT ![c] = label]

\* Before CONNECTING there is nothing to do: "ignored" if a connect() is under way.
DisconnectInInit(c) ==
  /\ calls[c] = "none" /\ state = "INIT"
  /\ Answer(c, IF promise THEN "ignored" ELSE "early")
  /\ UNCHANGED <<state, conn, promise, abort, clients, serdes, connects>>

DisconnectWhileConnecting(c) ==
  /\ calls[c] = "none" /\ state # "INIT" /\ abort # "none"
  /\ abort' = "resolved"
  /\ Answer(c, "aborting")
  /\ UNCHANGED <<state, conn, promise, clients, serdes, connects>>

DisconnectAgain(c) ==
  /\ calls[c] = "none" /\ abort = "none"
  /\ state \in {"DISCONNECTING", "DISCONNECTED"}
  /\ Answer(c, "returned")
  /\ UNCHANGED <<state, conn, promise, abort, clients, serdes, connects>>

\* Mutant of ClientDisconnect: the state is left for the callback to change.
ClientDisconnectInState(c) ==
  /\ UNCHANGED state
  /\ IF Current = "closing"
     THEN Answer(c, "forgotten") /\ UNCHANGED clients
     ELSE Answer(c, "native") /\ Becomes("closing")

\* Client.disconnect; it drops the callback of a second call.
ClientDisconnect(c) ==
  /\ state' = "DISCONNECTING"
  /\ IF Current = "closing"
     THEN Answer(c, "forgotten") /\ UNCHANGED clients
     ELSE Answer(c, "native") /\ Becomes("closing")

\* The producer leaves CONNECTED at once; the consumer first waits for its lock.
Disconnect(c) ==
  /\ calls[c] = "none" /\ abort = "none" /\ state = "CONNECTED"
  /\ IF IsProducer THEN ClientDisconnect(c)
     ELSE Answer(c, "locking") /\ UNCHANGED <<state, clients>>
  /\ UNCHANGED <<conn, promise, abort, serdes, connects>>

DisconnectHasLock(c) ==
  /\ calls[c] = "locking"
  /\ ClientDisconnect(c)
  /\ UNCHANGED <<conn, promise, abort, serdes, connects>>

\* The callers that wait for the lock pass it in the same turn of the event
\* loop, so the native disconnect cannot end between them.
ClientDisconnected(c) ==
  /\ calls[c] = "native" /\ \A d \in Callers : calls[d] # "locking"
  /\ Becomes("closed")
  /\ state' = "DISCONNECTED"
  /\ Answer(c, "serdes")
  /\ UNCHANGED <<conn, promise, abort, serdes, connects>>

DisconnectReturns(c) ==
  /\ calls[c] = "serdes"
  /\ serdes' = "closed"
  /\ Answer(c, "returned")
  /\ UNCHANGED <<state, conn, promise, abort, clients, connects>>

-----------------------------------------------------------------------------
NativeClient ==
  \/ NativeConnected \/ MetadataReceived \/ MetadataFails \/ LateClose
  \/ \E r \in BOOLEAN : NativeFails(r) \/ FailCloses(r) \/ FailTimesOut(r)

ConnectStep ==
  \/ Configured \/ ConfigThrows \/ BuildsClient \/ BuildThrows
  \/ Connected \/ StartsSetup \/ SetUp \/ Checks \/ ConnectedTooLate
  \/ Teardown \/ TornDown \/ Decides \/ BackoffEnds \/ Settles
  \/ \E r \in BOOLEAN : SetupFails(r)

DisconnectCall(c) ==
  \/ DisconnectInInit(c) \/ DisconnectWhileConnecting(c)
  \/ DisconnectAgain(c) \/ Disconnect(c)

DisconnectStep(c) ==
  \/ DisconnectHasLock(c) \/ ClientDisconnected(c) \/ DisconnectReturns(c)

Next ==
  \/ Connect
  \/ NativeClient
  \/ ConnectStep
  \/ \E c \in Callers : DisconnectCall(c) \/ DisconnectStep(c)

Spec == Init /\ [][Next]_vars

\* Promises settle, timers fire, and native calls call back; users need not call.
FairSpec ==
  /\ Spec
  /\ WF_vars(NativeClient)
  /\ WF_vars(ConnectStep)
  /\ \A c \in Callers : WF_vars(DisconnectStep(c))

-----------------------------------------------------------------------------
(***************************************************************************)
(* Properties.                                                             *)
(***************************************************************************)
\* Every variable has its type; attempt, the counter of the loop of
\* #connectWithRetries, never passes retry.retries.
TypeOK ==
  /\ state \in {"INIT", "CONNECTING", "INITIALIZING_TRANSACTIONS", "CONNECTED",
               "DISCONNECTING", "DISCONNECTED"}
  /\ conn \in [pc : {"idle", "config", "build", "native", "connected", "setup",
                     "check", "teardown", "tearing", "decide", "backoff", "settle"},
               attempt : 0..Retries, retriable : BOOLEAN]
  /\ promise \in BOOLEAN
  /\ abort \in {"none", "armed", "resolved"}
  /\ clients \in Seq(Status)
  /\ serdes \in {"none", "open", "closed"}
  /\ calls \in [Callers -> {"none", "ignored", "early", "aborting", "locking",
                            "native", "serdes", "forgotten", "returned"}]
  /\ connects \in 0..MaxConnects

\* #teardownFailedClient: no client but the current one is ever alive, so an
\* attempt cannot leave a connected client behind (a second one with the same
\* transactional.id, or a member of the group nobody polls).
OneLiveClient == \A i \in 1..(Len(clients) - 1) : clients[i] \notin Alive

\* disconnect() that was called when a connect was under way or done returns
\* only when the instance can no longer get, or keep, a connection: the client
\* is closed or closing, and neither an attempt nor a retry is still to come.
DisconnectedForGood ==
  (\E c \in Callers : calls[c] = "returned") =>
    /\ \A i \in 1..Len(clients) : clients[i] \notin Alive
    /\ state \in {"DISCONNECTING", "DISCONNECTED"}
    /\ ~promise

\* The serializers a connect() built are closed once the instance is
\* disconnected and nothing is left to run, and never while the client is ready.
SerdesFollowClient ==
  /\ (state = "DISCONNECTED" /\ ~promise /\ \A c \in Callers : calls[c] # "serdes")
       => serdes = "closed"
  /\ (\E i \in 1..Len(clients) : clients[i] = "ready") => serdes = "open"

\* #connectWithRetries: a connect() builds at most one client more than
\* retry.retries says, whatever is aborted, times out or fails in between.
AttemptsBounded == Len(clients) <= MaxConnects * (Retries + 1)

\* disconnect(): "A promise that resolves when the consumer has disconnected."
DisconnectSettles ==
  \A c \in Callers : (calls[c] # "none") ~> (calls[c] \in {"early", "ignored", "returned"})

\* connect(): the shared promise is settled by a success, the last failure or an abort.
ConnectSettles == promise ~> ~promise

\* #connectWithRetries: "Teardown is awaited so we never build a new client
\* while the previous one is still closing."
NoneStillClosing == \A i \in 1..(Len(clients) - 1) : clients[i] = "closed"

\* disconnect() that returned while connect() was under way leaves no client connected.
DisconnectNotIgnored ==
  (\E c \in Callers : calls[c] = "ignored") => state # "CONNECTED"
=============================================================================
