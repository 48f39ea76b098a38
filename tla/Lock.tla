-------------------------------- MODULE Lock --------------------------------
(***************************************************************************)
(* The reentrant readers-writer lock of lib/kafkajs/_common.js, which the  *)
(* consumer takes to stop its workers and to disconnect.                   *)
(*                                                                         *)
(* A stack is one asynchronous context: a call of read() or write() and    *)
(* the calls made inside its task, which share a store.  A call is a frame; *)
(* a task need not await the calls it makes, so the frames of a stack end   *)
(* in any order.                                                            *)
(***************************************************************************)
EXTENDS Integers

CONSTANTS Stacks,   \* asynchronous contexts that use the lock
          Frames,   \* the calls of one of them (bound)
          Nested    \* pairs <<m, n>>: a task under lock m calls the lock n

Modes == {"read", "write"}

ASSUME NestedAssumption == Nested \subseteq Modes \X Modes

VARIABLES
  readers,   \* #readers
  writers,   \* #writers
  store,     \* the AsyncLocalStorage store of every stack
  frame      \* its calls: mode and phase

vars == <<readers, writers, store, frame>>

Phases == {"unused", "waiting", "woken", "held", "ended"}

Init ==
  /\ readers = 0 /\ writers = 0
  /\ store = [s \in Stacks |-> [readers |-> 0, writers |-> 0]]
  /\ frame = [s \in Stacks |-> [f \in Frames |-> [mode |-> "read", phase |-> "unused"]]]

Is(s, f, phase) == frame[s][f].phase = phase

Holds(s, mode) == \E f \in Frames : Is(s, f, "held") /\ frame[s][f].mode = mode

\* A stack starts with one call; its tasks make the others.
MayCall(s, mode) ==
  \/ \A f \in Frames : Is(s, f, "unused")
  \/ \E outer \in Modes : Holds(s, outer) /\ <<outer, mode>> \in Nested

Puts(s, f, mode, phase) == frame' = [frame EXCEPT ![s][f] = [mode |-> mode, phase |-> phase]]

\* The rest of #acquireRead, at its loop.
AcquireRead(s, f) ==
  IF writers > 0
  THEN Puts(s, f, "read", "waiting") /\ UNCHANGED <<readers, store>>
  ELSE /\ readers' = readers + 1
       /\ store' = [store EXCEPT ![s].readers = @ + 1]
       /\ Puts(s, f, "read", "held")

\* Mutant of MustWait: a writer is let in while others read.
MustWaitForWriters(s) == writers - store[s].writers > 0

\* The readers and writers of other stacks.
MustWait(s) == readers - store[s].readers > 0 \/ writers - store[s].writers > 0

AcquireWrite(s, f) ==
  IF MustWait(s)
  THEN Puts(s, f, "write", "waiting") /\ UNCHANGED <<writers, store>>
  ELSE /\ writers' = writers + 1
       /\ store' = [store EXCEPT ![s].writers = @ + 1]
       /\ Puts(s, f, "write", "held")

\* Mutant of Read: a reentrant call is not counted.
ReadUncounted(s, f) ==
  /\ Is(s, f, "unused") /\ MayCall(s, "read")
  /\ IF store[s] = [readers |-> 0, writers |-> 0] THEN AcquireRead(s, f)
     ELSE Puts(s, f, "read", "held") /\ UNCHANGED <<readers, store>>
  /\ UNCHANGED writers

\* read(task): under a write lock of the same stack nothing is acquired.
Read(s, f) ==
  /\ Is(s, f, "unused") /\ MayCall(s, "read")
  /\ IF store[s].writers = 0 THEN AcquireRead(s, f)
     ELSE Puts(s, f, "read", "held") /\ UNCHANGED <<readers, store>>
  /\ UNCHANGED writers

Write(s, f) ==
  /\ Is(s, f, "unused") /\ MayCall(s, "write")
  /\ AcquireWrite(s, f)
  /\ UNCHANGED readers

\* A waiter whose promise was resolved goes round its loop again.
Retry(s, f) ==
  /\ Is(s, f, "woken")
  /\ \/ frame[s][f].mode = "read" /\ AcquireRead(s, f) /\ UNCHANGED writers
     \/ frame[s][f].mode = "write" /\ AcquireWrite(s, f) /\ UNCHANGED readers

\* Mutant of notifyZeroReadersAndWriters: only a release by the last writer wakes.
notifyAfterWriters(s, f) ==
  frame' = [t \in Stacks |-> [g \in Frames |->
              IF t = s /\ g = f THEN [frame[s][f] EXCEPT !.phase = "ended"]
              ELSE IF writers > 0 /\ readers' = 0 /\ writers' = 0 /\ Is(t, g, "waiting")
              THEN [frame[t][g] EXCEPT !.phase = "woken"]
              ELSE frame[t][g]]]

\* Frame f ends; with nobody left, the promise is resolved and replaced.
notifyZeroReadersAndWriters(s, f) ==
  frame' = [t \in Stacks |-> [g \in Frames |->
              IF t = s /\ g = f THEN [frame[s][f] EXCEPT !.phase = "ended"]
              ELSE IF readers' = 0 /\ writers' = 0 /\ Is(t, g, "waiting")
              THEN [frame[t][g] EXCEPT !.phase = "woken"]
              ELSE frame[t][g]]]

\* The task of a frame returned or threw: the finally clause releases.
ReleaseRead(s, f) ==
  /\ Is(s, f, "held") /\ frame[s][f].mode = "read"
  /\ readers' = readers - 1
  /\ store' = [store EXCEPT ![s].readers = @ - 1]
  /\ UNCHANGED writers
  /\ notifyZeroReadersAndWriters(s, f)

ReleaseWrite(s, f) ==
  /\ Is(s, f, "held") /\ frame[s][f].mode = "write"
  /\ writers' = writers - 1
  /\ store' = [store EXCEPT ![s].writers = @ - 1]
  /\ UNCHANGED readers
  /\ notifyZeroReadersAndWriters(s, f)

Next == \E s \in Stacks, f \in Frames :
  Read(s, f) \/ Write(s, f) \/ Retry(s, f) \/ ReleaseRead(s, f) \/ ReleaseWrite(s, f)

Spec == Init /\ [][Next]_vars

\* Continuations run and tasks end; nobody has to call.
FairSpec ==
  /\ Spec
  /\ \A s \in Stacks, f \in Frames :
       WF_vars(Retry(s, f)) /\ WF_vars(ReleaseRead(s, f)) /\ WF_vars(ReleaseWrite(s, f))

-----------------------------------------------------------------------------
\* Every variable has its type, and the counters are never negative.
TypeOK ==
  /\ readers \in Nat /\ writers \in Nat
  /\ store \in [Stacks -> [readers : Nat, writers : Nat]]
  /\ frame \in [Stacks -> [Frames -> [mode : Modes, phase : Phases]]]

\* The lock: while a task of one stack runs under write(), no task of another
\* stack runs, however the reentrant calls of both overlap and end.
Exclusion ==
  \A s, t \in Stacks : s # t /\ Holds(s, "write") => ~Holds(t, "write") /\ ~Holds(t, "read")

\* A call that waits has something to wait for: another stack holds the lock,
\* or its continuation is already scheduled.
NoLostWakeup ==
  \A s \in Stacks, f \in Frames :
    Is(s, f, "waiting") => \E t \in Stacks \ {s} : Holds(t, "read") \/ Holds(t, "write")

=============================================================================
