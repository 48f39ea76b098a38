--------------------------- MODULE PartitionCache ---------------------------
(***************************************************************************)
(* The message cache of the promisified consumer                           *)
(* (lib/kafkajs/_consumer_cache.js): a PerPartitionMessageCache ("PPC") for *)
(* every partition with fetched messages, a list of the PPCs a worker may   *)
(* take (available) and a list of those that a worker holds (assigned).     *)
(*                                                                         *)
(* A PPC is an object with an identity: after markStale() or clear() a      *)
(* worker may still hold a PPC that the cache has dropped, while a new PPC  *)
(* exists for the same partition.  An object is modelled as <<p, t>>: the   *)
(* partition is its key, the tag tells apart the objects of one key.  Only  *)
(* objects that are still referenced need a tag of their own.               *)
(*                                                                         *)
(* This module defines the methods of the cache as operators on a cache     *)
(* value.  MessageCache.tla is the specification of a cache that workers    *)
(* share, Consumer.tla the consumer built on it.                            *)
(***************************************************************************)
EXTENDS Integers, Sequences, FiniteSets, FiniteSetsExt

CONSTANTS Partitions,   \* topic partitions (the keys of the cache)
          Workers,      \* the concurrent callers
          Tags,         \* names that tell apart PPC objects of one key
          Offsets,      \* message offsets
          NoPpc         \* null: no PerPartitionMessageCache

Ppcs == Partitions \X Tags

PpcOrNull == Ppcs \cup {NoPpc}

KeyOf(ppc) == ppc[1]

\* Every allocation finds a name: one key never has more live objects than
\* one per worker and one in the map.
ASSUME TagAssumption ==
  /\ NoPpc \notin Ppcs
  /\ \A h \in [Workers -> PpcOrNull], p \in Partitions :
       \E t \in Tags : \A w \in Workers : h[w] # <<p, t>>

ASSUME OffsetAssumption == Offsets \subseteq Nat

-----------------------------------------------------------------------------
(***************************************************************************)
(* The state of a MessageCache object.  tpToPpc is #tpToPpc (NoPpc for an  *)
(* absent key), messages and isAssigned are the fields of the PPC objects, *)
(* size is #size.  The order of the assigned list is never observed (only  *)
(* its length is), so it is a set.                                         *)
(***************************************************************************)
Cache == [tpToPpc    : [Partitions -> PpcOrNull],
          messages   : [Ppcs -> Seq(Offsets)],
          isAssigned : [Ppcs -> BOOLEAN],
          available  : Seq(Ppcs),
          assigned   : SUBSET Ppcs,
          size       : Int]

\* constructor, #reinit
EmptyCache == [tpToPpc    |-> [p \in Partitions |-> NoPpc],
               messages   |-> [x \in Ppcs |-> << >>],
               isAssigned |-> [x \in Ppcs |-> FALSE],
               available  |-> << >>,
               assigned   |-> {},
               size       |-> 0]

\* The messages the cache holds for partition p.
Cached(c, p) == IF c.tpToPpc[p] = NoPpc THEN << >> ELSE c.messages[c.tpToPpc[p]]

\* Mutant of Unlink: the node stays in the list, emptied.
UnlinkLeavesHole(s, x) == [i \in 1..Len(s) |-> IF s[i] = x THEN NoPpc ELSE s[i]]

\* LinkedList.remove of the node of x.
Unlink(s, x) ==
  IF \E i \in 1..Len(s) : s[i] = x
  THEN LET k == CHOOSE i \in 1..Len(s) : s[i] = x
       IN  [i \in 1..(Len(s) - 1) |-> IF i < k THEN s[i] ELSE s[i + 1]]
  ELSE s

\* new PerPartitionMessageCache(key): an object none of the refs denotes.
NewPpc(p, refs) == <<p, CHOOSE t \in Tags : <<p, t>> \notin refs>>

(***************************************************************************)
(* addMessages(messages) and #add.  batch[p] is the sequence of messages   *)
(* for p in the argument, order the partitions that get a new PPC, in the  *)
(* order of their first message.                                           *)
(***************************************************************************)
NewKeys(c, batch) == {p \in Partitions : batch[p] # << >> /\ c.tpToPpc[p] = NoPpc}

Enumerates(order, S) ==
  /\ \A i \in 1..Len(order) : order[i] \in S
  /\ \A p \in S : \E i \in 1..Len(order) : order[i] = p
  /\ \A i, j \in 1..Len(order) : order[i] = order[j] => i = j

TargetPpc(c, p, refs) == IF c.tpToPpc[p] = NoPpc THEN NewPpc(p, refs) ELSE c.tpToPpc[p]

addMessages(c, batch, order, total, refs) ==
  LET new == NewKeys(c, batch)
      created == {NewPpc(p, refs) : p \in new}
  IN [c EXCEPT
        !.tpToPpc    = [p \in Partitions |-> IF p \in new THEN NewPpc(p, refs) ELSE @[p]],
        !.messages   = [x \in Ppcs |->
                          IF x \in created THEN batch[KeyOf(x)]
                          ELSE IF c.tpToPpc[KeyOf(x)] = x THEN @[x] \o batch[KeyOf(x)]
                          ELSE @[x]],
        !.isAssigned = [x \in Ppcs |-> IF x \in created THEN FALSE ELSE @[x]],
        !.available  = @ \o [i \in 1..Len(order) |-> NewPpc(order[i], refs)],
        !.size       = @ + total]

\* Mutants of returnMessages: the messages go to the tail; the size is not adjusted.
returnMessagesAtTail(c, p, ms, refs) ==
  LET x == TargetPpc(c, p, refs)
  IN [c EXCEPT !.messages[x] = @ \o ms, !.size = @ + Len(ms)]

returnMessagesUncounted(c, p, ms, refs) ==
  [c EXCEPT !.messages[TargetPpc(c, p, refs)] = ms \o @]

\* returnMessages(messages): the messages ms of partition p go back to the
\* head of its PPC, which is created if p has none.
returnMessages(c, p, ms, refs) ==
  LET isNew == c.tpToPpc[p] = NoPpc
      x == TargetPpc(c, p, refs)
  IN [c EXCEPT
        !.tpToPpc[p]    = x,
        !.messages[x]   = IF isNew THEN ms ELSE ms \o @,
        !.isAssigned[x] = IF isNew THEN FALSE ELSE @,
        !.available     = IF isNew THEN Append(@, x) ELSE @,
        !.size          = @ + Len(ms)]

\* markStale, for one of the topicPartitions it is given: the PPC of p leaves its
\* list and the map, and a worker that still holds it finds it not assigned.
\* (Nothing reads the messages of a dropped PPC, so the model lets go of them.)
markStale(c, p) ==
  LET ppc == c.tpToPpc[p]
  IN IF ppc = NoPpc THEN c
     ELSE [c EXCEPT !.size            = @ - Len(c.messages[ppc]),
                    !.assigned        = IF c.isAssigned[ppc] THEN @ \ {ppc} ELSE @,
                    !.available       = IF c.isAssigned[ppc] THEN @ ELSE Unlink(@, ppc),
                    !.tpToPpc[p]      = NoPpc,
                    !.isAssigned[ppc] = FALSE,
                    !.messages[ppc]   = << >>]

\* clear(): drops every PPC of the map.
clear(c) ==
  LET dropped == {x \in Ppcs : c.tpToPpc[KeyOf(x)] = x}
  IN [EmptyCache EXCEPT
        !.messages   = [x \in Ppcs |-> IF x \in dropped THEN << >> ELSE c.messages[x]],
        !.isAssigned = [x \in Ppcs |-> IF x \in dropped THEN FALSE ELSE c.isAssigned[x]]]

\* Mutant of return: a PPC that has been emptied is not given back.
returnUnlessEmpty(c, ppc) ==
  IF c.isAssigned[ppc] /\ c.messages[ppc] # << >>
  THEN [c EXCEPT !.assigned = @ \ {ppc}, !.available = Append(@, ppc), !.isAssigned[ppc] = FALSE]
  ELSE c

\* return(ppc): a held PPC goes to the end of the available list.
return(c, ppc) ==
  IF c.isAssigned[ppc]
  THEN [c EXCEPT !.assigned = @ \ {ppc},
                 !.available = Append(@, ppc),
                 !.isAssigned[ppc] = FALSE]
  ELSE c

\* Mutant of removeEmptyPartitions: the key stays in the map.
removeEmptyKeepsKey(c, S) ==
  [c EXCEPT !.isAssigned = [x \in Ppcs |-> IF x \in S THEN FALSE ELSE @[x]],
            !.assigned   = @ \ S]

\* #removeEmptyPartition, for all PPCs of S.
removeEmptyPartitions(c, S) ==
  [c EXCEPT !.tpToPpc    = [p \in Partitions |-> IF \E x \in S : KeyOf(x) = p THEN NoPpc ELSE @[p]],
            !.isAssigned = [x \in Ppcs |-> IF x \in S THEN FALSE ELSE @[x]],
            !.assigned   = @ \ S]

\* Mutant of assignNewPartition: the PPC stays in the available list.
assignStillAvailable(c, i) ==
  [c EXCEPT !.available = SubSeq(@, i, Len(@)),
            !.assigned = @ \cup {c.available[i]},
            !.isAssigned[c.available[i]] = TRUE]

\* #assignNewPartition: the i-th available PPC is the next one with messages;
\* the ones before it have been taken and found empty.
assignNewPartition(c, i) ==
  [c EXCEPT !.available = SubSeq(@, i + 1, Len(@)),
            !.assigned = @ \cup {c.available[i]},
            !.isAssigned[c.available[i]] = TRUE]

\* PerPartitionMessageCache._nextN: how many messages a call takes.
TakeCount(len, n) == IF n < 0 \/ len < n THEN len ELSE n

\* The messages handed to the caller, who now holds ppc.
TakeFrom(c, ppc, n) ==
  LET k == TakeCount(Len(c.messages[ppc]), n)
  IN [cache |-> [c EXCEPT !.messages[ppc] = SubSeq(@, k + 1, Len(@)), !.size = @ - k],
      ppc   |-> ppc,
      msgs  |-> SubSeq(c.messages[ppc], 1, k)]

(***************************************************************************)
(* nextN(ppc, n); next(ppc) is nextN(ppc, 1).  The recursion of the code   *)
(* skips, and removes, the empty PPCs at the head of the available list.   *)
(* A result with ppc = NoPpc is the code's null.                           *)
(***************************************************************************)
nextN(c, ppc, n) ==
  LET live  == ppc # NoPpc /\ c.isAssigned[ppc]
      full  == {i \in 1..Len(c.available) : c.messages[c.available[i]] # << >>}
      first == CHOOSE i \in full : \A j \in full : i <= j
      last  == IF full = {} THEN Len(c.available) ELSE first - 1
      drained == {c.available[i] : i \in 1..last} \cup (IF live THEN {ppc} ELSE {})
      rest == removeEmptyPartitions(c, drained)
  IN IF live /\ c.messages[ppc] # << >>
     THEN TakeFrom(c, ppc, n)
     ELSE IF full = {}
     THEN [cache |-> [rest EXCEPT !.available = << >>], ppc |-> NoPpc, msgs |-> << >>]
     ELSE TakeFrom(assignNewPartition(rest, first), c.available[first], n)

\* Whether a call put a PPC in the available list: the calls of
\* notifyAvailablePartitions in #add and in return.
NotifiesOnAdd(order) == order # << >>

NotifiesOnReturnMessages(c, p) == c.tpToPpc[p] = NoPpc

\* Mutant of NotifiesOnReturn: return does not notify.
NeverNotifies(c, ppc) == FALSE

NotifiesOnReturn(c, ppc) == c.isAssigned[ppc]

=============================================================================
