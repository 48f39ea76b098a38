---------------------------- MODULE MessageCache ----------------------------
(***************************************************************************)
(* A message cache shared by workers that call its methods in any order:   *)
(* the contract between lib/kafkajs/_consumer_cache.js and its callers in  *)
(* lib/kafkajs/_consumer.js.                                               *)
(***************************************************************************)
EXTENDS PartitionCache

(***************************************************************************)
(* A cache shared by workers.  held[w] is the PPC that worker w passes to  *)
(* its next call, taken[w] the messages it got with it, waiting the        *)
(* workers that await availablePartitions().  position[p] is the offset of *)
(* the next message that a fetch returns for p.                            *)
(***************************************************************************)
CONSTANTS BatchSizes,   \* the sizes passed to nextN: 1, n, or -1 for all
          MaxFetch      \* the number of messages of a partition in one fetch

ASSUME SizesAssumption == BatchSizes \subseteq Int \ {0}

ASSUME MaxFetchAssumption == MaxFetch \in Nat

VARIABLES cache, held, taken, waiting, position

vars == <<cache, held, taken, waiting, position>>

Refs == {held[w] : w \in Workers}

Init ==
  /\ cache = EmptyCache
  /\ held = [w \in Workers |-> NoPpc]
  /\ taken = [w \in Workers |-> << >>]
  /\ waiting = {}
  /\ position = [p \in Partitions |-> 0]

Fetched(p, k) == [i \in 1..k |-> position[p] + i - 1]

\* addMessages is called with the result of a fetch: count[p] messages of p.
\* (That the sum of naturals is a natural is a conjunct, always true, because
\* a proof of it would need induction over a set.)
AddMessages(count, order) ==
  LET batch == [p \in Partitions |-> Fetched(p, count[p])]
      total == MapThenSumSet(LAMBDA p : count[p], Partitions)
  IN /\ total \in Nat
     /\ \A p \in Partitions : \A i \in 1..count[p] : batch[p][i] \in Offsets
     /\ Enumerates(order, NewKeys(cache, batch))
     /\ cache' = addMessages(cache, batch, order, total, Refs)
     /\ position' = [p \in Partitions |-> position[p] + count[p]]
     /\ waiting' = IF NotifiesOnAdd(order) THEN {} ELSE waiting
     /\ UNCHANGED <<held, taken>>

\* The worker is done with the messages it took and asks for more; on null it
\* waits when another worker holds a partition.
NextN(w, n) ==
  LET r == nextN(cache, held[w], n)
  IN /\ w \notin waiting
     /\ cache' = r.cache
     /\ held' = [held EXCEPT ![w] = IF r.ppc = NoPpc THEN @ ELSE r.ppc]
     /\ taken' = [taken EXCEPT ![w] = r.msgs]
     /\ waiting' = IF r.ppc = NoPpc /\ r.cache.assigned # {} THEN waiting \cup {w} ELSE waiting
     /\ UNCHANGED position

\* A worker that ends gives its PPC back.
Return(w) ==
  /\ w \notin waiting
  /\ held[w] # NoPpc
  /\ cache' = return(cache, held[w])
  /\ held' = [held EXCEPT ![w] = NoPpc]
  /\ taken' = [taken EXCEPT ![w] = << >>]
  /\ waiting' = IF NotifiesOnReturn(cache, held[w]) THEN {} ELSE waiting
  /\ UNCHANGED position

\* A worker gives back the messages it got, unprocessed, while it holds their PPC.
ReturnMessages(w) ==
  LET p == KeyOf(held[w])
  IN /\ taken[w] # << >>
     /\ held[w] # NoPpc
     /\ cache.isAssigned[held[w]]
     /\ cache' = returnMessages(cache, p, taken[w], Refs)
     /\ taken' = [taken EXCEPT ![w] = << >>]
     /\ waiting' = IF NotifiesOnReturnMessages(cache, p) THEN {} ELSE waiting
     /\ UNCHANGED <<held, position>>

\* A partition is dropped and its next fetch starts from offset o; a call with
\* several partitions is one such step for each.
MarkStale(p, o) ==
  /\ cache' = markStale(cache, p)
  /\ position' = [position EXCEPT ![p] = o]
  /\ UNCHANGED <<held, taken, waiting>>

Clear(o) ==
  /\ cache' = clear(cache)
  /\ position' = [p \in Partitions |-> o]
  /\ UNCHANGED <<held, taken, waiting>>

\* notifyAvailablePartitions called from outside: a waiting worker tries again.
Notify ==
  /\ waiting # {}
  /\ waiting' = {}
  /\ UNCHANGED <<cache, held, taken, position>>

Orders == UNION {[1..k -> Partitions] : k \in 0..Cardinality(Partitions)}

Next ==
  \/ \E count \in [Partitions -> 0..MaxFetch], order \in Orders : AddMessages(count, order)
  \/ \E w \in Workers, n \in BatchSizes : NextN(w, n)
  \/ \E w \in Workers : Return(w) \/ ReturnMessages(w)
  \/ \E p \in Partitions, o \in Offsets : MarkStale(p, o)
  \/ \E o \in Offsets : Clear(o)
  \/ Notify

Spec == Init /\ [][Next]_vars
-----------------------------------------------------------------------------
NoDuplicates(s) == \A i, j \in 1..Len(s) : s[i] = s[j] => i = j

Occurs(s, x) == \E i \in 1..Len(s) : s[i] = x

Mapped(c, x) == c.tpToPpc[KeyOf(x)] = x

ListsMatch(c) ==
  /\ \A p \in Partitions : c.tpToPpc[p] # NoPpc => KeyOf(c.tpToPpc[p]) = p
  /\ NoDuplicates(c.available)
  /\ \A x \in Ppcs :
       /\ Occurs(c.available, x) <=> Mapped(c, x) /\ ~c.isAssigned[x]
       /\ x \in c.assigned <=> c.isAssigned[x]
       /\ c.isAssigned[x] => Mapped(c, x)

\* Every variable has its type: in particular the cache object, whose lists
\* hold PPCs only.
TypeOK ==
  /\ cache \in Cache
  /\ held \in [Workers -> PpcOrNull]
  /\ taken \in [Workers -> Seq(Offsets)]
  /\ waiting \subseteq Workers
  /\ position \in [Partitions -> Nat]

\* The map, the two lists and the _assigned flags tell the same story: a PPC is
\* in the available list, once, iff it is the PPC of its key and not assigned,
\* and in the assigned list iff it is the PPC of its key and assigned.  Every
\* method moves a PPC between the lists with its own bookkeeping
\* (_consumer_cache.js:108-128, 171-187, 222-231).
ListsMatchMap == ListsMatch(cache)

\* Per-partition ordering rests on this: two workers never hold live PPCs of
\* one partition, however the calls of markStale, clear, return and next
\* interleave; an available PPC is in nobody's hands, so that a stale handle is
\* never live again; and every assigned PPC has a holder, or no message of its
\* partition would be consumed any more (_consumer_cache.js:239-240).
ExclusiveHolder ==
  /\ \A v, w \in Workers :
       /\ held[v] # NoPpc /\ held[w] # NoPpc
       /\ cache.isAssigned[held[v]] /\ cache.isAssigned[held[w]]
       /\ KeyOf(held[v]) = KeyOf(held[w])
       => v = w
  /\ \A w \in Workers : held[w] # NoPpc /\ Mapped(cache, held[w]) => cache.isAssigned[held[w]]
  /\ \A x \in cache.assigned : \E w \in Workers : held[w] = x

\* #size, which every method adjusts by hand, is the number of cached messages.
SizeIsSum == cache.size = MapThenSumSet(LAMBDA p : Len(Cached(cache, p)), Partitions)

\* The messages of p that its holder has taken and not given back.
InHand(p) ==
  IF \E w \in Workers : held[w] # NoPpc /\ KeyOf(held[w]) = p /\ cache.isAssigned[held[w]]
  THEN taken[CHOOSE w \in Workers : held[w] # NoPpc /\ KeyOf(held[w]) = p
                                     /\ cache.isAssigned[held[w]]]
  ELSE << >>

\* No message is lost, duplicated or reordered on its way through the cache:
\* what the holder of p took, followed by what is cached for p, is a gapless
\* run of offsets that ends where the next fetch starts.  returnMessages puts
\* messages back at the head (_consumer_cache.js:206-213).
GaplessUpToPosition ==
  \A p \in Partitions :
    LET run == InHand(p) \o Cached(cache, p)
    IN \A i \in 1..Len(run) : run[i] = position[p] - Len(run) + i - 1

\* A worker that awaits availablePartitions() is not forgotten: while any
\* worker waits there is no available partition it could take.
NoLostWakeup == waiting # {} => cache.available = << >>
=============================================================================
