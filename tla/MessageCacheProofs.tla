------------------------- MODULE MessageCacheProofs -------------------------
(***************************************************************************)
(* Proofs about MessageCache, for any set of partitions, workers, offsets  *)
(* and batch sizes.  The lemmas say, for each method of the cache, that it *)
(* keeps the cache well formed (a value of type Cache whose lists match    *)
(* the map) and what it does to the PPCs in hand; the theorem combines     *)
(* them, one step per action.                                              *)
(***************************************************************************)
EXTENDS MessageCache, WellFoundedInduction, TLAPS

WellFormed(c) == c \in Cache /\ ListsMatch(c)

\* What LinkedList.remove leaves: the other elements, in a list without
\* duplicates.
LEMMA UnlinkProperties ==
  ASSUME NEW S, NEW s \in Seq(S), NEW x, NoDuplicates(s)
  PROVE  /\ Unlink(s, x) \in Seq(S)
         /\ NoDuplicates(Unlink(s, x))
         /\ \A y : Occurs(Unlink(s, x), y) <=> Occurs(s, y) /\ y # x
<1>1. CASE ~Occurs(s, x)
  BY <1>1 DEF Unlink, Occurs, NoDuplicates
<1>2. CASE Occurs(s, x)
  <2> DEFINE k == CHOOSE i \in 1..Len(s) : s[i] = x
             r == [i \in 1..(Len(s) - 1) |-> IF i < k THEN s[i] ELSE s[i + 1]]
  <2>1. k \in 1..Len(s) /\ s[k] = x
    BY <1>2 DEF Occurs
  <2>2. Unlink(s, x) = r
    BY <1>2 DEF Unlink, Occurs
  <2> HIDE DEF k
  <2>3. r \in Seq(S) /\ Len(r) = Len(s) - 1
    BY <2>1
  <2>4. NoDuplicates(r)
    BY <2>1, <2>3 DEF NoDuplicates
  <2>5. ASSUME NEW y PROVE Occurs(r, y) <=> Occurs(s, y) /\ y # x
    <3>1. ASSUME Occurs(r, y) PROVE Occurs(s, y) /\ y # x
      BY <2>1, <2>3, <3>1 DEF NoDuplicates, Occurs
    <3>2. ASSUME Occurs(s, y), y # x PROVE Occurs(r, y)
      <4>1. PICK j \in 1..Len(s) : s[j] = y
        BY <3>2 DEF Occurs
      <4>2. CASE j < k
        BY <4>1, <4>2, <2>1, <2>3 DEF Occurs
      <4>3. CASE j > k
        <5>1. j - 1 \in 1..Len(r) /\ r[j - 1] = y
          BY <4>1, <4>3, <2>1, <2>3
        <5> QED BY <5>1 DEF Occurs
      <4> QED BY <4>1, <4>2, <4>3, <2>1, <3>2
    <3> QED BY <3>1, <3>2
  <2> QED BY <2>2, <2>3, <2>4, <2>5
<1> QED BY <1>1, <1>2

\* What the concatenation of two lists holds.
LEMMA ConcatLists ==
  ASSUME NEW S, NEW s \in Seq(S), NEW t \in Seq(S)
  PROVE  /\ s \o t \in Seq(S)
         /\ \A x : Occurs(s \o t, x) <=> Occurs(s, x) \/ Occurs(t, x)
         /\ NoDuplicates(s) /\ NoDuplicates(t) /\ (\A x : ~(Occurs(s, x) /\ Occurs(t, x)))
              => NoDuplicates(s \o t)
<1>1. s \o t \in Seq(S) /\ Len(s \o t) = Len(s) + Len(t)
  OBVIOUS
<1>2. \A i \in 1..Len(s) : i \in 1..Len(s \o t) /\ (s \o t)[i] = s[i]
  OBVIOUS
<1>3. \A i \in 1..Len(t) : Len(s) + i \in 1..Len(s \o t) /\ (s \o t)[Len(s) + i] = t[i]
  OBVIOUS
<1>4. \A i \in 1..Len(s \o t) : i > Len(s) => i - Len(s) \in 1..Len(t) /\ (s \o t)[i] = t[i - Len(s)]
  OBVIOUS
<1>5. ASSUME NEW x PROVE Occurs(s \o t, x) <=> Occurs(s, x) \/ Occurs(t, x)
  <2>1. ASSUME Occurs(s \o t, x) PROVE Occurs(s, x) \/ Occurs(t, x)
    <3>1. PICK i \in 1..Len(s \o t) : (s \o t)[i] = x
      BY <2>1 DEF Occurs
    <3>2. CASE i \in 1..Len(s)
      BY <3>1, <3>2, <1>2 DEF Occurs
    <3>3. CASE i > Len(s)
      BY <3>1, <3>3, <1>4 DEF Occurs
    <3> QED BY <3>2, <3>3, <1>1
  <2>2. ASSUME Occurs(s, x) PROVE Occurs(s \o t, x)
    BY <2>2, <1>2 DEF Occurs
  <2>3. ASSUME Occurs(t, x) PROVE Occurs(s \o t, x)
    <3>1. PICK i \in 1..Len(t) : t[i] = x
      BY <2>3 DEF Occurs
    <3> QED BY <3>1, <1>3 DEF Occurs
  <2> QED BY <2>1, <2>2, <2>3
<1>6. ASSUME NoDuplicates(s), NoDuplicates(t), \A x : ~(Occurs(s, x) /\ Occurs(t, x))
      PROVE  NoDuplicates(s \o t)
  <2> SUFFICES ASSUME NEW i \in 1..Len(s \o t), NEW j \in 1..Len(s \o t), (s \o t)[i] = (s \o t)[j]
               PROVE  i = j
    BY DEF NoDuplicates
  <2>1. CASE i \in 1..Len(s) /\ j \in 1..Len(s)
    BY <2>1, <1>2, <1>6 DEF NoDuplicates
  <2>2. CASE i > Len(s) /\ j > Len(s)
    <3>1. i - Len(s) \in 1..Len(t) /\ j - Len(s) \in 1..Len(t) /\ t[i - Len(s)] = t[j - Len(s)]
      BY <2>2, <1>4
    <3>2. i - Len(s) = j - Len(s)
      BY <3>1, <1>6 DEF NoDuplicates
    <3> QED BY <3>2, <1>1
  <2>3. CASE i \in 1..Len(s) /\ j > Len(s)
    BY <2>3, <1>2, <1>4, <1>6 DEF Occurs
  <2>4. CASE i > Len(s) /\ j \in 1..Len(s)
    BY <2>4, <1>2, <1>4, <1>6 DEF Occurs
  <2> QED BY <2>1, <2>2, <2>3, <2>4, <1>1
<1> QED BY <1>1, <1>5, <1>6

\* A PPC of the model is a pair of its key and a tag, and null is none.
LEMMA PpcFacts ==
  /\ \A x \in Ppcs : KeyOf(x) \in Partitions /\ x # NoPpc
  /\ NoPpc \notin Ppcs
  BY TagAssumption DEF Ppcs, KeyOf

\* The constructor of MessageCache (#reinit) builds a well-formed cache.
LEMMA EmptyCacheWellFormed == WellFormed(EmptyCache)
<1>1. EmptyCache \in Cache
  <2>1. [p \in Partitions |-> NoPpc] \in [Partitions -> PpcOrNull]
    BY DEF PpcOrNull
  <2>2. [x \in Ppcs |-> << >>] \in [Ppcs -> Seq(Offsets)]
    OBVIOUS
  <2>3. << >> \in Seq(Ppcs)
    OBVIOUS
  <2> QED BY <2>1, <2>2, <2>3 DEF EmptyCache, Cache
<1>2. /\ EmptyCache.tpToPpc = [p \in Partitions |-> NoPpc]
      /\ EmptyCache.isAssigned = [x \in Ppcs |-> FALSE]
      /\ EmptyCache.available = << >>
      /\ EmptyCache.assigned = {}
  BY DEF EmptyCache
<1>3. \A x \in Ppcs : ~Occurs(<< >>, x)
  BY DEF Occurs
<1>4. NoDuplicates(<< >>)
  BY DEF NoDuplicates
<1>5. \A x \in Ppcs : ~Mapped(EmptyCache, x) /\ ~EmptyCache.isAssigned[x]
  BY <1>2, PpcFacts DEF Mapped
<1> QED BY <1>1, <1>2, <1>3, <1>4, <1>5 DEF WellFormed, ListsMatch

\* refs leaves a name for a new object of every key.
HasFreshNames(refs) == \A p \in Partitions : \E t \in Tags : <<p, t>> \notin refs

\* new PerPartitionMessageCache: the object is none of those a worker holds.
LEMMA NewPpcFresh ==
  ASSUME NEW refs, HasFreshNames(refs), NEW p \in Partitions
  PROVE  /\ NewPpc(p, refs) \in Ppcs
         /\ KeyOf(NewPpc(p, refs)) = p
         /\ NewPpc(p, refs) \notin refs
         /\ NewPpc(p, refs) # NoPpc
  BY TagAssumption DEF HasFreshNames, NewPpc, Ppcs, KeyOf

\* addMessages keeps the cache well formed, appends to the available list
\* exactly when it creates a PPC, and leaves the assigned PPCs alone.
LEMMA AddMessagesProperties ==
  ASSUME NEW c, WellFormed(c), NEW refs, HasFreshNames(refs),
         NEW batch \in [Partitions -> Seq(Offsets)],
         NEW order \in Seq(Partitions), Enumerates(order, NewKeys(c, batch)),
         NEW total \in Nat
  PROVE  LET d == addMessages(c, batch, order, total, refs)
         IN /\ WellFormed(d)
            /\ d.assigned = c.assigned
            /\ d.isAssigned = c.isAssigned
            /\ \A x \in refs : x \in Ppcs /\ Mapped(d, x) => Mapped(c, x)
            /\ order = << >> => d.available = c.available
<1> DEFINE d == addMessages(c, batch, order, total, refs)
           new == NewKeys(c, batch)
           created == {NewPpc(p, refs) : p \in new}
           extra == [i \in 1..Len(order) |-> NewPpc(order[i], refs)]
<1>1. /\ c \in Cache
      /\ ListsMatch(c)
  BY DEF WellFormed
<1>2. new \subseteq Partitions /\ \A p \in new : c.tpToPpc[p] = NoPpc
  BY DEF NewKeys
<1>3. \A p \in new : NewPpc(p, refs) \in Ppcs /\ KeyOf(NewPpc(p, refs)) = p
                     /\ NewPpc(p, refs) \notin refs /\ NewPpc(p, refs) # NoPpc
  BY <1>2, NewPpcFresh
<1>4. extra \in Seq(Ppcs) /\ Len(extra) = Len(order)
  BY <1>3 DEF Enumerates
<1>5. /\ d.tpToPpc = [p \in Partitions |-> IF p \in new THEN NewPpc(p, refs) ELSE c.tpToPpc[p]]
      /\ d.messages = [x \in Ppcs |->
                          IF x \in created THEN batch[KeyOf(x)]
                          ELSE IF c.tpToPpc[KeyOf(x)] = x THEN c.messages[x] \o batch[KeyOf(x)]
                          ELSE c.messages[x]]
      /\ d.isAssigned = [x \in Ppcs |-> IF x \in created THEN FALSE ELSE c.isAssigned[x]]
      /\ d.available = c.available \o extra
      /\ d.assigned = c.assigned
      /\ d.size = c.size + total
      /\ d = [tpToPpc |-> d.tpToPpc, messages |-> d.messages, isAssigned |-> d.isAssigned,
              available |-> d.available, assigned |-> d.assigned, size |-> d.size]
  <2> DEFINE T == [p \in Partitions |-> IF p \in new THEN NewPpc(p, refs) ELSE c.tpToPpc[p]]
             M == [x \in Ppcs |->
                     IF x \in created THEN batch[KeyOf(x)]
                     ELSE IF c.tpToPpc[KeyOf(x)] = x THEN c.messages[x] \o batch[KeyOf(x)]
                     ELSE c.messages[x]]
             A == [x \in Ppcs |-> IF x \in created THEN FALSE ELSE c.isAssigned[x]]
             V == c.available \o extra
  <2>1. d = [c EXCEPT !.tpToPpc = T, !.messages = M, !.isAssigned = A, !.available = V,
                      !.size = c.size + total]
    BY DEF addMessages
  <2> HIDE DEF T, M, A, V, d
  <2>2. d = [tpToPpc |-> T, messages |-> M, isAssigned |-> A, available |-> V,
             assigned |-> c.assigned, size |-> c.size + total]
    BY <1>1, <2>1 DEF Cache
  <2>3. /\ d.tpToPpc = T /\ d.messages = M /\ d.isAssigned = A /\ d.available = V
        /\ d.assigned = c.assigned /\ d.size = c.size + total
    BY <2>2
  <2>4. d = [tpToPpc |-> d.tpToPpc, messages |-> d.messages, isAssigned |-> d.isAssigned,
             available |-> d.available, assigned |-> d.assigned, size |-> d.size]
    BY <2>2, <2>3
  <2> QED BY <2>3, <2>4 DEF T, M, A, V
<1> HIDE DEF d
<1>6. d.isAssigned = c.isAssigned
  <2>1. c.isAssigned \in [Ppcs -> BOOLEAN]
    BY <1>1 DEF Cache
  <2>2. \A x \in created : x \in Ppcs /\ ~c.isAssigned[x]
    BY <1>1, <1>2, <1>3 DEF ListsMatch, Mapped
  <2>3. d.isAssigned = [x \in Ppcs |-> IF x \in created THEN FALSE ELSE c.isAssigned[x]]
    BY <1>5
  <2> HIDE DEF created
  <2>4. \A x \in Ppcs : (IF x \in created THEN FALSE ELSE c.isAssigned[x]) = c.isAssigned[x]
    BY <2>1, <2>2
  <2>5. d.isAssigned = [x \in Ppcs |-> c.isAssigned[x]]
    BY <2>3, <2>4
  <2> QED BY <2>1, <2>5
<1>7. d \in Cache
  <2>1. d.tpToPpc \in [Partitions -> PpcOrNull]
    BY <1>1, <1>3, <1>5 DEF Cache, PpcOrNull
  <2>2. d.messages \in [Ppcs -> Seq(Offsets)]
    <3>1. \A x \in Ppcs : c.messages[x] \in Seq(Offsets) /\ batch[KeyOf(x)] \in Seq(Offsets)
      BY <1>1, PpcFacts DEF Cache
    <3>2. \A x \in Ppcs : c.messages[x] \o batch[KeyOf(x)] \in Seq(Offsets)
      BY <3>1
    <3> HIDE DEF created
    <3> QED BY <3>1, <3>2, <1>5
  <2>3. d.available \in Seq(Ppcs)
    BY <1>1, <1>4, <1>5 DEF Cache
  <2>4. d.isAssigned \in [Ppcs -> BOOLEAN] /\ d.assigned \in SUBSET Ppcs /\ d.size \in Int
    <3>1. d.assigned = c.assigned /\ d.size = c.size + total
      BY <1>5
    <3> QED BY <1>1, <1>6, <3>1 DEF Cache
  <2> QED BY <1>5, <2>1, <2>2, <2>3, <2>4 DEF Cache
<1>8. \A x \in Ppcs : Mapped(d, x) <=> Mapped(c, x) \/ x \in created
  BY <1>1, <1>2, <1>3, <1>5, PpcFacts DEF Mapped
<1>9. \A x : Occurs(extra, x) <=> x \in created
  <2>1. \A i \in 1..Len(order) : order[i] \in new
    BY DEF Enumerates
  <2>2. \A p \in new : \E i \in 1..Len(order) : order[i] = p
    BY DEF Enumerates
  <2>3. ASSUME NEW x, Occurs(extra, x) PROVE x \in created
    BY <2>1, <2>3, <1>4 DEF Occurs
  <2>4. ASSUME NEW x \in created PROVE Occurs(extra, x)
    <3>1. PICK p \in new : x = NewPpc(p, refs)
      BY <2>4
    <3>2. PICK i \in 1..Len(order) : order[i] = p
      BY <2>2
    <3>3. i \in 1..Len(extra) /\ extra[i] = x
      BY <3>1, <3>2, <1>4
    <3> QED BY <3>3 DEF Occurs
  <2> QED BY <2>3, <2>4
<1>10. /\ \A x \in Ppcs : Occurs(d.available, x) <=> Occurs(c.available, x) \/ x \in created
       /\ NoDuplicates(d.available)
  <2>1. NoDuplicates(c.available) /\ c.available \in Seq(Ppcs)
    BY <1>1 DEF ListsMatch, Cache
  <2>2. NoDuplicates(extra)
    BY <1>3, <1>4 DEF NoDuplicates, Enumerates
  <2>3. \A x : Occurs(c.available, x) => x \in Ppcs /\ Mapped(c, x)
    BY <1>1, <2>1 DEF ListsMatch, Occurs
  <2>4. \A x : ~(Occurs(c.available, x) /\ Occurs(extra, x))
    <3>1. \A x \in created : KeyOf(x) \in new /\ x # NoPpc
      BY <1>3
    <3> QED BY <2>3, <3>1, <1>9, <1>2 DEF Mapped
  <2> HIDE DEF extra, created
  <2> QED BY <2>1, <2>2, <2>4, <1>4, <1>5, <1>9, ConcatLists
<1>11. ListsMatch(d)
  <2>1. \A p \in Partitions : d.tpToPpc[p] # NoPpc => KeyOf(d.tpToPpc[p]) = p
    BY <1>1, <1>3, <1>5 DEF ListsMatch
  <2>2. \A x \in created : ~c.isAssigned[x]
    BY <1>1, <1>2, <1>3 DEF ListsMatch, Mapped
  <2>3. created \subseteq Ppcs
    BY <1>3
  <2> QED BY <2>1, <2>2, <2>3, <1>1, <1>5, <1>6, <1>8, <1>10 DEF ListsMatch
<1>12. order = << >> => d.available = c.available
  BY <1>1, <1>5 DEF Cache
<1>13. \A x \in refs : x \in Ppcs /\ Mapped(d, x) => Mapped(c, x)
  BY <1>3, <1>8
<1> QED BY <1>5, <1>6, <1>7, <1>11, <1>12, <1>13 DEF WellFormed, d

\* A cache that agrees with a well-formed one on the map, the flags and the
\* lists is well formed.
LEMMA SameLists ==
  ASSUME NEW c, WellFormed(c), NEW d \in Cache,
         d.tpToPpc = c.tpToPpc, d.isAssigned = c.isAssigned,
         d.available = c.available, d.assigned = c.assigned
  PROVE  WellFormed(d)
  BY DEF WellFormed, ListsMatch, Mapped

\* returnMessages with a PPC in the map puts the messages at its head.
LEMMA ReturnMessagesProperties ==
  ASSUME NEW c, WellFormed(c), NEW refs, NEW p \in Partitions, c.tpToPpc[p] # NoPpc,
         NEW ms \in Seq(Offsets)
  PROVE  LET d == returnMessages(c, p, ms, refs)
         IN /\ WellFormed(d)
            /\ d.tpToPpc = c.tpToPpc /\ d.isAssigned = c.isAssigned
            /\ d.available = c.available /\ d.assigned = c.assigned
<1> DEFINE d == returnMessages(c, p, ms, refs)
           x == c.tpToPpc[p]
           M == [c.messages EXCEPT ![x] = ms \o c.messages[x]]
<1>1. c \in Cache
  BY DEF WellFormed
<1>2. x \in Ppcs
  BY <1>1 DEF Cache, PpcOrNull
<1>3. c.tpToPpc = [c.tpToPpc EXCEPT ![p] = x] /\ c.isAssigned = [c.isAssigned EXCEPT ![x] = c.isAssigned[x]]
  BY <1>1, <1>2 DEF Cache
<1>4. d = [c EXCEPT !.tpToPpc = c.tpToPpc, !.messages = M, !.isAssigned = c.isAssigned,
                    !.available = c.available, !.size = c.size + Len(ms)]
  <2>1. TargetPpc(c, p, refs) = x
    BY DEF TargetPpc
  <2> DEFINE T == [c.tpToPpc EXCEPT ![p] = x]
             A == [c.isAssigned EXCEPT ![x] = c.isAssigned[x]]
  <2>2. d = [c EXCEPT !.tpToPpc = T, !.messages = M, !.isAssigned = A,
                      !.available = c.available, !.size = c.size + Len(ms)]
    BY <1>1, <2>1 DEF returnMessages, Cache
  <2>3. T = c.tpToPpc /\ A = c.isAssigned
    BY <1>3
  <2> HIDE DEF T, A, M, d
  <2> QED BY <2>2, <2>3
<1>5. M \in [Ppcs -> Seq(Offsets)]
  <2>1. ms \o c.messages[x] \in Seq(Offsets)
    BY <1>1, <1>2 DEF Cache
  <2> QED BY <1>1, <2>1 DEF Cache
<1> HIDE DEF d, M
<1>6. d \in Cache
  <2> DEFINE Z == c.size + Len(ms)
  <2>1. Z \in Int
    BY <1>1 DEF Cache
  <2> HIDE DEF Z, x
  <2> QED BY <1>1, <1>4, <1>5, <2>1 DEF Cache, Z
<1>7. /\ d.tpToPpc = c.tpToPpc /\ d.isAssigned = c.isAssigned
      /\ d.available = c.available /\ d.assigned = c.assigned
  BY <1>1, <1>4 DEF Cache
<1> QED BY <1>6, <1>7, SameLists DEF d

\* d is c without the PPCs of X: they are neither in the map nor assigned.
Drops(d, c, X) ==
  /\ \A x \in Ppcs : Mapped(d, x) <=> Mapped(c, x) /\ x \notin X
  /\ \A x \in Ppcs : d.isAssigned[x] <=> c.isAssigned[x] /\ x \notin X

\* markStale keeps the cache well-formed and takes the PPC from its list and map.
LEMMA MarkStaleProperties ==
  ASSUME NEW c, WellFormed(c), NEW p \in Partitions
  PROVE  LET d == markStale(c, p)
         IN /\ WellFormed(d)
            /\ Drops(d, c, {c.tpToPpc[p]})
            /\ c.available = << >> => d.available = << >>
<1> DEFINE d == markStale(c, p)
           x == c.tpToPpc[p]
<1>1. c \in Cache /\ ListsMatch(c)
  BY DEF WellFormed
<1>2. CASE x = NoPpc
  <2>1. d = c
    BY <1>2 DEF markStale
  <2> QED BY <1>2, <2>1, PpcFacts DEF Drops
<1>3. CASE x # NoPpc
  <2> DEFINE T == [c.tpToPpc EXCEPT ![p] = NoPpc]
             M == [c.messages EXCEPT ![x] = << >>]
             A == [c.isAssigned EXCEPT ![x] = FALSE]
             V == IF c.isAssigned[x] THEN c.available ELSE Unlink(c.available, x)
             G == IF c.isAssigned[x] THEN c.assigned \ {x} ELSE c.assigned
             Z == c.size - Len(c.messages[x])
  <2>1. x \in Ppcs /\ KeyOf(x) = p
    BY <1>1, <1>3 DEF Cache, PpcOrNull, ListsMatch
  <2>2. d = [c EXCEPT !.size = Z, !.assigned = G, !.available = V, !.tpToPpc = T,
                      !.isAssigned = A, !.messages = M]
    BY <1>1, <1>3 DEF markStale, Cache
  <2>3. c.available \in Seq(Ppcs) /\ NoDuplicates(c.available)
    BY <1>1 DEF Cache, ListsMatch
  <2>4. V \in Seq(Ppcs) /\ NoDuplicates(V) /\ \A y \in Ppcs : Occurs(V, y) <=> Occurs(c.available, y) /\ y # x
    <3>1. CASE c.isAssigned[x]
      <4>1. ~Occurs(c.available, x)
        BY <2>1, <3>1, <1>1 DEF ListsMatch
      <4> QED BY <4>1, <3>1, <2>3
    <3>2. CASE ~c.isAssigned[x]
      BY <3>2, <2>3, UnlinkProperties
    <3> QED BY <3>1, <3>2
  <2>5. \A y \in Ppcs : y \in G <=> y \in c.assigned /\ y # x
    BY <1>1, <2>1 DEF ListsMatch
  <2>6. T \in [Partitions -> PpcOrNull] /\ A \in [Ppcs -> BOOLEAN] /\ M \in [Ppcs -> Seq(Offsets)]
        /\ G \in SUBSET Ppcs /\ Z \in Int
    BY <1>1, <2>1 DEF Cache, PpcOrNull
  <2>7. \A y \in Ppcs : A[y] <=> c.isAssigned[y] /\ y # x
    BY <1>1, <2>1 DEF Cache
  <2>8. \A q \in Partitions : T[q] = IF q = p THEN NoPpc ELSE c.tpToPpc[q]
    BY <1>1 DEF Cache
  <2> HIDE DEF T, M, A, V, G, Z, d
  <2>9. d = [tpToPpc |-> T, messages |-> M, isAssigned |-> A, available |-> V,
             assigned |-> G, size |-> Z]
    BY <1>1, <2>2 DEF Cache
  <2>10. d \in Cache
    BY <2>4, <2>6, <2>9 DEF Cache
  <2>11. d.tpToPpc = T /\ d.isAssigned = A /\ d.available = V /\ d.assigned = G
    BY <2>9
  <2>12. \A y \in Ppcs : Mapped(d, y) <=> Mapped(c, y) /\ y # x
    BY <2>1, <2>8, <2>11, PpcFacts DEF Mapped
  <2>13. Drops(d, c, {x})
    BY <2>7, <2>11, <2>12 DEF Drops
  <2>14. ListsMatch(d)
    <3>1. \A q \in Partitions : T[q] # NoPpc => KeyOf(T[q]) = q
      BY <1>1, <2>8 DEF ListsMatch
    <3> QED BY <3>1, <1>1, <2>4, <2>5, <2>7, <2>11, <2>12 DEF ListsMatch
  <2>15. c.available = << >> => d.available = << >>
    <3>1. c.available = << >> => ~Occurs(c.available, x)
      BY DEF Occurs
    <3> QED BY <3>1, <2>11 DEF V, Unlink, Occurs
  <2> QED BY <2>10, <2>13, <2>14, <2>15 DEF WellFormed, d
<1> QED BY <1>2, <1>3

\* clear() leaves a well-formed cache in which no PPC is assigned.
LEMMA ClearProperties ==
  ASSUME NEW c, WellFormed(c)
  PROVE  LET d == clear(c)
         IN /\ WellFormed(d)
            /\ Drops(d, c, Ppcs)
            /\ d.available = << >>
<1> DEFINE d == clear(c)
           X == {x \in Ppcs : c.tpToPpc[KeyOf(x)] = x}
           M == [x \in Ppcs |-> IF x \in X THEN << >> ELSE c.messages[x]]
           A == [x \in Ppcs |-> IF x \in X THEN FALSE ELSE c.isAssigned[x]]
           T == [p \in Partitions |-> NoPpc]
<1>1. c \in Cache /\ ListsMatch(c)
  BY DEF WellFormed
<1>2. d = [EmptyCache EXCEPT !.messages = M, !.isAssigned = A]
  BY DEF clear
<1>3. M \in [Ppcs -> Seq(Offsets)] /\ A \in [Ppcs -> BOOLEAN]
  <2>1. c.messages \in [Ppcs -> Seq(Offsets)] /\ c.isAssigned \in [Ppcs -> BOOLEAN]
    BY <1>1 DEF Cache
  <2> HIDE DEF X
  <2>2. M \in [Ppcs -> Seq(Offsets)]
    BY <2>1
  <2>3. A \in [Ppcs -> BOOLEAN]
    BY <2>1
  <2> QED BY <2>2, <2>3
<1>4. \A x \in Ppcs : ~A[x]
  BY <1>1 DEF ListsMatch, Mapped
<1>5. T \in [Partitions -> PpcOrNull] /\ \A p \in Partitions : T[p] = NoPpc
  BY DEF PpcOrNull
<1>6. EmptyCache \in Cache
  BY EmptyCacheWellFormed DEF WellFormed
<1>7. EmptyCache.tpToPpc = T /\ EmptyCache.available = << >> /\ EmptyCache.assigned = {}
  BY DEF EmptyCache
<1> HIDE DEF M, A, T, d
<1>8. d \in Cache /\ d.tpToPpc = T /\ d.available = << >> /\ d.assigned = {} /\ d.isAssigned = A
  BY <1>2, <1>3, <1>6, <1>7 DEF Cache
<1>9. \A x \in Ppcs : ~Mapped(d, x)
  BY <1>5, <1>8, PpcFacts DEF Mapped
<1>10. Drops(d, c, Ppcs)
  BY <1>4, <1>8, <1>9 DEF Drops
<1>11. NoDuplicates(<< >>) /\ \A x : ~Occurs(<< >>, x)
  BY DEF NoDuplicates, Occurs
<1>12. ListsMatch(d)
  BY <1>4, <1>5, <1>8, <1>9, <1>11 DEF ListsMatch
<1> QED BY <1>8, <1>10, <1>12 DEF WellFormed, d

\* return makes a live PPC available again and leaves the others alone.
LEMMA ReturnProperties ==
  ASSUME NEW c, WellFormed(c), NEW ppc \in Ppcs
  PROVE  LET d == return(c, ppc)
         IN /\ WellFormed(d)
            /\ d.tpToPpc = c.tpToPpc
            /\ \A x \in Ppcs : d.isAssigned[x] <=> c.isAssigned[x] /\ x # ppc
            /\ ~c.isAssigned[ppc] => d = c
<1> DEFINE d == return(c, ppc)
<1>1. c \in Cache /\ ListsMatch(c)
  BY DEF WellFormed
<1>2. CASE ~c.isAssigned[ppc]
  <2>1. d = c
    BY <1>2 DEF return
  <2> QED BY <1>2, <2>1
<1>3. CASE c.isAssigned[ppc]
  <2> DEFINE A == [c.isAssigned EXCEPT ![ppc] = FALSE]
             V == Append(c.available, ppc)
             G == c.assigned \ {ppc}
  <2>1. d = [c EXCEPT !.assigned = G, !.available = V, !.isAssigned = A]
    BY <1>1, <1>3 DEF return, Cache
  <2>2. c.available \in Seq(Ppcs) /\ NoDuplicates(c.available) /\ ~Occurs(c.available, ppc)
    BY <1>1, <1>3 DEF Cache, ListsMatch
  <2>3. V = c.available \o <<ppc>>
    BY <2>2
  <2>4. <<ppc>> \in Seq(Ppcs) /\ NoDuplicates(<<ppc>>) /\ \A x : Occurs(<<ppc>>, x) <=> x = ppc
    BY DEF NoDuplicates, Occurs
  <2>5. V \in Seq(Ppcs) /\ NoDuplicates(V) /\ \A x : Occurs(V, x) <=> Occurs(c.available, x) \/ x = ppc
    <3> HIDE DEF V
    <3> DEFINE t == <<ppc>>
    <3>1. t \in Seq(Ppcs) /\ NoDuplicates(t) /\ (\A x : Occurs(t, x) <=> x = ppc) /\ V = c.available \o t
      BY <2>3, <2>4
    <3> HIDE DEF t
    <3> QED BY <2>2, <3>1, ConcatLists
  <2>6. A \in [Ppcs -> BOOLEAN] /\ G \in SUBSET Ppcs
    BY <1>1 DEF Cache
  <2>7. \A x \in Ppcs : A[x] <=> c.isAssigned[x] /\ x # ppc
    BY <1>1 DEF Cache
  <2>8. Mapped(c, ppc)
    BY <1>1, <1>3 DEF ListsMatch
  <2>9. \A x \in Ppcs : x \in G <=> c.isAssigned[x] /\ x # ppc
    BY <1>1 DEF ListsMatch
  <2> HIDE DEF A, V, G, d
  <2>10. d \in Cache /\ d.tpToPpc = c.tpToPpc /\ d.isAssigned = A /\ d.available = V /\ d.assigned = G
    BY <1>1, <2>1, <2>5, <2>6 DEF Cache
  <2>11. \A x \in Ppcs : Mapped(d, x) <=> Mapped(c, x)
    BY <2>10 DEF Mapped
  <2>12. ListsMatch(d)
    <3>1. \A p \in Partitions : d.tpToPpc[p] # NoPpc => KeyOf(d.tpToPpc[p]) = p
      BY <1>1, <2>10 DEF ListsMatch
    <3> QED BY <3>1, <1>1, <2>5, <2>7, <2>8, <2>9, <2>10, <2>11 DEF ListsMatch
  <2> QED BY <1>3, <2>7, <2>10, <2>12 DEF WellFormed, d
<1> QED BY <1>2, <1>3

\* _nextN takes messages off the head of a PPC and changes nothing else.
LEMMA TakeFromProperties ==
  ASSUME NEW c, WellFormed(c), NEW ppc \in Ppcs, NEW n \in Int
  PROVE  LET r == TakeFrom(c, ppc, n)
         IN /\ WellFormed(r.cache)
            /\ r.cache.tpToPpc = c.tpToPpc /\ r.cache.isAssigned = c.isAssigned
            /\ r.cache.available = c.available /\ r.cache.assigned = c.assigned
            /\ r.ppc = ppc
            /\ r.msgs \in Seq(Offsets)
<1> DEFINE ms == c.messages[ppc]
           k == TakeCount(Len(ms), n)
           M == [c.messages EXCEPT ![ppc] = SubSeq(ms, k + 1, Len(ms))]
           Z == c.size - k
           d == [c EXCEPT !.messages = M, !.size = Z]
<1>1. c \in Cache
  BY DEF WellFormed
<1>2. ms \in Seq(Offsets) /\ k \in 0..Len(ms)
  BY <1>1 DEF Cache, TakeCount
<1>3. SubSeq(ms, 1, k) \in Seq(Offsets) /\ SubSeq(ms, k + 1, Len(ms)) \in Seq(Offsets)
  BY <1>2
<1>4. M \in [Ppcs -> Seq(Offsets)] /\ Z \in Int
  BY <1>1, <1>2, <1>3 DEF Cache
<1>5. TakeFrom(c, ppc, n) = [cache |-> d, ppc |-> ppc, msgs |-> SubSeq(ms, 1, k)]
  BY <1>1 DEF TakeFrom, Cache
<1> HIDE DEF M, Z, k, ms
<1>6. /\ d \in Cache /\ d.tpToPpc = c.tpToPpc /\ d.isAssigned = c.isAssigned
      /\ d.available = c.available /\ d.assigned = c.assigned
  BY <1>1, <1>4 DEF Cache
<1>7. WellFormed(d)
  BY <1>6, SameLists
<1> HIDE DEF d
<1> QED BY <1>3, <1>5, <1>6, <1>7

\* What is left of a list after its first k elements.
LEMMA SuffixProperties ==
  ASSUME NEW S, NEW s \in Seq(S), NoDuplicates(s), NEW k \in 0..Len(s)
  PROVE  LET t == SubSeq(s, k + 1, Len(s))
         IN /\ t \in Seq(S)
            /\ NoDuplicates(t)
            /\ \A x : Occurs(t, x) <=> \E i \in 1..Len(s) : i > k /\ s[i] = x
<1> DEFINE t == SubSeq(s, k + 1, Len(s))
<1>1. t \in Seq(S) /\ Len(t) = Len(s) - k /\ \A i \in 1..Len(t) : t[i] = s[k + i]
  OBVIOUS
<1> HIDE DEF t
<1>2. NoDuplicates(t)
  BY <1>1 DEF NoDuplicates
<1>3. ASSUME NEW x PROVE Occurs(t, x) <=> \E i \in 1..Len(s) : i > k /\ s[i] = x
  <2>1. ASSUME Occurs(t, x) PROVE \E i \in 1..Len(s) : i > k /\ s[i] = x
    <3>1. PICK j \in 1..Len(t) : t[j] = x
      BY <2>1 DEF Occurs
    <3>2. k + j \in 1..Len(s) /\ k + j > k /\ s[k + j] = x
      BY <3>1, <1>1
    <3> QED BY <3>2
  <2>2. ASSUME NEW i \in 1..Len(s), i > k, s[i] = x PROVE Occurs(t, x)
    <3>1. i - k \in 1..Len(t) /\ t[i - k] = x
      BY <2>2, <1>1
    <3> QED BY <3>1 DEF Occurs
  <2> QED BY <2>1, <2>2
<1> QED BY <1>1, <1>2, <1>3 DEF t

\* removeEmptyPartitions drops PPCs of the map; it leaves the available list,
\* which they have left already, alone.
LEMMA RemoveEmptyProperties ==
  ASSUME NEW c, WellFormed(c), NEW X \in SUBSET Ppcs, \A x \in X : Mapped(c, x)
  PROVE  LET d == removeEmptyPartitions(c, X)
         IN /\ d \in Cache
            /\ Drops(d, c, X)
            /\ d.available = c.available
            /\ d.assigned = c.assigned \ X
            /\ d.messages = c.messages
            /\ \A p \in Partitions : d.tpToPpc[p] # NoPpc => KeyOf(d.tpToPpc[p]) = p
<1> DEFINE d == removeEmptyPartitions(c, X)
           T == [p \in Partitions |-> IF \E x \in X : KeyOf(x) = p THEN NoPpc ELSE c.tpToPpc[p]]
           A == [x \in Ppcs |-> IF x \in X THEN FALSE ELSE c.isAssigned[x]]
           G == c.assigned \ X
<1>1. c \in Cache /\ ListsMatch(c)
  BY DEF WellFormed
<1>2. d = [c EXCEPT !.tpToPpc = T, !.isAssigned = A, !.assigned = G]
  BY DEF removeEmptyPartitions
<1>3. T \in [Partitions -> PpcOrNull]
  BY <1>1 DEF Cache, PpcOrNull
<1>4. A \in [Ppcs -> BOOLEAN]
  BY <1>1 DEF Cache
<1>5. G \in SUBSET Ppcs
  BY <1>1 DEF Cache
<1>6. \A p \in Partitions : T[p] # NoPpc => KeyOf(T[p]) = p
  BY <1>1 DEF ListsMatch
<1>7. \A y \in Ppcs : T[KeyOf(y)] = y <=> Mapped(c, y) /\ y \notin X
  <2> SUFFICES ASSUME NEW y \in Ppcs PROVE T[KeyOf(y)] = y <=> Mapped(c, y) /\ y \notin X
    OBVIOUS
  <2>1. KeyOf(y) \in Partitions /\ y # NoPpc
    BY PpcFacts
  <2>2. CASE \E x \in X : KeyOf(x) = KeyOf(y)
    <3>1. PICK x \in X : KeyOf(x) = KeyOf(y)
      BY <2>2
    <3>2. T[KeyOf(y)] = NoPpc
      BY <2>1, <2>2
    <3>3. Mapped(c, y) => y = x
      BY <3>1 DEF Mapped
    <3> QED BY <2>1, <3>1, <3>2, <3>3
  <2>3. CASE ~\E x \in X : KeyOf(x) = KeyOf(y)
    BY <2>1, <2>3 DEF Mapped
  <2> QED BY <2>2, <2>3
<1>8. \A y \in Ppcs : A[y] <=> c.isAssigned[y] /\ y \notin X
  BY <1>1 DEF Cache
<1> HIDE DEF T, A, G, d
<1>9. /\ d \in Cache /\ d.tpToPpc = T /\ d.isAssigned = A /\ d.available = c.available
      /\ d.assigned = G /\ d.messages = c.messages
  BY <1>1, <1>2, <1>3, <1>4, <1>5 DEF Cache
<1>10. Drops(d, c, X)
  BY <1>7, <1>8, <1>9 DEF Drops, Mapped
<1> QED BY <1>6, <1>9, <1>10 DEF d, G

\* A nonempty set of indices has a least one: nextN's first PPC with messages.
LEMMA SmallestIndex ==
  ASSUME NEW S \in SUBSET Nat, S # {}
  PROVE  \E i \in S : \A j \in S : i <= j
<1> DEFINE R == OpToRel(<, Nat)
<1>1. \E i \in S : \A j \in S : ~(<<j, i>> \in R)
  BY NatLessThanWellFounded, WFMin
<1>2. \A i, j \in Nat : <<j, i>> \in R <=> j < i
  BY DEF OpToRel
<1>3. PICK i \in S : \A j \in S : ~(<<j, i>> \in R)
  BY <1>1
<1>4. \A j \in S : ~(j < i)
  BY <1>2, <1>3, Zenon
<1>5. \A j \in S : i <= j
  BY <1>4
<1> QED BY <1>5

\* The three outcomes of nextN: more of the PPC the caller holds, null, or a PPC
\* that was available.  In the last two the caller's own PPC, if live, was
\* empty and is dropped.
TookMore(r, c, ppc) ==
  /\ r.ppc = ppc /\ ppc \in Ppcs /\ c.isAssigned[ppc]
  /\ r.cache.tpToPpc = c.tpToPpc /\ r.cache.isAssigned = c.isAssigned
  /\ r.cache.available = c.available /\ r.cache.assigned = c.assigned

GivesUp(c, ppc, X) == ppc # NoPpc /\ c.isAssigned[ppc] => ppc \in X

TookNothing(r, c, X) ==
  /\ r.ppc = NoPpc
  /\ r.cache.available = << >>
  /\ Drops(r.cache, c, X)

TookNew(r, c, X) ==
  /\ r.ppc \in Ppcs /\ r.ppc \notin X
  /\ Occurs(c.available, r.ppc)
  /\ \A x \in Ppcs : Mapped(r.cache, x) <=> Mapped(c, x) /\ x \notin X
  /\ \A x \in Ppcs : r.cache.isAssigned[x] <=> (c.isAssigned[x] /\ x \notin X) \/ x = r.ppc

\* nextN keeps the cache well-formed; what it returns is assigned, and was
\* available or already held by the caller.
LEMMA NextNProperties ==
  ASSUME NEW c, WellFormed(c), NEW ppc \in PpcOrNull, NEW n \in Int
  PROVE  LET r == nextN(c, ppc, n)
         IN /\ WellFormed(r.cache)
            /\ r.msgs \in Seq(Offsets)
            /\ \/ TookMore(r, c, ppc)
               \/ \E X \in SUBSET Ppcs : /\ GivesUp(c, ppc, X)
                                         /\ TookNothing(r, c, X) \/ TookNew(r, c, X)
<1> DEFINE r == nextN(c, ppc, n)
           live == ppc # NoPpc /\ c.isAssigned[ppc]
           av == c.available
           full == {i \in 1..Len(av) : c.messages[av[i]] # << >>}
           first == CHOOSE i \in full : \A j \in full : i <= j
           last == IF full = {} THEN Len(av) ELSE first - 1
           X == {av[i] : i \in 1..last} \cup (IF live THEN {ppc} ELSE {})
           rest == removeEmptyPartitions(c, X)
<1>1. c \in Cache /\ ListsMatch(c)
  BY DEF WellFormed
<1>2. av \in Seq(Ppcs) /\ NoDuplicates(av)
  BY <1>1 DEF Cache, ListsMatch
<1>3. live => ppc \in Ppcs /\ Mapped(c, ppc) /\ ~Occurs(av, ppc)
  BY <1>1 DEF PpcOrNull, ListsMatch
<1>4. full # {} => first \in full
  <2>1. full \in SUBSET Nat
    OBVIOUS
  <2> HIDE DEF full
  <2> QED BY <2>1, SmallestIndex
<1>5. last \in 0..Len(av)
  BY <1>2, <1>4
<1>6. CASE live /\ c.messages[ppc] # << >>
  <2>1. r = TakeFrom(c, ppc, n)
    BY <1>6 DEF nextN
  <2> HIDE DEF r
  <2>2. TookMore(r, c, ppc)
    BY <1>3, <1>6, <2>1, TakeFromProperties DEF TookMore
  <2>3. WellFormed(r.cache) /\ r.msgs \in Seq(Offsets)
    BY <1>3, <1>6, <2>1, TakeFromProperties
  <2> QED BY <2>2, <2>3 DEF r
<1>7. CASE ~(live /\ c.messages[ppc] # << >>)
  <2> HIDE DEF full, first, last
  <2>1. X \in SUBSET Ppcs /\ \A x \in X : Mapped(c, x)
    <3>1. \A i \in 1..Len(av) : av[i] \in Ppcs /\ Mapped(c, av[i])
      BY <1>1, <1>2 DEF ListsMatch, Occurs
    <3>2. \A i \in 1..last : i \in 1..Len(av)
      BY <1>2, <1>5
    <3> HIDE DEF live
    <3> QED BY <1>3, <3>1, <3>2
  <2>2. GivesUp(c, ppc, X)
    BY DEF GivesUp
  <2>3. \A i \in 1..Len(av) : av[i] \in X <=> i <= last
    <3> SUFFICES ASSUME NEW i \in 1..Len(av) PROVE av[i] \in X <=> i <= last
      OBVIOUS
    <3>1. ~(live /\ av[i] = ppc)
      BY <1>3 DEF Occurs
    <3>2. i <= last => av[i] \in X
      BY <1>2, <1>5
    <3>3. ASSUME av[i] \in X PROVE i <= last
      <4>1. PICK j \in 1..last : av[i] = av[j]
        BY <3>1, <3>3
      <4>2. j \in 1..Len(av)
        BY <1>2, <1>5
      <4>3. i = j
        BY <4>1, <4>2, <1>2 DEF NoDuplicates
      <4> QED BY <4>3, <1>5
    <3> QED BY <3>2, <3>3
  <2>4. /\ rest \in Cache /\ Drops(rest, c, X) /\ rest.available = av
        /\ rest.assigned = c.assigned \ X
        /\ \A p \in Partitions : rest.tpToPpc[p] # NoPpc => KeyOf(rest.tpToPpc[p]) = p
    <3> HIDE DEF X
    <3> QED BY <2>1, RemoveEmptyProperties
  <2>5. CASE full = {}
    <3> DEFINE d == [rest EXCEPT !.available = << >>]
    <3>1. r = [cache |-> d, ppc |-> NoPpc, msgs |-> << >>]
      BY <1>7, <2>5 DEF nextN, full, first, last
    <3>2. last = Len(av)
      BY <2>5 DEF last
    <3> HIDE DEF X, rest, r
    <3>3. /\ d \in Cache /\ d.tpToPpc = rest.tpToPpc /\ d.isAssigned = rest.isAssigned
          /\ d.assigned = rest.assigned /\ d.available = << >>
      <4>1. << >> \in Seq(Ppcs)
        OBVIOUS
      <4> QED BY <2>4, <4>1 DEF Cache
    <3> HIDE DEF d
    <3>4. Drops(d, c, X)
      BY <2>4, <3>3 DEF Drops, Mapped
    <3>5. \A x \in Ppcs : Occurs(av, x) => x \in X
      BY <2>3, <3>2, <1>2 DEF Occurs
    <3>6. NoDuplicates(<< >>) /\ \A x : ~Occurs(<< >>, x)
      BY DEF NoDuplicates, Occurs
    <3>7. ListsMatch(d)
      <4>1. \A p \in Partitions : d.tpToPpc[p] # NoPpc => KeyOf(d.tpToPpc[p]) = p
        BY <2>4, <3>3
      <4>2. \A x \in Ppcs : Mapped(d, x) => d.isAssigned[x]
        BY <1>1, <3>4, <3>5 DEF ListsMatch, Drops
      <4>3. \A x \in Ppcs : x \in d.assigned <=> d.isAssigned[x]
        BY <1>1, <2>4, <3>3, <3>4 DEF ListsMatch, Drops
      <4>4. \A x \in Ppcs : d.isAssigned[x] => Mapped(d, x)
        BY <1>1, <3>4 DEF ListsMatch, Drops
      <4> QED BY <3>3, <3>6, <4>1, <4>2, <4>3, <4>4 DEF ListsMatch
    <3>8. TookNothing(r, c, X)
      BY <3>1, <3>3, <3>4 DEF TookNothing
    <3>9. << >> \in Seq(Offsets)
      OBVIOUS
    <3>10. WellFormed(r.cache) /\ r.msgs \in Seq(Offsets)
      BY <3>1, <3>3, <3>7, <3>9 DEF WellFormed
    <3> QED BY <2>1, <2>2, <3>8, <3>10 DEF r
  <2>6. CASE full # {}
    <3> DEFINE new == av[first]
               A == [rest.isAssigned EXCEPT ![new] = TRUE]
               V == SubSeq(av, first + 1, Len(av))
               G == rest.assigned \cup {new}
               e == assignNewPartition(rest, first)
    <3>1. first \in 1..Len(av) /\ last = first - 1
      BY <1>4, <2>6 DEF last, full
    <3>2. new \in Ppcs /\ new \notin X /\ Occurs(av, new)
      BY <3>1, <2>3, <1>2 DEF Occurs
    <3>3. r = TakeFrom(e, new, n)
      BY <1>7, <2>6 DEF nextN, full, first, last
    <3>4. e = [rest EXCEPT !.available = V, !.assigned = G, !.isAssigned = A]
      <4> HIDE DEF X, rest
      <4> QED BY <2>4 DEF assignNewPartition, Cache
    <3>5. V \in Seq(Ppcs) /\ NoDuplicates(V)
          /\ \A x : Occurs(V, x) <=> \E i \in 1..Len(av) : i > first /\ av[i] = x
      <4>1. first \in 0..Len(av)
        BY <3>1
      <4> HIDE DEF first
      <4> QED BY <4>1, <1>2, SuffixProperties
    <3> HIDE DEF X, rest
    <3>6. A \in [Ppcs -> BOOLEAN] /\ G \in SUBSET Ppcs
      BY <2>4, <3>2 DEF Cache
    <3>7. \A x \in Ppcs : A[x] <=> (c.isAssigned[x] /\ x \notin X) \/ x = new
      <4>1. rest.isAssigned \in [Ppcs -> BOOLEAN]
        BY <2>4 DEF Cache
      <4> HIDE DEF new
      <4> QED BY <4>1, <2>4 DEF Drops
    <3>8. \A x \in Ppcs : x \in G <=> (x \in c.assigned /\ x \notin X) \/ x = new
      BY <2>4
    <3> HIDE DEF A, V, G, e
    <3>9. /\ e \in Cache /\ e.tpToPpc = rest.tpToPpc /\ e.isAssigned = A
          /\ e.assigned = G /\ e.available = V
      BY <2>4, <3>4, <3>5, <3>6 DEF Cache
    <3>10. \A x \in Ppcs : Mapped(e, x) <=> Mapped(c, x) /\ x \notin X
      BY <2>4, <3>9 DEF Drops, Mapped
    <3>11. \A x \in Ppcs : Occurs(V, x) <=> Occurs(av, x) /\ x \notin X /\ x # new
      <4> SUFFICES ASSUME NEW x \in Ppcs
                   PROVE  Occurs(V, x) <=> Occurs(av, x) /\ x \notin X /\ x # new
        OBVIOUS
      <4>1. ASSUME NEW i \in 1..Len(av), av[i] = x
            PROVE  i > first <=> x \notin X /\ x # new
        <5>1. x \in X <=> i <= last
          BY <4>1, <2>3
        <5>2. x = new <=> i = first
          BY <4>1, <3>1, <1>2 DEF NoDuplicates
        <5> HIDE DEF new
        <5> QED BY <5>1, <5>2, <3>1, <1>2
      <4> QED BY <4>1, <3>5 DEF Occurs
    <3> HIDE DEF new
    <3>12. Mapped(c, new) /\ ~c.isAssigned[new]
      BY <1>1, <3>2 DEF ListsMatch
    <3>13. ListsMatch(e)
      <4>1. \A p \in Partitions : e.tpToPpc[p] # NoPpc => KeyOf(e.tpToPpc[p]) = p
        BY <2>4, <3>9
      <4>2. \A x \in Ppcs : Occurs(e.available, x) <=> Mapped(e, x) /\ ~e.isAssigned[x]
        BY <1>1, <3>7, <3>9, <3>10, <3>11, <3>12 DEF ListsMatch
      <4>3. \A x \in Ppcs : x \in e.assigned <=> e.isAssigned[x]
        BY <1>1, <3>7, <3>8, <3>9 DEF ListsMatch
      <4>4. \A x \in Ppcs : e.isAssigned[x] => Mapped(e, x)
        BY <1>1, <3>2, <3>7, <3>9, <3>10, <3>12 DEF ListsMatch
      <4> QED BY <3>5, <3>9, <4>1, <4>2, <4>3, <4>4 DEF ListsMatch
    <3>14. WellFormed(e)
      BY <3>9, <3>13 DEF WellFormed
    <3> HIDE DEF r
    <3>15. /\ WellFormed(r.cache) /\ r.ppc = new /\ r.msgs \in Seq(Offsets)
           /\ r.cache.tpToPpc = e.tpToPpc /\ r.cache.isAssigned = e.isAssigned
      BY <3>2, <3>3, <3>14, TakeFromProperties
    <3>16. \A x \in Ppcs : Mapped(r.cache, x) <=> Mapped(e, x)
      BY <3>15 DEF Mapped
    <3>17. TookNew(r, c, X)
      BY <3>2, <3>7, <3>9, <3>10, <3>15, <3>16 DEF TookNew
    <3> QED BY <2>1, <2>2, <3>15, <3>17 DEF r
  <2> QED BY <2>5, <2>6
<1> QED BY <1>6, <1>7

-----------------------------------------------------------------------------
\* The inductive invariant.  ExclusiveHolder carries its own strengthening: an
\* available PPC is in nobody's hands.
Inv == TypeOK /\ ListsMatchMap /\ ExclusiveHolder /\ NoLostWakeup

\* The invariant gives the lemmas about the methods what they assume.
LEMMA InvWellFormed == Inv => WellFormed(cache) /\ HasFreshNames(Refs)
<1> SUFFICES ASSUME Inv PROVE WellFormed(cache) /\ HasFreshNames(Refs)
  OBVIOUS
<1>1. WellFormed(cache)
  BY DEF Inv, TypeOK, ListsMatchMap, WellFormed
<1>2. \A p \in Partitions : \E t \in Tags : \A w \in Workers : held[w] # <<p, t>>
  BY TagAssumption DEF Inv, TypeOK
<1>3. HasFreshNames(Refs)
  BY <1>2 DEF HasFreshNames, Refs
<1> QED BY <1>1, <1>3

\* Dropping PPCs keeps the holders of the others exclusive.
LEMMA DropsKeepsHolders ==
  ASSUME Inv, WellFormed(cache'), NEW X, Drops(cache', cache, X), UNCHANGED held
  PROVE  ExclusiveHolder'
<1>1. held \in [Workers -> PpcOrNull]
  BY DEF Inv, TypeOK
<1>2. \A w \in Workers : held[w] # NoPpc => held[w] \in Ppcs
  BY <1>1 DEF PpcOrNull
<1>3. \A x \in Ppcs : cache'.isAssigned[x] => cache.isAssigned[x]
  BY DEF Drops
<1>4. ASSUME NEW v \in Workers, NEW w \in Workers, held[v] # NoPpc, held[w] # NoPpc,
             cache'.isAssigned[held[v]], cache'.isAssigned[held[w]], KeyOf(held[v]) = KeyOf(held[w])
      PROVE  v = w
  BY <1>2, <1>3, <1>4 DEF Inv, ExclusiveHolder
<1>5. ASSUME NEW w \in Workers, held[w] # NoPpc, Mapped(cache', held[w])
      PROVE  cache'.isAssigned[held[w]]
  BY <1>2, <1>5 DEF Inv, ExclusiveHolder, Drops
<1>6. ASSUME NEW x \in cache'.assigned PROVE \E w \in Workers : held[w] = x
  <2>1. x \in Ppcs /\ cache'.isAssigned[x]
    BY <1>6 DEF WellFormed, ListsMatch, Cache
  <2>2. x \in cache.assigned
    BY <2>1, <1>3, InvWellFormed DEF WellFormed, ListsMatch
  <2> QED BY <2>2 DEF Inv, ExclusiveHolder
<1>7. \A x : Mapped(cache, x)' <=> Mapped(cache', x)
  BY DEF Mapped
<1> QED BY <1>4, <1>5, <1>6, <1>7 DEF ExclusiveHolder

\* A call of addMessages preserves the invariant.
LEMMA AddMessagesStep ==
  ASSUME Inv, NEW count \in [Partitions -> 0..MaxFetch], NEW order \in Orders,
         AddMessages(count, order)
  PROVE  Inv'
<1> DEFINE batch == [p \in Partitions |-> Fetched(p, count[p])]
           total == MapThenSumSet(LAMBDA p : count[p], Partitions)
<1>1. WellFormed(cache) /\ HasFreshNames(Refs) /\ TypeOK
  BY InvWellFormed DEF Inv
<1>2. order \in Seq(Partitions)
  BY DEF Orders
<1>3. count \in [Partitions -> Nat]
  BY MaxFetchAssumption
<1>4. batch \in [Partitions -> Seq(Offsets)]
  <2> SUFFICES ASSUME NEW p \in Partitions PROVE batch[p] \in Seq(Offsets)
    OBVIOUS
  <2>1. count[p] \in Nat /\ batch[p] = [i \in 1..count[p] |-> position[p] + i - 1]
    BY <1>3 DEF Fetched
  <2>2. \A i \in 1..count[p] : batch[p][i] \in Offsets
    BY DEF AddMessages
  <2> QED BY <2>1, <2>2
<1>5. /\ total \in Nat
      /\ Enumerates(order, NewKeys(cache, batch))
      /\ cache' = addMessages(cache, batch, order, total, Refs)
      /\ position' = [p \in Partitions |-> position[p] + count[p]]
      /\ waiting' = IF order # << >> THEN {} ELSE waiting
      /\ UNCHANGED <<held, taken>>
  BY DEF AddMessages, NotifiesOnAdd
<1> HIDE DEF batch, total
<1>6. /\ WellFormed(cache')
      /\ cache'.assigned = cache.assigned
      /\ cache'.isAssigned = cache.isAssigned
      /\ \A x \in Refs : x \in Ppcs /\ Mapped(cache', x) => Mapped(cache, x)
      /\ order = << >> => cache'.available = cache.available
  BY <1>1, <1>2, <1>4, <1>5, AddMessagesProperties
<1>7. TypeOK'
  <2>1. position' \in [Partitions -> Nat]
    BY <1>1, <1>3, <1>5 DEF TypeOK
  <2>2. cache' \in Cache /\ waiting' \subseteq Workers
    BY <1>1, <1>5, <1>6 DEF TypeOK, WellFormed
  <2> QED BY <2>1, <2>2, <1>1, <1>5 DEF TypeOK
<1>8. ListsMatchMap'
  BY <1>6 DEF ListsMatchMap, WellFormed, ListsMatch, Mapped
<1>9. ExclusiveHolder'
  <2>1. \A w \in Workers : held[w] # NoPpc => held[w] \in Ppcs /\ held[w] \in Refs
    BY <1>1 DEF TypeOK, PpcOrNull, Refs
  <2>2. \A w \in Workers : held[w] # NoPpc /\ Mapped(cache', held[w]) => cache'.isAssigned[held[w]]
    BY <2>1, <1>6 DEF Inv, ExclusiveHolder
  <2>3. \A x : Mapped(cache, x)' <=> Mapped(cache', x)
    BY DEF Mapped
  <2> QED BY <2>2, <2>3, <1>5, <1>6 DEF Inv, ExclusiveHolder
<1>10. NoLostWakeup'
  BY <1>5, <1>6 DEF Inv, NoLostWakeup
<1> QED BY <1>7, <1>8, <1>9, <1>10 DEF Inv

\* A call of next or nextN preserves the invariant.
LEMMA NextNStep ==
  ASSUME Inv, NEW w \in Workers, NEW n \in BatchSizes, NextN(w, n)
  PROVE  Inv'
<1> DEFINE r == nextN(cache, held[w], n)
<1>1. WellFormed(cache) /\ TypeOK /\ ExclusiveHolder
  BY InvWellFormed DEF Inv
<1>2. n \in Int /\ held[w] \in PpcOrNull
  BY <1>1, SizesAssumption DEF TypeOK
<1>3. /\ cache' = r.cache
      /\ held' = [held EXCEPT ![w] = IF r.ppc = NoPpc THEN @ ELSE r.ppc]
      /\ taken' = [taken EXCEPT ![w] = r.msgs]
      /\ waiting' = IF r.ppc = NoPpc /\ r.cache.assigned # {} THEN waiting \cup {w} ELSE waiting
      /\ UNCHANGED position
  BY DEF NextN
<1>4. /\ WellFormed(r.cache)
      /\ r.msgs \in Seq(Offsets)
      /\ \/ TookMore(r, cache, held[w])
         \/ \E X \in SUBSET Ppcs : /\ GivesUp(cache, held[w], X)
                                   /\ TookNothing(r, cache, X) \/ TookNew(r, cache, X)
  BY <1>1, <1>2, NextNProperties
<1> HIDE DEF r
<1>5. ListsMatchMap'
  BY <1>3, <1>4 DEF ListsMatchMap, WellFormed, ListsMatch, Mapped
<1>6. \A x : Mapped(cache, x)' <=> Mapped(cache', x)
  BY DEF Mapped
<1>7. \A v \in Workers : held[v] # NoPpc => held[v] \in Ppcs
  BY <1>1 DEF TypeOK, PpcOrNull
<1>8. CASE TookMore(r, cache, held[w])
  <2>1. r.ppc = held[w] /\ held[w] # NoPpc
    BY <1>8, PpcFacts DEF TookMore
  <2>2. held' = held /\ waiting' = waiting
    BY <1>1, <1>3, <2>1 DEF TypeOK
  <2>3. TypeOK'
    BY <1>1, <1>3, <1>4, <2>2 DEF TypeOK, WellFormed
  <2>4. ExclusiveHolder'
    BY <1>1, <1>3, <1>6, <1>8, <2>2 DEF ExclusiveHolder, TookMore, Mapped
  <2>5. NoLostWakeup'
    BY <1>3, <1>8, <2>2 DEF Inv, NoLostWakeup, TookMore
  <2> QED BY <1>5, <2>3, <2>4, <2>5 DEF Inv
<1>9. CASE ~TookMore(r, cache, held[w])
  <2>1. PICK X \in SUBSET Ppcs : /\ GivesUp(cache, held[w], X)
                                 /\ TookNothing(r, cache, X) \/ TookNew(r, cache, X)
    BY <1>4, <1>9
  <2>2. CASE TookNothing(r, cache, X)
    <3>1. r.ppc = NoPpc /\ r.cache.available = << >> /\ Drops(r.cache, cache, X)
      BY <2>2 DEF TookNothing
    <3>2. held' = held
      BY <1>1, <1>3, <3>1 DEF TypeOK
    <3>3. TypeOK'
      BY <1>1, <1>3, <1>4, <3>2 DEF TypeOK, WellFormed
    <3>4. ExclusiveHolder'
      BY <1>3, <1>4, <3>1, <3>2, DropsKeepsHolders
    <3>5. NoLostWakeup'
      BY <1>3, <3>1 DEF NoLostWakeup
    <3> QED BY <1>5, <3>3, <3>4, <3>5 DEF Inv
  <2>3. CASE TookNew(r, cache, X)
    <3> DEFINE new == r.ppc
    <3>1. /\ new \in Ppcs /\ new # NoPpc /\ new \notin X
          /\ Mapped(cache, new) /\ ~cache.isAssigned[new]
      BY <1>1, <2>3, PpcFacts DEF TookNew, WellFormed, ListsMatch
    <3>2. held' = [held EXCEPT ![w] = new] /\ waiting' = waiting
      BY <1>3, <3>1
    <3>3. TypeOK'
      <4>1. held' \in [Workers -> PpcOrNull]
        BY <1>1, <3>1, <3>2 DEF TypeOK, PpcOrNull
      <4> QED BY <1>1, <1>3, <1>4, <3>2, <4>1 DEF TypeOK, WellFormed
    <3>4. \A x \in Ppcs : /\ Mapped(cache', x) <=> Mapped(cache, x) /\ x \notin X
                          /\ cache'.isAssigned[x] <=> (cache.isAssigned[x] /\ x \notin X) \/ x = new
      BY <1>3, <2>3 DEF TookNew
    <3>5. \A v \in Workers : held[v] # new
      BY <1>1, <3>1 DEF ExclusiveHolder
    <3>6. held'[w] = new /\ \A v \in Workers : v # w => held'[v] = held[v]
      BY <1>1, <3>2 DEF TypeOK
    <3> HIDE DEF new
    <3>7. ExclusiveHolder'
      <4>1. ASSUME NEW u \in Workers, NEW v \in Workers, held'[u] # NoPpc, held'[v] # NoPpc,
                   cache'.isAssigned[held'[u]], cache'.isAssigned[held'[v]],
                   KeyOf(held'[u]) = KeyOf(held'[v])
            PROVE  u = v
        <5>1. ASSUME NEW z \in Workers, z # w, held[z] # NoPpc, cache'.isAssigned[held[z]]
              PROVE  cache.isAssigned[held[z]] /\ KeyOf(held[z]) # KeyOf(new)
          <6>1. held[z] \in Ppcs /\ held[z] # new
            BY <1>7, <3>5, <5>1
          <6>2. cache.isAssigned[held[z]]
            BY <3>4, <5>1, <6>1
          <6>3. Mapped(cache, held[z])
            BY <1>1, <6>1, <6>2 DEF WellFormed, ListsMatch
          <6> QED BY <3>1, <6>1, <6>2, <6>3 DEF Mapped
        <5>2. CASE u = w /\ v # w
          BY <4>1, <5>1, <5>2, <3>6
        <5>3. CASE v = w /\ u # w
          BY <4>1, <5>1, <5>3, <3>6
        <5>4. CASE u # w /\ v # w
          <6>1. held'[u] = held[u] /\ held'[v] = held[v]
            BY <3>6, <5>4
          <6>2. cache.isAssigned[held[u]] /\ cache.isAssigned[held[v]]
            BY <4>1, <5>1, <5>4, <6>1
          <6> QED BY <1>1, <4>1, <6>1, <6>2 DEF ExclusiveHolder
        <5> QED BY <5>2, <5>3, <5>4
      <4>2. ASSUME NEW v \in Workers, held'[v] # NoPpc, Mapped(cache', held'[v])
            PROVE  cache'.isAssigned[held'[v]]
        <5>1. CASE v = w
          BY <3>1, <3>4, <3>6, <5>1
        <5>2. CASE v # w
          BY <1>1, <1>7, <3>4, <3>6, <4>2, <5>2 DEF ExclusiveHolder
        <5> QED BY <5>1, <5>2
      <4>3. ASSUME NEW x \in cache'.assigned PROVE \E v \in Workers : held'[v] = x
        <5>1. x \in Ppcs /\ cache'.isAssigned[x]
          BY <1>3, <1>4, <4>3 DEF WellFormed, ListsMatch, Cache
        <5>2. CASE x = new
          BY <3>6, <5>2
        <5>3. CASE x # new
          <6>1. cache.isAssigned[x] /\ x \notin X
            BY <3>4, <5>1, <5>3
          <6>2. x \in cache.assigned
            BY <1>1, <5>1, <6>1 DEF WellFormed, ListsMatch
          <6>3. PICK v \in Workers : held[v] = x
            BY <1>1, <6>2 DEF ExclusiveHolder
          <6>4. v # w
            <7>1. x # NoPpc
              BY <5>1, PpcFacts
            <7>2. GivesUp(cache, held[w], X)
              BY <2>1
            <7> QED BY <6>1, <6>3, <7>1, <7>2 DEF GivesUp
          <6> QED BY <3>6, <6>3, <6>4
        <5> QED BY <5>2, <5>3
      <4> QED BY <1>6, <4>1, <4>2, <4>3 DEF ExclusiveHolder
    <3>8. NoLostWakeup'
      <4>1. cache.available # << >>
        BY <2>3 DEF TookNew, Occurs
      <4>2. waiting = {}
        BY <4>1 DEF Inv, NoLostWakeup
      <4> QED BY <3>2, <4>2 DEF NoLostWakeup
    <3> QED BY <1>5, <3>3, <3>7, <3>8 DEF Inv
  <2> QED BY <2>1, <2>2, <2>3
<1> QED BY <1>8, <1>9

\* A call of return preserves the invariant.
LEMMA ReturnStep ==
  ASSUME Inv, NEW w \in Workers, Return(w)
  PROVE  Inv'
<1> DEFINE x == held[w]
<1>1. WellFormed(cache) /\ TypeOK /\ ExclusiveHolder
  BY InvWellFormed DEF Inv
<1>2. x \in Ppcs
  BY <1>1 DEF Return, TypeOK, PpcOrNull
<1>3. /\ cache' = return(cache, x)
      /\ held' = [held EXCEPT ![w] = NoPpc]
      /\ taken' = [taken EXCEPT ![w] = << >>]
      /\ waiting' = IF cache.isAssigned[x] THEN {} ELSE waiting
      /\ UNCHANGED position
  BY DEF Return, NotifiesOnReturn
<1>4. /\ WellFormed(cache')
      /\ cache'.tpToPpc = cache.tpToPpc
      /\ \A y \in Ppcs : cache'.isAssigned[y] <=> cache.isAssigned[y] /\ y # x
      /\ ~cache.isAssigned[x] => cache' = cache
  BY <1>1, <1>2, <1>3, ReturnProperties
<1>5. TypeOK'
  <2>1. held' \in [Workers -> PpcOrNull] /\ taken' \in [Workers -> Seq(Offsets)]
    BY <1>1, <1>3 DEF TypeOK, PpcOrNull
  <2> QED BY <1>1, <1>3, <1>4, <2>1 DEF TypeOK, WellFormed
<1>6. ListsMatchMap'
  BY <1>4 DEF ListsMatchMap, WellFormed, ListsMatch, Mapped
<1>7. \A y : (Mapped(cache, y)' <=> Mapped(cache', y)) /\ (Mapped(cache', y) <=> Mapped(cache, y))
  BY <1>4 DEF Mapped
<1>8. held'[w] = NoPpc /\ \A v \in Workers : v # w => held'[v] = held[v]
  BY <1>1, <1>3 DEF TypeOK
<1>9. \A v \in Workers : held[v] # NoPpc => held[v] \in Ppcs
  BY <1>1 DEF TypeOK, PpcOrNull
<1>10. ASSUME NEW v \in Workers, v # w, held[v] # NoPpc, cache.isAssigned[held[v]]
       PROVE  held[v] # x
  BY <1>1, <1>2, <1>10, PpcFacts DEF ExclusiveHolder
<1> HIDE DEF x
<1>11. ExclusiveHolder'
  <2>1. ASSUME NEW u \in Workers, NEW v \in Workers, held'[u] # NoPpc, held'[v] # NoPpc,
               cache'.isAssigned[held'[u]], cache'.isAssigned[held'[v]],
               KeyOf(held'[u]) = KeyOf(held'[v])
        PROVE  u = v
    <3>1. u # w /\ v # w /\ held'[u] = held[u] /\ held'[v] = held[v]
      BY <1>8, <2>1
    <3>2. cache.isAssigned[held[u]] /\ cache.isAssigned[held[v]]
      BY <1>4, <1>9, <2>1, <3>1
    <3> QED BY <1>1, <2>1, <3>1, <3>2 DEF ExclusiveHolder
  <2>2. ASSUME NEW v \in Workers, held'[v] # NoPpc, Mapped(cache', held'[v])
        PROVE  cache'.isAssigned[held'[v]]
    <3>1. v # w /\ held'[v] = held[v]
      BY <1>8, <2>2
    <3>2. cache.isAssigned[held[v]]
      BY <1>1, <1>7, <2>2, <3>1 DEF ExclusiveHolder
    <3> QED BY <1>4, <1>9, <1>10, <2>2, <3>1, <3>2
  <2>3. ASSUME NEW y \in cache'.assigned PROVE \E v \in Workers : held'[v] = y
    <3>1. y \in Ppcs /\ cache.isAssigned[y] /\ y # x
      BY <1>4, <2>3 DEF WellFormed, ListsMatch, Cache
    <3>2. y \in cache.assigned
      BY <1>1, <3>1 DEF WellFormed, ListsMatch
    <3>3. PICK v \in Workers : held[v] = y
      BY <1>1, <3>2 DEF ExclusiveHolder
    <3> QED BY <1>8, <3>1, <3>3 DEF x
  <2> QED BY <1>7, <2>1, <2>2, <2>3 DEF ExclusiveHolder
<1>12. NoLostWakeup'
  BY <1>3, <1>4 DEF Inv, NoLostWakeup
<1> QED BY <1>5, <1>6, <1>11, <1>12 DEF Inv

\* A call of returnMessages preserves the invariant.
LEMMA ReturnMessagesStep ==
  ASSUME Inv, NEW w \in Workers, ReturnMessages(w)
  PROVE  Inv'
<1> DEFINE p == KeyOf(held[w])
<1>1. WellFormed(cache) /\ TypeOK /\ ExclusiveHolder
  BY InvWellFormed DEF Inv
<1>2. held[w] \in Ppcs /\ Mapped(cache, held[w])
  BY <1>1 DEF ReturnMessages, TypeOK, PpcOrNull, WellFormed, ListsMatch
<1>3. p \in Partitions /\ cache.tpToPpc[p] # NoPpc
  BY <1>2, PpcFacts DEF Mapped
<1>4. /\ cache' = returnMessages(cache, p, taken[w], Refs)
      /\ taken' = [taken EXCEPT ![w] = << >>]
      /\ waiting' = IF cache.tpToPpc[p] = NoPpc THEN {} ELSE waiting
      /\ UNCHANGED <<held, position>>
  BY DEF ReturnMessages, NotifiesOnReturnMessages
<1>5. taken[w] \in Seq(Offsets)
  BY <1>1 DEF TypeOK
<1> HIDE DEF p
<1>6. /\ WellFormed(cache')
      /\ cache'.tpToPpc = cache.tpToPpc /\ cache'.isAssigned = cache.isAssigned
      /\ cache'.available = cache.available /\ cache'.assigned = cache.assigned
  BY <1>1, <1>3, <1>4, <1>5, ReturnMessagesProperties
<1>7. waiting' = waiting
  BY <1>3, <1>4
<1>8. TypeOK'
  BY <1>1, <1>4, <1>6, <1>7 DEF TypeOK, WellFormed
<1>9. ListsMatchMap'
  BY <1>6 DEF ListsMatchMap, WellFormed, ListsMatch, Mapped
<1>10. ExclusiveHolder'
  BY <1>1, <1>4, <1>6 DEF ExclusiveHolder, Mapped
<1>11. NoLostWakeup'
  BY <1>6, <1>7 DEF Inv, NoLostWakeup
<1> QED BY <1>8, <1>9, <1>10, <1>11 DEF Inv

\* A call of markStale preserves the invariant.
LEMMA MarkStaleStep ==
  ASSUME Inv, NEW p \in Partitions, NEW o \in Offsets, MarkStale(p, o)
  PROVE  Inv'
<1>1. WellFormed(cache) /\ TypeOK
  BY InvWellFormed DEF Inv
<1>2. cache' = markStale(cache, p) /\ position' = [position EXCEPT ![p] = o]
      /\ UNCHANGED <<held, taken, waiting>>
  BY DEF MarkStale
<1>3. /\ WellFormed(cache') /\ Drops(cache', cache, {cache.tpToPpc[p]})
      /\ cache.available = << >> => cache'.available = << >>
  BY <1>1, <1>2, MarkStaleProperties
<1>4. TypeOK'
  <2>1. position' \in [Partitions -> Nat]
    BY <1>1, <1>2, OffsetAssumption DEF TypeOK
  <2> QED BY <1>1, <1>2, <1>3, <2>1 DEF TypeOK, WellFormed
<1>5. ListsMatchMap'
  BY <1>3 DEF ListsMatchMap, WellFormed, ListsMatch, Mapped
<1>6. ExclusiveHolder'
  BY <1>2, <1>3, DropsKeepsHolders
<1>7. NoLostWakeup'
  BY <1>2, <1>3 DEF Inv, NoLostWakeup
<1> QED BY <1>4, <1>5, <1>6, <1>7 DEF Inv

\* A call of clear preserves the invariant.
LEMMA ClearStep ==
  ASSUME Inv, NEW o \in Offsets, Clear(o)
  PROVE  Inv'
<1>1. WellFormed(cache) /\ TypeOK
  BY InvWellFormed DEF Inv
<1>2. cache' = clear(cache) /\ position' = [p \in Partitions |-> o]
      /\ UNCHANGED <<held, taken, waiting>>
  BY DEF Clear
<1>3. WellFormed(cache') /\ Drops(cache', cache, Ppcs) /\ cache'.available = << >>
  BY <1>1, <1>2, ClearProperties
<1>4. TypeOK'
  <2>1. position' \in [Partitions -> Nat]
    BY <1>2, OffsetAssumption
  <2> QED BY <1>1, <1>2, <1>3, <2>1 DEF TypeOK, WellFormed
<1>5. ListsMatchMap'
  BY <1>3 DEF ListsMatchMap, WellFormed, ListsMatch, Mapped
<1>6. ExclusiveHolder'
  BY <1>2, <1>3, DropsKeepsHolders
<1>7. NoLostWakeup'
  BY <1>3 DEF NoLostWakeup
<1> QED BY <1>4, <1>5, <1>6, <1>7 DEF Inv

\* The new cache, with no caller, satisfies the invariant.
LEMMA InitInv == Init => Inv
<1> SUFFICES ASSUME Init PROVE Inv
  OBVIOUS
<1>1. WellFormed(cache)
  BY EmptyCacheWellFormed DEF Init
<1>2. TypeOK
  <2>1. held \in [Workers -> PpcOrNull] /\ taken \in [Workers -> Seq(Offsets)]
        /\ position \in [Partitions -> Nat] /\ waiting \subseteq Workers
    BY DEF Init, PpcOrNull
  <2> QED BY <1>1, <2>1 DEF TypeOK, WellFormed
<1>3. ListsMatchMap
  BY <1>1 DEF WellFormed, ListsMatchMap
<1>4. ExclusiveHolder
  BY DEF Init, ExclusiveHolder, EmptyCache
<1>5. NoLostWakeup
  BY DEF Init, NoLostWakeup
<1> QED BY <1>2, <1>3, <1>4, <1>5 DEF Inv

\* Every step of the workers and of the fetches preserves the invariant.
LEMMA NextInv == Inv /\ [Next]_vars => Inv'
<1> SUFFICES ASSUME Inv, [Next]_vars PROVE Inv'
  OBVIOUS
<1>1. ASSUME NEW count \in [Partitions -> 0..MaxFetch], NEW order \in Orders, AddMessages(count, order)
      PROVE  Inv'
  BY <1>1, AddMessagesStep
<1>2. ASSUME NEW w \in Workers, NEW n \in BatchSizes, NextN(w, n) PROVE Inv'
  BY <1>2, NextNStep
<1>3. ASSUME NEW w \in Workers, Return(w) PROVE Inv'
  BY <1>3, ReturnStep
<1>4. ASSUME NEW w \in Workers, ReturnMessages(w) PROVE Inv'
  BY <1>4, ReturnMessagesStep
<1>5. ASSUME NEW p \in Partitions, NEW o \in Offsets, MarkStale(p, o) PROVE Inv'
  BY <1>5, MarkStaleStep
<1>6. ASSUME NEW o \in Offsets, Clear(o) PROVE Inv'
  BY <1>6, ClearStep
<1>7. CASE Notify
  BY <1>7 DEF Notify, Inv, TypeOK, ListsMatchMap, ListsMatch, ExclusiveHolder, NoLostWakeup, Mapped
<1>8. CASE UNCHANGED vars
  BY <1>8 DEF vars, Inv, TypeOK, ListsMatchMap, ListsMatch, ExclusiveHolder, NoLostWakeup, Mapped
<1> QED BY <1>1, <1>2, <1>3, <1>4, <1>5, <1>6, <1>7, <1>8 DEF Next

\* However workers and callers interleave the methods of the cache: its map,
\* lists and flags agree (ListsMatchMap), no partition is in the hands of two
\* workers (ExclusiveHolder), and no worker waits while there is a partition it
\* could take (NoLostWakeup).
THEOREM CacheSafe == Spec => [](TypeOK /\ ListsMatchMap /\ ExclusiveHolder /\ NoLostWakeup)
<1>1. Inv => TypeOK /\ ListsMatchMap /\ ExclusiveHolder /\ NoLostWakeup
  BY DEF Inv
<1> QED BY InitInv, NextInv, <1>1, PTL DEF Spec
=============================================================================
