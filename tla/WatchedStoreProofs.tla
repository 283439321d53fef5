------------------------- MODULE WatchedStoreProofs -------------------------
(***************************************************************************)
(* What storing a version and delivering one do to the live value of a     *)
(* watched key.                                                            *)
(***************************************************************************)
EXTENDS WatchedStore, SequenceTheorems, TLAPS

\* The last element of a sequence is also the last of its tail, if that has one.
LEMMA LastOfTail ==
    ASSUME NEW V, NEW w \in Seq(V), w # <<>>, Len(w) # 1
    PROVE  Tail(w) # <<>> /\ Tail(w)[Len(Tail(w))] = w[Len(w)]
<1> DEFINE n == Len(w)
<1>1. n \in Nat \ {0}
  BY EmptySeq
<1>2. n - 1 # 0 /\ n - 1 \in 1 .. (n - 1) /\ (n - 1) + 1 = n
  <2> n # 1
    OBVIOUS
  <2> HIDE DEF n
  <2> QED
    BY <1>1
<1>3. Len(Tail(w)) = n - 1 /\ \A i \in 1 .. Len(Tail(w)) : Tail(w)[i] = w[i + 1]
  BY HeadTailProperties
<1>4. Tail(w) # <<>>
  <2>1. Len(<<>>) = 0
    BY EmptySeq
  <2> QED
    BY <1>2, <1>3, <2>1, Zenon
<1>5. Tail(w)[n - 1] = w[(n - 1) + 1]
  BY <1>2, <1>3
<1> QED
  BY <1>2, <1>3, <1>4, <1>5

\* Storing a version keeps the type and makes it the live one.
LEMMA PutFacts ==
    ASSUME NEW V, NEW e \in Entry(V), NEW v \in V
    PROVE  /\ Put(e, v) \in Entry(V)
           /\ Live(Put(e, v)) = v
<1>1. e.watch \in Seq(V)
  BY DEF Entry
<1>2. Append(e.watch, v) \in Seq(V) /\ Append(e.watch, v) # <<>>
      /\ Append(e.watch, v)[Len(Append(e.watch, v))] = v
  BY <1>1
<1>3. Put(e, v) = [cache |-> e.cache, watch |-> Append(e.watch, v)]
  BY DEF Put, Entry
<1> QED
  BY <1>2, <1>3 DEF Entry, Live

\* The live version is one of the stored values.
LEMMA LiveType ==
    ASSUME NEW V, NEW e \in Entry(V)
    PROVE  Live(e) \in V
<1>1. e.watch \in Seq(V) /\ e.cache \in V
  BY DEF Entry
<1> QED
  BY <1>1 DEF Live

\* A delivery keeps the type and does not change the live version.
LEMMA ObserveFacts ==
    ASSUME NEW V, NEW e \in Entry(V), ~ IsCurrent(e)
    PROVE  /\ Observe(e) \in Entry(V)
           /\ Live(Observe(e)) = Live(e)
<1>1. e.watch \in Seq(V) /\ e.watch # <<>>
  BY DEF Entry, IsCurrent
<1>2. Head(e.watch) \in V /\ Tail(e.watch) \in Seq(V)
  BY <1>1
<1>3. CASE Len(e.watch) = 1
  BY <1>1, <1>2, <1>3 DEF Observe, Live, Entry
<1>4. CASE Len(e.watch) # 1
  <2>1. Tail(e.watch) # <<>> /\ Tail(e.watch)[Len(Tail(e.watch))] = e.watch[Len(e.watch)]
    BY <1>1, <1>4, LastOfTail
  <2> QED
    BY <1>1, <1>2, <2>1 DEF Observe, Live, Entry
<1> QED
  BY <1>3, <1>4

\* An entry that was just listed has the type and the value it was given.
LEMMA SyncedFacts ==
    ASSUME NEW V, NEW v \in V
    PROVE  Synced(v) \in Entry(V) /\ Live(Synced(v)) = v
  BY DEF Synced, Entry, Live

\* The cached and the live version are versions, and versions are stored values.
LEMMA VersionsFacts ==
    ASSUME NEW V, NEW e \in Entry(V)
    PROVE  /\ Versions(e) \subseteq V
           /\ e.cache \in Versions(e)
           /\ Live(e) \in Versions(e)
<1>1. e.cache \in V /\ e.watch \in Seq(V)
  BY DEF Entry
<1>2. DOMAIN e.watch = 1 .. Len(e.watch) /\ \A i \in 1 .. Len(e.watch) : e.watch[i] \in V
  BY <1>1
<1>3. e.watch # <<>> => Len(e.watch) \in 1 .. Len(e.watch)
  BY <1>1
<1> QED
  BY <1>1, <1>2, <1>3 DEF Versions, Undelivered, Live

\* Storing a version adds it to those on their way.
LEMMA PutVersions ==
    ASSUME NEW V, NEW e \in Entry(V), NEW v \in V
    PROVE  /\ Put(e, v).cache = e.cache
           /\ Undelivered(Put(e, v)) = Undelivered(e) \cup {v}
           /\ Versions(Put(e, v)) = Versions(e) \cup {v}
<1> DEFINE w == e.watch
           n == Len(w)
<1>1. e.cache \in V /\ w \in Seq(V)
  BY DEF Entry
<1>2. /\ n \in Nat /\ DOMAIN w = 1 .. n
      /\ Append(w, v) \in Seq(V)
      /\ DOMAIN Append(w, v) = 1 .. n + 1
      /\ \A i \in 1 .. n : Append(w, v)[i] = w[i]
      /\ Append(w, v)[n + 1] = v
  BY <1>1
<1>3. Put(e, v).cache = e.cache /\ Put(e, v).watch = Append(w, v)
  BY DEF Put, Entry
<1>4. {Append(w, v)[i] : i \in 1 .. n + 1} = {w[i] : i \in 1 .. n} \cup {v}
  <2> HIDE DEF w, n
  <2>1. \A i \in 1 .. n + 1 : i \in 1 .. n \/ i = n + 1
    BY <1>2
  <2>2. \A i \in 1 .. n : i \in 1 .. n + 1
    BY <1>2
  <2>3. n + 1 \in 1 .. n + 1
    BY <1>2
  <2> QED
    BY <1>2, <2>1, <2>2, <2>3
<1>5. Undelivered(Put(e, v)) = Undelivered(e) \cup {v}
  BY <1>2, <1>3, <1>4 DEF Undelivered
<1> QED
  BY <1>3, <1>5 DEF Versions

\* A delivery moves a version that was on its way into the cache.
LEMMA ObserveVersions ==
    ASSUME NEW V, NEW e \in Entry(V), ~ IsCurrent(e)
    PROVE  /\ Observe(e).cache \in Undelivered(e)
           /\ Undelivered(Observe(e)) \subseteq Undelivered(e)
           /\ Versions(Observe(e)) \subseteq Versions(e)
<1> DEFINE w == e.watch
           n == Len(w)
<1>1. w \in Seq(V) /\ w # <<>>
  BY DEF Entry, IsCurrent
<1>2. /\ n \in Nat \ {0} /\ DOMAIN w = 1 .. n
      /\ Tail(w) \in Seq(V) /\ DOMAIN Tail(w) = 1 .. n - 1
      /\ \A i \in 1 .. n - 1 : Tail(w)[i] = w[i + 1]
      /\ Head(w) = w[1]
  BY <1>1
<1>3. Observe(e).cache = Head(w) /\ Observe(e).watch = Tail(w)
  BY DEF Observe
<1>4. \A i \in 1 .. n - 1 : i + 1 \in 1 .. n
  BY <1>2
<1>5. 1 \in 1 .. n
  BY <1>2
<1> HIDE DEF n
<1>6. Observe(e).cache \in Undelivered(e)
  BY <1>2, <1>3, <1>5 DEF Undelivered
<1>7. Undelivered(Observe(e)) \subseteq Undelivered(e)
  BY <1>2, <1>3, <1>4 DEF Undelivered
<1> QED
  BY <1>6, <1>7 DEF Versions

\* A cache that was just listed holds the only version.
LEMMA SyncedVersions ==
    ASSUME NEW v
    PROVE  Undelivered(Synced(v)) = {} /\ Versions(Synced(v)) = {v}
  BY DEF Versions, Undelivered, Synced

=============================================================================
