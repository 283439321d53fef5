--------------------------- MODULE LastSyncProofs ---------------------------
(***************************************************************************)
(* Proof, for all payloads, labels, admission policies and numbers of      *)
(* edits, that the stamp on a copy is that of the controller's last write  *)
(* of its data.                                                            *)
(***************************************************************************)
EXTENDS LastSync, WatchedStoreProofs

LastSyncTypeOK ==
    /\ source \in Entry(Source)
    /\ copy \in Entry(StoredCopy)
    /\ policy \in Policies
    /\ wrote \in Stamp
    /\ edits \in Nat

StampInv == LastSyncTypeOK /\ StampIsLastDataWrite


-----------------------------------------------------------------------------
\* Admission makes a copy of a copy, with the same data and stamp.
LEMMA AdmissionFacts ==
    ASSUME policy \in Policies, NEW o \in Copy
    PROVE  /\ admission(o) \in Copy
           /\ admission(o).stamp = o.stamp
           /\ admission(o) # NoCopy
<1>1. policy.adds \in SUBSET Label /\ policy.removes \in SUBSET Label
  BY LastSyncAssumption
<1>2. admission(o) \in Copy /\ admission(o).stamp = o.stamp
  BY <1>1 DEF admission, Copy
<1> QED
  BY <1>2, LastSyncAssumption

\* After a write of o the live object has o's stamp, also when the API server
\* found nothing to change.
LEMMA StoresFacts ==
    ASSUME LastSyncTypeOK, NEW o \in Copy, Stores(o)
    PROVE  /\ copy' \in Entry(StoredCopy)
           /\ Live(copy') # NoCopy /\ Live(copy').stamp = o.stamp
<1>1. policy \in Policies /\ copy \in Entry(StoredCopy)
  BY DEF LastSyncTypeOK
<1>2. admission(o) \in StoredCopy /\ admission(o) # NoCopy
      /\ admission(o).stamp = o.stamp
  BY <1>1, AdmissionFacts DEF StoredCopy
<1>3. CASE admission(o) = Live(copy)
  BY <1>1, <1>2, <1>3 DEF Stores
<1>4. CASE admission(o) # Live(copy)
  <2>1. copy' = Put(copy, admission(o))
    BY <1>4 DEF Stores
  <2> QED
    BY <1>1, <1>2, <2>1, PutFacts
<1> QED
  BY <1>3, <1>4

\* What people make by hand bears no stamp.
LEMMA HandMadeFacts ==
    ASSUME NEW d \in Data
    PROVE  HandMadeCopy(d) \in Copy /\ HandMadeCopy(d).stamp = "none"
  BY DEF HandMadeCopy, Copy, Stamp

\* The desired copy is a copy stamped anew.
LEMMA DesiredFacts ==
    ASSUME LastSyncTypeOK
    PROVE  desired \in Copy /\ desired.stamp = "now"
<1>1. source.cache \in Source
  BY DEF LastSyncTypeOK, Entry
<1> QED
  BY <1>1 DEF desired, Source, Copy, Stamp

\* keepLastSync moves the stamp exactly when the data or a missing stamp calls
\* for it, and leaves the data alone.
LEMMA KeepLastSyncFacts ==
    ASSUME NEW before \in Copy, NEW after \in Copy
    PROVE  /\ keepLastSync(before, after) \in Copy
           /\ keepLastSync(before, after).data = after.data
           /\ keepLastSync(before, after).stamp =
                 IF before.stamp = "none" \/ before.data # after.data
                 THEN after.stamp ELSE before.stamp
  BY DEF keepLastSync, equalIgnoringLabelsAndAnnotations, Copy

\* The live object of a synced entry is the cached one.
LEMMA CurrentIsCached ==
    ASSUME IsCurrent(copy)
    PROVE  Live(copy) = copy.cache
  BY DEF IsCurrent, Live

\* Time passes for stored objects and for the last write alike.
LEMMA TickFacts ==
    ASSUME LastSyncTypeOK, Tick
    PROVE  copy' \in Entry(StoredCopy) /\ Live(copy') = OlderCopy(Live(copy))
<1> DEFINE w == copy.watch
           v == [i \in DOMAIN w |-> OlderCopy(w[i])]
<1>1. copy.cache \in StoredCopy /\ w \in Seq(StoredCopy)
  BY DEF LastSyncTypeOK, Entry
<1>2. \A o \in StoredCopy : OlderCopy(o) \in StoredCopy
  BY DEF StoredCopy, OlderCopy, Older, Copy, Stamp
<1>3. DOMAIN w = 1 .. Len(w) /\ Len(w) \in Nat
      /\ \A i \in 1 .. Len(w) : w[i] \in StoredCopy
  BY <1>1, ElementOfSeq, LenProperties
<1>4. v \in [1 .. Len(w) -> StoredCopy]
  BY <1>2, <1>3
<1>5. v \in Seq(StoredCopy) /\ Len(v) = Len(w)
  BY <1>3, <1>4, SeqDef, LenProperties
<1>6. copy' = [cache |-> OlderCopy(copy.cache), watch |-> v]
  BY DEF Tick
<1>7. copy' \in Entry(StoredCopy)
  BY <1>1, <1>2, <1>5, <1>6 DEF Entry
<1>8. (v = <<>>) <=> (w = <<>>)
  BY <1>1, <1>5, EmptySeq
<1>9. CASE w = <<>>
  BY <1>6, <1>7, <1>8, <1>9 DEF Live
<1>10. CASE w # <<>>
  <2>1. Len(w) \in DOMAIN w
    BY <1>1, <1>3, <1>10, EmptySeq
  <2>2. v[Len(v)] = OlderCopy(w[Len(w)])
    BY <1>5, <2>1
  <2> QED
    BY <1>6, <1>7, <1>8, <1>10, <2>2 DEF Live
<1> QED
  BY <1>9, <1>10

-----------------------------------------------------------------------------
\* The invariant holds at the start: nothing in the target bears a stamp.
LEMMA StampInit == LastSyncInit => StampInv
<1> SUFFICES ASSUME LastSyncInit PROVE StampInv
  OBVIOUS
<1>1. PICK o \in Source : source = Synced(o)
  BY DEF LastSyncInit
<1>2. PICK c \in {NoCopy} \cup {HandMadeCopy(d) : d \in Data} : copy = Synced(c)
  BY DEF LastSyncInit
<1>3. c \in StoredCopy /\ (c # NoCopy => c.stamp = "none")
  <2>1. CASE c = NoCopy
    BY <2>1 DEF StoredCopy
  <2>2. CASE \E d \in Data : c = HandMadeCopy(d)
    BY <2>2, HandMadeFacts DEF StoredCopy
  <2> QED
    BY <2>1, <2>2
<1>4. source \in Entry(Source) /\ copy \in Entry(StoredCopy) /\ Live(copy) = c
  BY <1>1, <1>2, <1>3, SyncedFacts
<1> QED
  BY <1>3, <1>4, LastSyncAssumption
     DEF LastSyncInit, StampInv, LastSyncTypeOK, StampIsLastDataWrite, Stamp

\* Each write of the controller stamps the copy with what wrote becomes.
LEMMA ControllerKeepsStamp ==
    ASSUME StampInv, CreateCopy \/ UpdateCopy
    PROVE  StampInv'
<1>1. LastSyncTypeOK /\ StampIsLastDataWrite /\ copy \in Entry(StoredCopy)
  BY DEF StampInv, LastSyncTypeOK
<1>2. desired \in Copy /\ desired.stamp = "now"
  BY <1>1, DesiredFacts
<1>3. ASSUME NEW o \in Copy, ControllerWrites(o),
             Live(copy) = NoCopy => o.stamp = "now",
             Live(copy) # NoCopy =>
                o.stamp = IF Live(copy).stamp = "none" \/ Live(copy).data # o.data
                          THEN "now" ELSE Live(copy).stamp
      PROVE  StampInv'
  <2>1. copy' \in Entry(StoredCopy) /\ Live(copy') # NoCopy
        /\ Live(copy').stamp = o.stamp
    BY <1>1, <1>3, StoresFacts DEF ControllerWrites
  <2>2. wrote' \in Stamp
    BY <1>1, <1>3 DEF ControllerWrites, LastSyncTypeOK, Stamp
  <2>3. o.stamp = wrote'
    BY <1>1, <1>3 DEF ControllerWrites, StampIsLastDataWrite
  <2> QED
    BY <1>1, <1>3, <2>1, <2>2, <2>3
       DEF ControllerWrites, StampInv, LastSyncTypeOK, StampIsLastDataWrite
<1>4. CASE CreateCopy
  BY <1>2, <1>3, <1>4 DEF CreateCopy
<1>5. CASE UpdateCopy
  <2> DEFINE after == keepLastSync(copy.cache, desired)
  <2>1. copy.cache \in Copy /\ Live(copy) = copy.cache
        /\ Live(copy) # NoCopy /\ ControllerWrites(after)
    BY <1>1, <1>5, CurrentIsCached DEF UpdateCopy, Entry, StoredCopy
  <2>2. after \in Copy /\ after.data = desired.data
        /\ after.stamp = IF copy.cache.stamp = "none" \/ copy.cache.data # desired.data
                         THEN "now" ELSE copy.cache.stamp
    BY <1>2, <2>1, KeepLastSyncFacts
  <2> HIDE DEF after
  <2> QED
    BY <1>3, <2>1, <2>2
<1> QED
  BY <1>4, <1>5

\* People change no stamp, they only take it off.
LEMMA UserKeepsStamp ==
    ASSUME StampInv, UserStep
    PROVE  StampInv'
<1>1. LastSyncTypeOK /\ StampIsLastDataWrite /\ copy \in Entry(StoredCopy)
      /\ source \in Entry(Source) /\ policy \in Policies
  BY DEF StampInv, LastSyncTypeOK
<1>2. edits' \in Nat /\ wrote' = wrote
  BY <1>1 DEF UserStep, LastSyncTypeOK
<1>3. ASSUME copy' \in Entry(StoredCopy), source' \in Entry(Source), policy' \in Policies,
             Live(copy') # NoCopy /\ Live(copy').stamp # "none"
                => Live(copy').stamp = wrote
      PROVE  StampInv'
  BY <1>1, <1>2, <1>3 DEF StampInv, LastSyncTypeOK, StampIsLastDataWrite
<1>4. ASSUME NEW o \in Copy, Stores(o), UNCHANGED <<source, policy>>,
             o.stamp # "none" => o.stamp = wrote
      PROVE  StampInv'
  BY <1>1, <1>3, <1>4, StoresFacts
<1>5. CASE \E o \in Source : source' = Put(source, o) /\ UNCHANGED <<copy, policy>>
  BY <1>1, <1>3, <1>5, PutFacts DEF StampIsLastDataWrite
<1>6. CASE Live(copy) # NoCopy /\ UNCHANGED <<source, policy>> /\
           \/ \E d \in Data : Stores([Live(copy) EXCEPT !.data = d])
           \/ \E ls \in SUBSET Label : Stores([Live(copy) EXCEPT !.labels = ls])
           \/ Stores([Live(copy) EXCEPT !.stamp = "none"])
           \/ copy' = Put(copy, NoCopy)
  <2>1. Live(copy) \in Copy /\ (Live(copy).stamp # "none" => Live(copy).stamp = wrote)
    BY <1>1, <1>6, LiveType DEF StoredCopy, StampIsLastDataWrite
  <2>2. CASE \E d \in Data : Stores([Live(copy) EXCEPT !.data = d])
    <3>1. PICK d \in Data : Stores([Live(copy) EXCEPT !.data = d])
      BY <2>2
    <3>2. [Live(copy) EXCEPT !.data = d] \in Copy
          /\ [Live(copy) EXCEPT !.data = d].stamp = Live(copy).stamp
      BY <2>1 DEF Copy
    <3> QED
      BY <1>4, <1>6, <2>1, <3>1, <3>2
  <2>3. CASE \E ls \in SUBSET Label : Stores([Live(copy) EXCEPT !.labels = ls])
    <3>1. PICK ls \in SUBSET Label : Stores([Live(copy) EXCEPT !.labels = ls])
      BY <2>3
    <3>2. [Live(copy) EXCEPT !.labels = ls] \in Copy
          /\ [Live(copy) EXCEPT !.labels = ls].stamp = Live(copy).stamp
      BY <2>1 DEF Copy
    <3> QED
      BY <1>4, <1>6, <2>1, <3>1, <3>2
  <2>4. CASE Stores([Live(copy) EXCEPT !.stamp = "none"])
    <3>1. [Live(copy) EXCEPT !.stamp = "none"] \in Copy
          /\ [Live(copy) EXCEPT !.stamp = "none"].stamp = "none"
      BY <2>1 DEF Copy, Stamp
    <3> QED
      BY <1>4, <1>6, <2>4, <3>1
  <2>5. CASE copy' = Put(copy, NoCopy)
    <3>1. NoCopy \in StoredCopy
      BY DEF StoredCopy
    <3>2. copy' \in Entry(StoredCopy) /\ Live(copy') = NoCopy
      BY <1>1, <2>5, <3>1, PutFacts
    <3> QED
      BY <1>1, <1>3, <1>6, <3>2
  <2> QED
    BY <1>6, <2>2, <2>3, <2>4, <2>5
<1>7. CASE \E d \in Data : Stores(HandMadeCopy(d)) /\ UNCHANGED <<source, policy>>
  <2>1. PICK d \in Data : Stores(HandMadeCopy(d)) /\ UNCHANGED <<source, policy>>
    BY <1>7
  <2> QED
    BY <1>4, <2>1, HandMadeFacts
<1>8. CASE policy' \in Policies /\ UNCHANGED <<source, copy>>
  BY <1>1, <1>3, <1>8 DEF StampIsLastDataWrite
<1> QED
  BY <1>5, <1>6, <1>7, <1>8 DEF UserStep

\* Every step keeps the invariant.
LEMMA StampStep == StampInv /\ [LastSyncNext]_lastSyncVars => StampInv'
<1> SUFFICES ASSUME StampInv, [LastSyncNext]_lastSyncVars PROVE StampInv'
  OBVIOUS
<1>1. LastSyncTypeOK /\ StampIsLastDataWrite /\ copy \in Entry(StoredCopy)
      /\ source \in Entry(Source)
  BY DEF StampInv, LastSyncTypeOK
<1>2. CASE CreateCopy \/ UpdateCopy
  BY <1>2, ControllerKeepsStamp
<1>3. CASE DeliverSource
  <2>1. source' \in Entry(Source)
    BY <1>1, <1>3, ObserveFacts DEF DeliverSource
  <2> QED
    BY <1>1, <1>3, <2>1
       DEF DeliverSource, StampInv, LastSyncTypeOK, StampIsLastDataWrite
<1>4. CASE DeliverCopy
  <2>1. copy' \in Entry(StoredCopy) /\ Live(copy') = Live(copy)
    BY <1>1, <1>4, ObserveFacts DEF DeliverCopy
  <2> QED
    BY <1>1, <1>4, <2>1
       DEF DeliverCopy, StampInv, LastSyncTypeOK, StampIsLastDataWrite
<1>5. CASE Tick
  <2>1. copy' \in Entry(StoredCopy) /\ Live(copy') = OlderCopy(Live(copy))
    BY <1>1, <1>5, TickFacts
  <2>2. Live(copy) \in StoredCopy
    BY <1>1, LiveType
  <2>3. wrote' \in Stamp
    BY <1>1, <1>5 DEF Tick, LastSyncTypeOK, Older, Stamp
  <2>4. StampIsLastDataWrite'
    BY <1>1, <1>5, <2>1, <2>2 DEF Tick, StampIsLastDataWrite, OlderCopy, Older, StoredCopy, Copy
  <2> QED
    BY <1>1, <1>5, <2>1, <2>3, <2>4 DEF Tick, StampInv, LastSyncTypeOK
<1>6. CASE UserStep
  BY <1>6, UserKeepsStamp
<1>7. CASE UNCHANGED lastSyncVars
  BY <1>7 DEF lastSyncVars, StampInv, LastSyncTypeOK, StampIsLastDataWrite
<1> QED
  BY <1>2, <1>3, <1>4, <1>5, <1>6, <1>7 DEF LastSyncNext

\* The last-sync annotation of a copy is the time of the last write of its data
\* (keepLastSync in createOrUpdateResource), whatever admission does to labels,
\* however late the caches are and whatever people do to the copy.  A copy that
\* lost its stamp gets a new one with the next write, which counts as one of data.
THEOREM StampIsTrue == LastSyncSpec => []StampIsLastDataWrite
<1>1. StampInv => StampIsLastDataWrite
  BY DEF StampInv
<1> QED
  BY <1>1, StampInit, StampStep, PTL DEF LastSyncSpec

=============================================================================
