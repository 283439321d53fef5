------------------------------ MODULE LastSync ------------------------------
(***************************************************************************)
(* The last-sync stamp of one copy (createOrUpdateResource, keepLastSync), *)
(* in an explicit target that no other NamespaceSync claims, and under a   *)
(* mutating admission that adds labels to what is written, or takes some   *)
(* off.                                                                    *)
(*                                                                         *)
(* The reconcile comes round again and again, by watch events and timers.  *)
(* Reads are cached.  Time is relative: a stamp is of the current second   *)
(* or of an earlier one.  Stamps of different earlier seconds need not be  *)
(* told apart: an earlier stamp is only ever compared with itself or with  *)
(* a new one.                                                              *)
(***************************************************************************)
EXTENDS WatchedStore

CONSTANTS
    Data,            \* payloads
    Label,           \* label and annotation keys
    SourceOnlyKeys,  \* keys that stay with the source
    Policies,        \* what a mutating admission may do: [adds, removes]
    NoCopy,          \* nothing is stored in the target
    Edits            \* how often people change something

VARIABLES
    source,  \* Entry(Source)
    copy,    \* Entry(Copy or NoCopy)
    policy,  \* the mutating admission in force
    wrote,   \* when the controller last wrote the copy's data
    edits    \* changes people may still make

lastSyncVars == <<source, copy, policy, wrote, edits>>

\* The stamp is missing, of the current second, or older.
Stamp == {"none", "now", "past"}

Source == [data : Data, labels : SUBSET Label]

\* `managed' stands for the two annotations that name the source.
Copy == [managed : BOOLEAN, data : Data, labels : SUBSET Label, stamp : Stamp]

StoredCopy == Copy \cup {NoCopy}

ASSUME LastSyncAssumption ==
    /\ SourceOnlyKeys \subseteq Label
    /\ Policies \subseteq [adds : SUBSET Label, removes : SUBSET Label]
    /\ NoCopy \notin Copy
    /\ Edits \in Nat

\* The admission leaves data and the controller's annotations alone.
admission(o) == [o EXCEPT !.labels = (@ \ policy.removes) \cup policy.adds]

HandMadeCopy(d) == [managed |-> FALSE, data |-> d, labels |-> {}, stamp |-> "none"]

LastSyncInit ==
    /\ policy \in Policies
    /\ \E o \in Source : source = Synced(o)
    /\ \E o \in {NoCopy} \cup {HandMadeCopy(d) : d \in Data} : copy = Synced(o)
    /\ wrote = "none"
    /\ edits = Edits

-----------------------------------------------------------------------------
\* What the sync wants, stamped anew.
desired == [managed |-> TRUE,
            data    |-> source.cache.data,
            labels  |-> source.cache.labels \ SourceOnlyKeys,
            stamp   |-> "now"]

equalIgnoringLabelsAndAnnotations(a, b) == a.data = b.data

\* Mutants of keepLastSync: every write is stamped anew; the stamp of the first
\* write stays; a missing stamp is kept like any other.
keepLastSyncNever(before, after) == after
keepLastSyncAlways(before, after) ==
    IF before.stamp = "none" THEN after ELSE [after EXCEPT !.stamp = before.stamp]
keepLastSyncMissingToo(before, after) ==
    IF equalIgnoringLabelsAndAnnotations(before, after)
    THEN [after EXCEPT !.stamp = before.stamp] ELSE after

\* An update that leaves the data alone keeps the stamp, if there is one.
keepLastSync(before, after) ==
    IF before.stamp = "none" \/ ~ equalIgnoringLabelsAndAnnotations(before, after)
    THEN after
    ELSE [after EXCEPT !.stamp = before.stamp]

\* The API server lets admission change o and stores the outcome as a new
\* version, unless it is what is stored already.
Stores(o) ==
    copy' = IF admission(o) = Live(copy) THEN copy ELSE Put(copy, admission(o))

\* The controller writes o.  That is a write of data if it changes the data, or
\* if the object bore no stamp before, which keepLastSync answers with a new one
\* even where the data stays.
ControllerWrites(o) ==
    /\ Stores(o)
    /\ wrote' = IF \/ Live(copy) = NoCopy
                   \/ Live(copy).stamp = "none"
                   \/ Live(copy).data # o.data
                THEN "now" ELSE wrote
    /\ UNCHANGED <<source, policy, edits>>

\* Refused if the cache missed an object that is there.
CreateCopy ==
    /\ copy.cache = NoCopy /\ Live(copy) = NoCopy
    /\ ControllerWrites(desired)

\* Made only if it would change the object, and refused if the cached version is
\* not the live one.
UpdateCopy ==
    LET before == copy.cache
        after == keepLastSync(before, desired)
    IN  /\ before # NoCopy /\ IsCurrent(copy)
        /\ after # before
        /\ ControllerWrites(after)

-----------------------------------------------------------------------------
DeliverSource ==
    /\ ~ IsCurrent(source)
    /\ source' = Observe(source)
    /\ UNCHANGED <<copy, policy, wrote, edits>>

DeliverCopy ==
    /\ ~ IsCurrent(copy)
    /\ copy' = Observe(copy)
    /\ UNCHANGED <<source, policy, wrote, edits>>

\* A second passes.
Older(stamp) == IF stamp = "now" THEN "past" ELSE stamp
OlderCopy(o) == IF o = NoCopy THEN NoCopy ELSE [o EXCEPT !.stamp = Older(@)]

Tick ==
    /\ copy' = [cache |-> OlderCopy(copy.cache),
                watch |-> [i \in DOMAIN copy.watch |-> OlderCopy(copy.watch[i])]]
    /\ wrote' = Older(wrote)
    /\ UNCHANGED <<source, policy, edits>>

\* People edit the source, edit, replace or delete what is in the target, take
\* the stamp off it, or change the admission.
UserStep ==
    /\ edits > 0 /\ edits' = edits - 1
    /\ \/ /\ \E o \in Source : o # Live(source) /\ source' = Put(source, o)
          /\ UNCHANGED <<copy, policy>>
       \/ /\ Live(copy) # NoCopy
          /\ \/ \E d \in Data : Stores([Live(copy) EXCEPT !.data = d])
             \/ \E ls \in SUBSET Label : Stores([Live(copy) EXCEPT !.labels = ls])
             \/ Stores([Live(copy) EXCEPT !.stamp = "none"])
             \/ copy' = Put(copy, NoCopy)
          /\ UNCHANGED <<source, policy>>
       \/ /\ \E d \in Data : Stores(HandMadeCopy(d))
          /\ UNCHANGED <<source, policy>>
       \/ /\ policy' \in Policies
          /\ UNCHANGED <<source, copy>>
    /\ UNCHANGED wrote

LastSyncNext ==
    CreateCopy \/ UpdateCopy \/ DeliverSource \/ DeliverCopy \/ Tick \/ UserStep

\* Reconciles come round, timers and watches see to that, and watches deliver.
LastSyncSpec ==
    /\ LastSyncInit /\ [][LastSyncNext]_lastSyncVars
    /\ WF_lastSyncVars(CreateCopy \/ UpdateCopy)
    /\ WF_lastSyncVars(DeliverSource) /\ WF_lastSyncVars(DeliverCopy)

-----------------------------------------------------------------------------
\* The stamp on a copy says when the controller last wrote the copy's data:
\* neither the fresh stamp of every desired copy nor a write that only mends
\* labels moves it, and no write of data leaves it behind (keepLastSync).  A
\* copy without stamp gets that of the next write, which counts as one of data.
StampIsLastDataWrite ==
    Live(copy) # NoCopy /\ Live(copy).stamp # "none" => Live(copy).stamp = wrote

\* In the end no new version of the copy is stored, although reconciles go on
\* for ever, time passes and admission undoes part of every update.
CopyRests == <>[][Len(copy'.watch) <= Len(copy.watch)]_lastSyncVars

\* In the end the copy bears the controller's annotations and a stamp, and has
\* the data of the live source and its labels, without the ones that stay with
\* the source, or what the admission in force makes of them.
CopySettles ==
    <>[](LET wanted == Live(source).labels \ SourceOnlyKeys
         IN  /\ Live(copy) # NoCopy
             /\ Live(copy).managed /\ Live(copy).stamp # "none"
             /\ Live(copy).data = Live(source).data
             /\ Live(copy).labels \in
                   {wanted, (wanted \ policy.removes) \cup policy.adds})

=============================================================================
