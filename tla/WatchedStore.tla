---------------------------- MODULE WatchedStore ----------------------------
(***************************************************************************)
(* One key of the Kubernetes API server as the controller sees it: the     *)
(* value in the informer cache, and the versions the API server has        *)
(* accepted since then and the watch has not delivered yet, oldest first.  *)
(* The live value is the newest of them.                                   *)
(*                                                                         *)
(* Resource versions are implied.  A client that read the cached version   *)
(* holds the live resource version exactly when nothing is undelivered, so *)
(* an update that carries it is accepted exactly then.                     *)
(***************************************************************************)
EXTENDS Sequences, Naturals

Entry(V) == [cache : V, watch : Seq(V)]

\* An entry whose cached value is the live one.
Synced(v) == [cache |-> v, watch |-> <<>>]

Live(e) == IF e.watch = <<>> THEN e.cache ELSE e.watch[Len(e.watch)]

\* The versions on their way to the cache, and those it holds or will hold.
Undelivered(e) == {e.watch[i] : i \in DOMAIN e.watch}
Versions(e) == {e.cache} \cup Undelivered(e)

\* The cached version is the live version.
IsCurrent(e) == e.watch = <<>>

\* The API server accepts a new version.
Put(e, v) == [e EXCEPT !.watch = Append(@, v)]

\* The watch delivers the oldest version the cache has not seen.
Observe(e) == [cache |-> Head(e.watch), watch |-> Tail(e.watch)]

=============================================================================
