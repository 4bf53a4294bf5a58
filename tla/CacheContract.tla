--------------------------- MODULE CacheContract ---------------------------
(***************************************************************************)
(* What a caller of the render cache of cmd/ballotstudio/cache.go may see, *)
(* as operators on the keyed store the cache stands for.  A store maps     *)
(* every key to the value last stored under it, or to None.                *)
(*                                                                         *)
(* Each operator is the set of outcomes of one call.  A call returns or it *)
(* panics: the heap of access times that Put and Get maintain is indexed   *)
(* through cacheEntry.seeni, and the eviction loop of Put type-asserts a   *)
(* value type where the heap holds pointers.  CacheSpec turns the operators*)
(* into a specification, RenderCache is shown to implement it, and Studio  *)
(* builds its request handlers on them.                                    *)
(***************************************************************************)
CONSTANT None       \* the absent value: a nil entry, a missing row

(* Get returns what is stored; for a present key it may panic in heap.Fix. *)
GetOutcomes(store, k) ==
  {[data |-> store[k], panic |-> FALSE]}
    \cup IF store[k] = None THEN {} ELSE {[data |-> None, panic |-> TRUE]}

(* Put stores and returns; or it stores and panics while evicting; or it   *)
(* panics in heap.Fix before the map is written, which happens only when   *)
(* it replaces an entry.                                                   *)
PutOutcomes(store, k, v) ==
  [store : {[store EXCEPT ![k] = v]}, panic : BOOLEAN]
    \cup IF store[k] = None THEN {} ELSE {[store |-> store, panic |-> TRUE]}

(* Invalidate removes the key and cannot panic.                            *)
Invalidated(store, k) == [store EXCEPT ![k] = None]
=============================================================================
