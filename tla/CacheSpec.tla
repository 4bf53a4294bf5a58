----------------------------- MODULE CacheSpec -----------------------------
(***************************************************************************)
(* What the render cache promises its callers: a keyed store whose calls   *)
(* have the outcomes of CacheContract.  RenderCache implements it.         *)
(***************************************************************************)
EXTENDS CacheContract

CONSTANTS Keys, Values

VARIABLES store,   \* the value last stored under each key, or None
          last     \* the last call and its outcome

Init == store = [k \in Keys |-> None] /\ last = None

Put(k, v) ==
  \E o \in PutOutcomes(store, k, v) :
    /\ store' = o.store
    /\ last' = [op |-> "put", key |-> k, data |-> v, panic |-> o.panic]

Get(k) ==
  \E o \in GetOutcomes(store, k) :
    /\ last' = [op |-> "get", key |-> k, data |-> o.data, panic |-> o.panic]
    /\ UNCHANGED store

Invalidate(k) ==
  /\ store' = Invalidated(store, k)
  /\ last' = [op |-> "invalidate", key |-> k, data |-> None, panic |-> FALSE]

Next == \E k \in Keys : Get(k) \/ Invalidate(k) \/ \E v \in Values : Put(k, v)

Spec == Init /\ [][Next]_<<store, last>>
=============================================================================
