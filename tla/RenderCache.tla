---------------------------- MODULE RenderCache ----------------------------
(***************************************************************************)
(* cmd/ballotstudio/cache.go: the map of entries, the container/heap of    *)
(* access times kept beside it, the byte count, and the eviction loop.     *)
(*                                                                         *)
(* An entry is named by the value ai had when Put allocated it; that       *)
(* number also stands for the data, which is new in every Put.  Slot i of  *)
(* the Go slice they is they[i + 1]; seeni keeps the zero-based index.     *)
(* A call that panics leaves behind what it had done until then.           *)
(***************************************************************************)
EXTENDS CacheContract, Naturals, Sequences, FiniteSetsExt

CONSTANTS Keys,
          Sizes,      \* sizes of renderings
          Capacity,   \* Cache.MaxSize
          Word,       \* currentSize is unsigned: it wraps at Word
          MaxOps      \* bound on the access counter, for model checking

ASSUME BoundsAssumption ==
  /\ {Capacity, Word, MaxOps} \subseteq Nat
  /\ Sizes \subseteq 0 .. Word - 1 /\ Capacity < Word
(* A size is the length of a slice, MaxSize is 10,000,000 and Word 2^64.   *)
ASSUME FitAssumption == \A sz \in Sizes : Capacity + sz < Word
ASSUME KeysAssumption == IsFiniteSet(Keys)
ASSUME NoneNotStamp == None \notin Nat

VARIABLES size,         \* entry -> cacheEntry.size
          seen, seeni,  \* entry -> cacheEntry.seen, cacheEntry.seeni
          byKey,        \* Cache.byKey: key -> entry or None
          they,         \* Cache.bySeen.they
          currentSize, ai,
          last,         \* the last call and its outcome
          popped        \* history: the eviction loop has popped the heap

vars == <<size, seen, seeni, byKey, they, currentSize, ai, last, popped>>

Stamps == 0 .. MaxOps - 1

Init ==
  /\ size = [e \in Stamps |-> 0]
  /\ seen = [e \in Stamps |-> 0]
  /\ seeni = [e \in Stamps |-> 0]
  /\ byKey = [k \in Keys |-> None]
  /\ they = <<>>
  /\ currentSize = 0 /\ ai = 0
  /\ last = None
  /\ popped = FALSE

-----------------------------------------------------------------------------
(* seenHeap, and container/heap working on it.  A heap is a record of they,*)
(* seen and seeni.  Up and Down walk along one path of the tree, so as many*)
(* steps as the slice is long are enough.                                  *)

Less(h, i, j) == h.seen[h.they[i + 1]] < h.seen[h.they[j + 1]]

Swap(h, i, j) ==
  [h EXCEPT !.they  = [@ EXCEPT ![i + 1] = h.they[j + 1], ![j + 1] = h.they[i + 1]],
            !.seeni = [@ EXCEPT ![h.they[j + 1]] = i, ![h.they[i + 1]] = j]]

UpStep(w) ==
  LET parent == (w.at - 1) \div 2
  IN  IF w.at > 0 /\ Less(w.h, w.at, parent)
      THEN [h |-> Swap(w.h, parent, w.at), at |-> parent]
      ELSE w

DownStep(w, n) ==
  LET left  == 2 * w.at + 1
      child == IF left + 1 < n /\ Less(w.h, left + 1, left) THEN left + 1 ELSE left
  IN  IF left < n /\ Less(w.h, child, w.at)
      THEN [h |-> Swap(w.h, w.at, child), at |-> child]
      ELSE w

Up(h, i) ==
  LET up[s \in Nat] == IF s = 0 THEN [h |-> h, at |-> i] ELSE UpStep(up[s - 1])
  IN  up[Len(h.they)]

Down(h, i, n) ==
  LET down[s \in Nat] == IF s = 0 THEN [h |-> h, at |-> i] ELSE DownStep(down[s - 1], n)
  IN  down[Len(h.they)]

Fix(h, i) ==
  LET down == Down(h, i, Len(h.they))
  IN  IF down.at > i THEN down.h ELSE Up(h, i).h

(* Mutant: the index of a pushed entry is taken after the append.          *)
PushIndexed(h, e) ==
  Up([h EXCEPT !.they = Append(@, e), !.seeni = [@ EXCEPT ![e] = Len(h.they) + 1]],
     Len(h.they)).h

Push(h, e) == Up([h EXCEPT !.they = Append(@, e)], Len(h.they)).h

Pop(h) ==
  LET n == Len(h.they) - 1
      d == Down(Swap(h, 0, n), 0, n).h
  IN  [d EXCEPT !.they = SubSeq(@, 1, n)]

(* Fix of a slot beyond the end: only slot 0 is not looked at.             *)
FixPanics(i) == i >= Len(they) /\ i # 0

-----------------------------------------------------------------------------
(* Put allocates its entry with seen = ai and seeni = 0.                   *)
Allocate(sz) ==
  /\ ai < MaxOps
  /\ ai' = ai + 1
  /\ size' = [size EXCEPT ![ai] = sz]
Fresh == [they |-> they, seen |-> [seen EXCEPT ![ai] = ai], seeni |-> seeni]

(* The eviction loop at the end of Put.  Its first round pops the heap and *)
(* then asserts that the popped pointer is a cacheEntry value.             *)
Evict(k, h, cs) ==
  LET full == cs > Capacity
      rest == IF full THEN Pop(h) ELSE h
  IN  /\ they' = rest.they /\ seen' = rest.seen /\ seeni' = rest.seeni
      /\ currentSize' = cs
      /\ popped' = (popped \/ full)
      /\ last' = [op |-> "put", key |-> k, data |-> ai, panic |-> full]

PutNew(k, sz) ==
  /\ byKey[k] = None
  /\ Allocate(sz)
  /\ byKey' = [byKey EXCEPT ![k] = ai]
  /\ Evict(k, Push(Fresh, ai), (currentSize + sz) % Word)

(* Mutants: signed arithmetic; the new size is not added.                  *)
ResizedSigned(prev, sz)   == currentSize - size[prev] + sz
ResizedLess(prev, sz)     == (currentSize + Word - size[prev]) % Word

(* currentSize -= prev.size; currentSize += size, in unsigned arithmetic.  *)
Resized(prev, sz) == (currentSize + Word - size[prev] + sz) % Word

PutReplace(k, sz) ==
  LET prev == byKey[k]
      slot == seeni[prev]
  IN  /\ prev # None
      /\ slot < Len(they)
      /\ Allocate(sz)
      /\ byKey' = [byKey EXCEPT ![k] = ai]
      /\ Evict(k, Fix([Fresh EXCEPT !.they[slot + 1] = ai], slot), Resized(prev, sz))

(* The slot of the previous entry is gone: indexing they panics after the  *)
(* byte count was changed and before the map is.                           *)
PutNoSlot(k, sz) ==
  LET prev == byKey[k]
  IN  /\ prev # None
      /\ seeni[prev] >= Len(they)
      /\ Allocate(sz)
      /\ seen' = Fresh.seen
      /\ currentSize' = Resized(prev, sz)
      /\ last' = [op |-> "put", key |-> k, data |-> ai, panic |-> TRUE]
      /\ UNCHANGED <<seeni, byKey, they, popped>>

GetMiss(k) ==
  /\ byKey[k] = None
  /\ last' = [op |-> "get", key |-> k, data |-> None, panic |-> FALSE]
  /\ UNCHANGED <<size, seen, seeni, byKey, they, currentSize, ai, popped>>

GetHit(k) ==
  LET ent == byKey[k]
      h   == [they |-> they, seen |-> [seen EXCEPT ![ent] = ai], seeni |-> seeni]
      bad == FixPanics(seeni[ent])
      h2  == IF bad THEN h ELSE Fix(h, seeni[ent])
  IN  /\ ent # None
      /\ ai < MaxOps
      /\ ai' = ai + 1
      /\ they' = h2.they /\ seen' = h2.seen /\ seeni' = h2.seeni
      /\ last' = [op |-> "get", key |-> k, data |-> IF bad THEN None ELSE ent,
                  panic |-> bad]
      /\ UNCHANGED <<size, byKey, currentSize, popped>>

(* Mutant: the entry stays in the map.                                     *)
InvalidateNothing(k) ==
  /\ last' = [op |-> "invalidate", key |-> k, data |-> None, panic |-> FALSE]
  /\ UNCHANGED <<size, seen, seeni, byKey, they, currentSize, ai, popped>>

(* Only the map forgets the entry: the heap and the byte count keep it.    *)
Invalidate(k) ==
  /\ byKey' = [byKey EXCEPT ![k] = None]
  /\ last' = [op |-> "invalidate", key |-> k, data |-> None, panic |-> FALSE]
  /\ UNCHANGED <<size, seen, seeni, they, currentSize, ai, popped>>

Next ==
  \E k \in Keys :
    \/ GetMiss(k) \/ GetHit(k) \/ Invalidate(k)
    \/ \E sz \in Sizes : PutNew(k, sz) \/ PutReplace(k, sz) \/ PutNoSlot(k, sz)

Spec == Init /\ [][Next]_vars

-----------------------------------------------------------------------------
(* Properties.                                                             *)

TypeOK ==
  /\ size \in [Stamps -> Nat] /\ seen \in [Stamps -> Nat] /\ seeni \in [Stamps -> Nat]
  /\ byKey \in [Keys -> Stamps \cup {None}]
  /\ they \in Seq(Stamps)
  /\ currentSize \in 0 .. Word - 1 /\ ai \in 0 .. MaxOps
  /\ popped \in BOOLEAN

(* The cache is the keyed store its callers rely on: no call changes, or   *)
(* hands out, the data of another key, and a panicking call leaves the     *)
(* store as it was or as the call meant to leave it.                       *)
Abstract == INSTANCE CacheSpec WITH Values <- Stamps, store <- byKey
ImplementsCacheSpec == Abstract!Spec

(* No call panics before the cache was full for the first time: until then *)
(* every entry the map holds has a slot inside the heap.                   *)
NoEarlyPanic ==
  ~popped => /\ last # None => ~last.panic
             /\ \A k \in Keys : byKey[k] # None => seeni[byKey[k]] < Len(they)

(* Until then the byte count covers what is cached, and stays within       *)
(* MaxSize; invalidated entries are counted for good.                      *)
Held == [k \in Keys |-> IF byKey[k] = None THEN 0 ELSE size[byKey[k]]]
SizeCovers == ~popped => currentSize <= Capacity /\ SumFunction(Held) <= currentSize

(* The eviction loop's type assertion holds, so Put returns (line 90).     *)
PutReturns == last # None /\ last.op = "put" => ~last.panic
=============================================================================
