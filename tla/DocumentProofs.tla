--------------------------- MODULE DocumentProofs ---------------------------
(***************************************************************************)
(* Proofs about the way of a document through the server: Fixup makes its  *)
(* ids good, a draw server that main starts draws it, what is drawn is     *)
(* kept in the render cache, and its pages are taken from a pipe.          *)
(*                                                                         *)
(* What each of them must come to an end with is finite, and while there   *)
(* is some left it has a next step: a call of Fixup that no other disturbs *)
(* (FixupIsFinite), a main asked to stop (SigtermLeadsOut), and a call of  *)
(* PdfToPng (CallIsFinite, PdfNeverStuck).                                 *)
(*                                                                         *)
(* Fixup: the invariant of one call says what its bookkeeping means: the   *)
(* nodes dealt with are recorded in seen and differ pairwise; the others   *)
(* still are as the client sent them; and while there are nodes to visit,  *)
(* nothing but ids of the client has been recorded, so that a good id is   *)
(* not taken for a duplicate of one that Fixup made.                       *)
(*                                                                         *)
(* Render cache: it implements the keyed store CacheSpec, whatever the     *)
(* heap decides to evict.  About the heap itself the invariant knows that  *)
(* every rearrangement leaves each index in the heap's range, which is     *)
(* what keeps it from panicking while it is not full.                      *)
(*                                                                         *)
(* Draw server: the invariant follows each main from its start to its end. *)
(*                                                                         *)
(* Pages of a PDF: a size is found whatever the order of its bytes; so the *)
(* reader always knows which page it is in, what it holds is the stream    *)
(* up to where it is, and a stream that ends where a field should be, of a *)
(* pdftoppm that has gone well, has been read to the last page.            *)
(***************************************************************************)
EXTENDS IdFixup, RenderCache, LifeCycle, PdfPages, Induction, SequenceTheorems, TLAPS

-----------------------------------------------------------------------------
(* Fixup.                                                                  *)

CallShape(c) ==
  /\ c = [pc |-> c.pc, input |-> c.input, doc |-> c.doc, todo |-> c.todo,
          needs |-> c.needs, seen |-> c.seen, tried |-> c.tried, unki |-> c.unki,
          rec |-> c.rec, prefix |-> c.prefix]
  /\ DOMAIN c.doc = Nodes
  /\ \A n \in Nodes : c.doc[n] = [type |-> c.doc[n].type, id |-> c.doc[n].id]
  /\ c.input \in Inputs
  /\ c.todo \subseteq Nodes /\ c.needs \subseteq Nodes \ c.todo
  /\ c.pc \in {"walk", "enter", "try"}
  /\ c.pc # "walk" => c.rec \in c.needs /\ c.todo = {}

Pair(x)  == <<x.type, x.id>>
Kept(c)  == Nodes \ (c.todo \cup c.needs)

(* A node whose id Fixup must leave alone.                                 *)
Good(c, n) ==
  /\ c.input[n].type \in Listed
  /\ c.input[n].id[1] = PrefixOf[c.input[n].type]
  /\ \A m \in Nodes \ {n} : c.input[m] # c.input[n]

CallInv(c) ==
  /\ CallShape(c)
  /\ \A n \in Nodes : c.doc[n].type = c.input[n].type
  /\ \A n \in c.todo \cup c.needs : c.doc[n] = c.input[n]
  /\ \A n \in Kept(c) : Pair(c.doc[n]) \in c.seen
  /\ \A m, n \in Kept(c) : m # n => Pair(c.doc[m]) # Pair(c.doc[n])
  /\ c.todo # {} => \A s \in c.seen : \E m \in Nodes \ c.todo : s = Pair(c.input[m])
  /\ \A n \in Nodes : Good(c, n) => n \notin c.needs /\ c.doc[n] = c.input[n]
  /\ c.pc = "enter" => c.doc[c.rec].type \notin Listed

MapInv == /\ DOMAIN tsmap = Types
          /\ \A t \in Listed : tsmap[t] = PrefixOf[t]

FixInv == /\ MapInv
       /\ DOMAIN call = Handlers
       /\ \A h \in Handlers : Active(h) => CallInv(call[h])

-----------------------------------------------------------------------------
(* A call starts with its invariant.                                       *)
LEMMA BeginInv ==
  ASSUME NEW h \in Handlers, NEW d \in Inputs, FixInv, Begin(h, d)
  PROVE  CallInv(call'[h])
<1> DEFINE c == call'[h]
<1>1. c = [pc |-> "walk", input |-> d, doc |-> d, todo |-> Nodes, needs |-> {}, seen |-> {},
           tried |-> {}, unki |-> 0, rec |-> Absent, prefix |-> Absent]
  BY DEF Begin, FixInv
<1>2. d \in [Nodes -> [type : Types, id : InputIds]]
  BY InputsAssumption
<1> HIDE DEF c
<1>3. CallShape(c)
  BY <1>1, <1>2 DEF CallShape
<1>4. /\ c.doc = d /\ c.input = d /\ c.todo = Nodes /\ c.needs = {} /\ c.seen = {}
      /\ c.pc = "walk"
  BY <1>1
<1>5. Kept(c) = {}
  BY <1>4 DEF Kept
<1>6. CallInv(c)
  BY <1>3, <1>4, <1>5 DEF CallInv
<1> QED BY <1>6 DEF c

(* Visiting a node keeps the invariant of the call.                        *)
LEMMA VisitInv ==
  ASSUME NEW h \in Handlers, NEW n \in Nodes, FixInv, Active(h), Visit(h, n)
  PROVE  CallInv(call'[h])
<1> DEFINE c == call[h]
           d == call'[h]
           x == c.doc[n]
<1>1. CallInv(c) /\ c.pc = "walk" /\ n \in c.todo /\ x = c.input[n]
  BY DEF FixInv, Visit, CallInv
<1>2. d = IF Dup(c, x.type, x.id)
          THEN [c EXCEPT !.todo = @ \ {n}, !.needs = @ \cup {n}]
          ELSE [c EXCEPT !.todo = @ \ {n}, !.seen = @ \cup {Pair(x)}]
  BY DEF FixInv, Visit, Pair
<1>3. CallShape(c)
  BY <1>1 DEF CallInv
<1>i. c.input \in [Nodes -> [type : Types, id : InputIds]]
  BY <1>3, InputsAssumption DEF CallShape
<1>4. ASSUME Good(c, n) PROVE ~Dup(c, x.type, x.id)
  <2>1. tsmap[x.type] = x.id[1]
    BY <1>1, <1>4 DEF Good, FixInv, MapInv
  <2>2. ASSUME Pair(x) \in c.seen PROVE FALSE
    <3>1. PICK m \in Nodes \ c.todo : Pair(x) = Pair(c.input[m])
      BY <1>1, <2>2 DEF CallInv
    <3>2. c.input[m] = c.input[n]
      BY <1>1, <1>i, <3>1 DEF Pair
    <3> QED BY <1>1, <1>4, <3>1, <3>2 DEF Good
  <2> QED BY <2>1, <2>2 DEF Dup, Pair
<1> HIDE DEF c, d
<1>5. CASE Dup(c, x.type, x.id)
  <2>1. d = [c EXCEPT !.todo = @ \ {n}, !.needs = @ \cup {n}]
    BY <1>2, <1>5
  <2>2. /\ d.pc = c.pc /\ d.input = c.input /\ d.doc = c.doc /\ d.todo = c.todo \ {n}
        /\ d.needs = c.needs \cup {n} /\ d.seen = c.seen /\ d.rec = c.rec
    BY <1>3, <2>1 DEF CallShape
  <2>3. CallShape(d)
    BY <1>1, <1>3, <2>1, <2>2 DEF CallShape
  <2>4. Kept(d) = Kept(c)
    BY <1>1, <2>2 DEF Kept
  <2>5. \A m \in Nodes : Good(d, m) <=> Good(c, m)
    BY <2>2 DEF Good
  <2>6. \A m \in d.todo \cup d.needs : d.doc[m] = d.input[m]
    BY <1>1, <2>2 DEF CallInv
  <2>7. d.todo # {} => \A s \in d.seen : \E m \in Nodes \ d.todo : s = Pair(d.input[m])
    BY <1>1, <2>2 DEF CallInv
  <2>8. \A m \in Nodes : Good(d, m) => m \notin d.needs /\ d.doc[m] = d.input[m]
    BY <1>1, <1>4, <1>5, <2>2, <2>5 DEF CallInv
  <2>9. CallInv(d)
    BY <1>1, <2>2, <2>3, <2>4, <2>6, <2>7, <2>8 DEF CallInv
  <2> QED BY <2>9 DEF d
<1>6. CASE ~Dup(c, x.type, x.id)
  <2>1. d = [c EXCEPT !.todo = @ \ {n}, !.seen = @ \cup {Pair(x)}]
    BY <1>2, <1>6
  <2>2. /\ d.pc = c.pc /\ d.input = c.input /\ d.doc = c.doc /\ d.todo = c.todo \ {n}
        /\ d.needs = c.needs /\ d.seen = c.seen \cup {Pair(x)} /\ d.rec = c.rec
    BY <1>3, <2>1 DEF CallShape
  <2>3. CallShape(d)
    BY <1>1, <1>3, <2>1, <2>2 DEF CallShape
  <2>4. Kept(d) = Kept(c) \cup {n}
    BY <1>1, <1>3, <2>2 DEF Kept, CallShape
  <2>5. \A m \in Nodes : Good(d, m) <=> Good(c, m)
    BY <2>2 DEF Good
  <2>6. Pair(x) \notin c.seen
    BY <1>6 DEF Dup, Pair
  <2>7. \A m \in Kept(c) : Pair(c.doc[m]) # Pair(x)
    BY <1>1, <2>6 DEF CallInv
  <2>8. \A l, m \in Kept(d) : l # m => Pair(d.doc[l]) # Pair(d.doc[m])
    BY <1>1, <2>2, <2>4, <2>7 DEF CallInv
  <2>9. \A m \in Kept(d) : Pair(d.doc[m]) \in d.seen
    BY <1>1, <2>2, <2>4 DEF CallInv
  <2>10. d.todo # {} => \A s \in d.seen : \E m \in Nodes \ d.todo : s = Pair(d.input[m])
    BY <1>1, <2>2 DEF CallInv
  <2>11. \A m \in d.todo \cup d.needs : d.doc[m] = d.input[m]
    BY <1>1, <2>2 DEF CallInv
  <2>12. \A m \in Nodes : Good(d, m) => m \notin d.needs /\ d.doc[m] = d.input[m]
    BY <1>1, <2>2, <2>5 DEF CallInv
  <2>13. CallInv(d)
    BY <1>1, <2>2, <2>3, <2>8, <2>9, <2>10, <2>11, <2>12 DEF CallInv
  <2> QED BY <2>13 DEF d
<1> QED BY <1>5, <1>6

(* Choosing a prefix leaves the document and its bookkeeping alone.        *)
LEMMA PrefixInv ==
  ASSUME NEW h \in Handlers, FixInv, Active(h),
         EnterPrefix(h) \/ \E n \in Nodes : LookUpPrefix(h, n)
  PROVE  CallInv(call'[h])
<1> DEFINE c == call[h]
           d == call'[h]
<1>1. CallInv(c) /\ CallShape(c)
  BY DEF FixInv, CallInv
<1>2. /\ d = [pc |-> d.pc, input |-> c.input, doc |-> c.doc, todo |-> c.todo,
              needs |-> c.needs, seen |-> c.seen, tried |-> c.tried, unki |-> d.unki,
              rec |-> d.rec, prefix |-> d.prefix]
      /\ d.pc \in {"enter", "try"} /\ d.rec \in c.needs /\ c.todo = {}
      /\ d.pc = "enter" => c.doc[d.rec].type \notin Listed
  <2>1. CASE EnterPrefix(h)
    BY <1>1, <2>1 DEF EnterPrefix, CallShape, FixInv
  <2>2. ASSUME NEW n \in Nodes, LookUpPrefix(h, n)
        PROVE  <1>2!:
    <3>1. tsmap[c.doc[n].type] = Absent => c.doc[n].type \notin Listed
      BY ListedAssumption DEF FixInv, MapInv
    <3> QED BY <1>1, <2>2, <3>1 DEF LookUpPrefix, CallShape, FixInv
  <2> QED BY <2>1, <2>2
<1> HIDE DEF c, d
<1>3. /\ d.input = c.input /\ d.doc = c.doc /\ d.todo = c.todo
      /\ d.needs = c.needs /\ d.seen = c.seen
  BY <1>2
<1>4. CallShape(d)
  BY <1>1, <1>2, <1>3 DEF CallShape
<1>5. Kept(d) = Kept(c) /\ \A n \in Nodes : Good(d, n) <=> Good(c, n)
  BY <1>3 DEF Kept, Good
<1>6. CallInv(d)
  BY <1>1, <1>2, <1>3, <1>4, <1>5 DEF CallInv
<1> QED BY <1>6 DEF d

(* A round of newId's loop gives the node an id its type has not used, or  *)
(* changes nothing but the numbers tried.                                  *)
LEMMA TryInv ==
  ASSUME NEW h \in Handlers, FixInv, Active(h), TryId(h)
  PROVE  CallInv(call'[h])
<1> DEFINE c  == call[h]
           d  == call'[h]
           r  == c.rec
           t  == c.doc[r].type
           id == <<c.prefix, NextId(c)>>
<1>1. CallInv(c) /\ CallShape(c) /\ c.pc = "try" /\ r \in c.needs /\ r \in Nodes /\ c.todo = {}
  BY DEF FixInv, CallInv, CallShape, TryId
<1>2. d = IF Dup(c, t, id)
          THEN [c EXCEPT !.tried = @ \cup {id}]
          ELSE [c EXCEPT !.pc = "walk", !.tried = @ \cup {id}, !.needs = @ \ {c.rec},
                         !.seen = @ \cup {<<t, id>>}, !.doc[c.rec].id = id]
  BY DEF FixInv, TryId
<1>3. CASE Dup(c, t, id)
  <2>1. d = [c EXCEPT !.tried = @ \cup {id}]
    BY <1>2, <1>3
  <2> HIDE DEF c, d, id
  <2>2. /\ d.pc = c.pc /\ d.input = c.input /\ d.doc = c.doc /\ d.todo = c.todo
        /\ d.needs = c.needs /\ d.seen = c.seen /\ d.rec = c.rec
    BY <1>1, <2>1 DEF CallShape
  <2>3. CallShape(d)
    BY <1>1, <2>1, <2>2 DEF CallShape
  <2>4. Kept(d) = Kept(c) /\ \A n \in Nodes : Good(d, n) <=> Good(c, n)
    BY <2>2 DEF Kept, Good
  <2>5. CallInv(d)
    BY <1>1, <2>2, <2>3, <2>4 DEF CallInv
  <2> QED BY <2>5 DEF d
<1>4. CASE ~Dup(c, t, id)
  <2>1. d = [c EXCEPT !.pc = "walk", !.tried = @ \cup {id}, !.needs = @ \ {r},
                      !.seen = @ \cup {<<t, id>>}, !.doc = [c.doc EXCEPT ![r].id = id]]
    BY <1>2, <1>4
  <2>2. <<t, id>> \notin c.seen
    BY <1>4 DEF Dup
  <2>n. t = c.doc[r].type
    OBVIOUS
  <2> HIDE DEF c, d, id, t
  <2>3. /\ d.pc = "walk" /\ d.input = c.input /\ d.todo = c.todo /\ d.rec = c.rec
        /\ d.needs = c.needs \ {r} /\ d.seen = c.seen \cup {<<t, id>>}
        /\ d.doc = [c.doc EXCEPT ![r].id = id]
    BY <1>1, <2>1 DEF CallShape
  <2>4. /\ DOMAIN d.doc = Nodes
        /\ d.doc[r] = [type |-> t, id |-> id]
        /\ \A n \in Nodes \ {r} : d.doc[n] = c.doc[n]
    BY <1>1, <2>3, <2>n DEF CallShape
  <2>5. CallShape(d)
    BY <1>1, <2>1, <2>3, <2>4 DEF CallShape
  <2>6. Kept(d) = Kept(c) \cup {r} /\ r \notin Kept(c)
    BY <1>1, <2>3 DEF Kept
  <2>7. Pair(d.doc[r]) = <<t, id>> /\ \A n \in Kept(c) : d.doc[n] = c.doc[n]
    BY <2>4, <2>6 DEF Pair, Kept
  <2>8. \A n \in Kept(c) : Pair(d.doc[n]) \in c.seen
    BY <1>1, <2>7 DEF CallInv
  <2>9. \A n \in Kept(d) : Pair(d.doc[n]) \in d.seen
    BY <2>3, <2>6, <2>7, <2>8
  <2>10. \A m, n \in Kept(d) : m # n => Pair(d.doc[m]) # Pair(d.doc[n])
    BY <1>1, <2>2, <2>6, <2>7, <2>8 DEF CallInv
  <2>11. \A n \in Nodes : Good(d, n) => n \notin d.needs /\ d.doc[n] = d.input[n]
    <3>1. \A n \in Nodes : Good(d, n) => Good(c, n)
      BY <2>3 DEF Good
    <3> QED BY <1>1, <2>3, <2>4, <3>1 DEF CallInv
  <2>12. \A n \in Nodes : d.doc[n].type = d.input[n].type
    BY <1>1, <2>3, <2>4, <2>n DEF CallInv
  <2>13. \A n \in d.todo \cup d.needs : d.doc[n] = d.input[n]
    BY <1>1, <2>3, <2>4 DEF CallInv, CallShape
  <2>14. CallInv(d)
    BY <1>1, <2>3, <2>5, <2>9, <2>10, <2>11, <2>12, <2>13 DEF CallInv
  <2> QED BY <2>14 DEF d
<1> QED BY <1>3, <1>4

-----------------------------------------------------------------------------
(* The invariant holds throughout.                                         *)
LEMMA FixupInv == FixSpec => []FixInv
<1>1. FixInit => FixInv
  BY ListedAssumption DEF FixInit, FixInv, MapInv, LoadedMap, Active, Idle
<1>2. FixInv /\ [FixNext]_fixVars => FixInv'
  <2> SUFFICES ASSUME FixInv, [FixNext]_fixVars PROVE FixInv'
    OBVIOUS
  <2>1. ASSUME NEW h \in Handlers, MapInv', CallInv(call'[h]),
               DOMAIN call' = Handlers, \A g \in Handlers \ {h} : call'[g] = call[g]
        PROVE  FixInv'
    BY <2>1 DEF FixInv, Active
  <2>2. CASE UNCHANGED fixVars
    BY <2>2 DEF fixVars, FixInv, MapInv, Active
  <2>3. ASSUME NEW h \in Handlers, Return(h) PROVE FixInv'
    BY <2>3 DEF Return, FixInv, MapInv, Active, Idle
  <2>4. ASSUME NEW h \in Handlers, TryId(h) PROVE FixInv'
    BY <2>1, <2>4, TryInv DEF TryId, FixInv, MapInv, Active
  <2>5. ASSUME NEW h \in Handlers, EnterPrefix(h) PROVE FixInv'
    <3>1. Active(h)
      BY <2>5 DEF EnterPrefix, Active
    <3>2. call[h].doc[call[h].rec].type \notin Listed
      BY <2>5, <3>1 DEF EnterPrefix, FixInv, CallInv
    <3>3. MapInv'
      BY <2>5, <3>2, ListedAssumption DEF EnterPrefix, FixInv, MapInv
    <3> QED BY <2>1, <2>5, <3>1, <3>3, PrefixInv DEF EnterPrefix, FixInv
  <2>6. ASSUME NEW h \in Handlers, NEW n \in Nodes, LookUpPrefix(h, n) PROVE FixInv'
    BY <2>1, <2>6, PrefixInv DEF LookUpPrefix, FixInv, MapInv, Active
  <2>7. ASSUME NEW h \in Handlers, NEW n \in Nodes, Visit(h, n) PROVE FixInv'
    BY <2>1, <2>7, VisitInv DEF Visit, FixInv, MapInv, Active
  <2>8. ASSUME NEW h \in Handlers, NEW d \in Inputs, Begin(h, d) PROVE FixInv'
    BY <2>1, <2>8, BeginInv DEF Begin, FixInv, MapInv
  <2>9. CASE MapRace
    BY <2>9, ListedAssumption DEF MapRace, FixInv, MapInv, LoadedMap, Active, Idle
  <2> QED BY <2>2, <2>3, <2>4, <2>5, <2>6, <2>7, <2>8, <2>9 DEF FixNext, Step
<1> QED BY <1>1, <1>2, PTL DEF FixSpec

(* Whatever calls run at the same time, the document that Fixup returns    *)
(* has no two nodes with the same @type and the same @id.                  *)
THEOREM FixupUnique == FixSpec => []UniquePerType
<1>1. FixInv => UniquePerType
  <2> SUFFICES ASSUME FixInv, NEW h \in Handlers, Returning(h),
                      NEW m \in Nodes, NEW n \in Nodes, m # n
               PROVE  call[h].doc[m] # call[h].doc[n]
    BY DEF UniquePerType
  <2>1. CallInv(call[h])
    BY DEF FixInv, Returning, Active
  <2>2. m \in Kept(call[h]) /\ n \in Kept(call[h])
    BY DEF Returning, Kept
  <2> QED BY <2>1, <2>2 DEF CallInv, Pair
<1> QED BY <1>1, FixupInv, PTL

(* Whatever calls run at the same time, an id of a listed type with the    *)
(* right prefix and no double is left alone.                               *)
THEOREM FixupGentle == FixSpec => []KeepsGoodIds
<1>1. FixInv => KeepsGoodIds
  <2> SUFFICES ASSUME FixInv, NEW h \in Handlers, Returning(h),
                      NEW n \in Nodes, Good(call[h], n)
               PROVE  call[h].doc[n] = call[h].input[n]
    BY DEF KeepsGoodIds, Good
  <2>1. CallInv(call[h])
    BY DEF FixInv, Returning, Active
  <2> QED BY <2>1 DEF CallInv
<1> QED BY <1>1, FixupInv, PTL

-----------------------------------------------------------------------------
(* The types of Fixup.                                                     *)
KnownPrefixes == {PrefixOf[t] : t \in Listed} \cup {Unk(i) : i \in 1 .. Cardinality(Types)}

(* E are the types a call has entered into tsmap: as many as it has made   *)
(* prefixes, since a type that has a prefix never loses it during a call,  *)
(* and so no more than there are types.                                    *)
Entered(c, map, E) ==
  /\ E \subseteq Types /\ Cardinality(E) = c.unki
  /\ \A t \in E : map[t] # Absent
  /\ c.pc = "enter" => c.doc[c.rec].type \notin E

CallTyped(c, map) ==
  /\ c.doc \in Docs
  /\ c.pc = "try" => c.prefix \in KnownPrefixes
  /\ \E E : Entered(c, map, E)

FixTyped ==
  /\ \A t \in Types : tsmap[t] \in KnownPrefixes \cup {Absent}
  /\ \A h \in Handlers : Active(h) => CallTyped(call[h], tsmap)

(* The loop of newId always has a number to try.                           *)
LEMMA NextIdExists ==
  ASSUME NEW c PROVE NextId(c) \in 1 .. MaxNumber
<1> DEFINE T == {k \in 1 .. MaxNumber : <<c.prefix, k>> \notin c.tried \/ k = MaxNumber}
<1>1. T \in SUBSET Nat /\ T # {}
  BY MaxNumberAssumption
<1>2. PICK k \in T : \A j \in T : k <= j
  BY <1>1, LeastNumber
<1>3. \A j \in 1 .. k - 1 : <<c.prefix, j>> \in c.tried
  BY <1>1, <1>2, MaxNumberAssumption
<1> QED BY <1>2, <1>3 DEF NextId

(* One type more has a prefix.                                             *)
LEMMA EnteredMore ==
  ASSUME NEW E, NEW t \in Types, E \subseteq Types, t \notin E
  PROVE  /\ Cardinality(E) \in Nat /\ Cardinality(E) + 1 \in 1 .. Cardinality(Types)
         /\ Cardinality(E \cup {t}) = Cardinality(E) + 1
<1>1. IsFiniteSet(E)
  BY TypesAssumption, FS_Subset
<1>2. Cardinality(E \cup {t}) = Cardinality(E) + 1 /\ Cardinality(E) \in Nat
  BY <1>1, FS_AddElement, FS_CardinalityType
<1>3. Cardinality(E \cup {t}) <= Cardinality(Types) /\ Cardinality(Types) \in Nat
  <2>1. E \cup {t} \subseteq Types
    OBVIOUS
  <2> QED BY <2>1, TypesAssumption, FS_Subset, FS_CardinalityType
<1> QED BY <1>2, <1>3

LEMMA BeginTyped ==
  ASSUME NEW h \in Handlers, NEW d \in Inputs, FixInv, FixTyped, Begin(h, d)
  PROVE  CallTyped(call'[h], tsmap')
<1> DEFINE c == call'[h]
<1>1. c = [pc |-> "walk", input |-> d, doc |-> d, todo |-> Nodes, needs |-> {}, seen |-> {},
           tried |-> {}, unki |-> 0, rec |-> Absent, prefix |-> Absent]
  BY DEF Begin, FixInv
<1> HIDE DEF c
<1>2. d \in Docs
  BY InputsAssumption DEF Docs, Ids
<1>3. Entered(c, tsmap', {})
  BY <1>1, FS_EmptySet DEF Entered
<1>4. c.doc = d /\ c.pc = "walk"
  BY <1>1
<1>5. CallTyped(c, tsmap')
  BY <1>2, <1>3, <1>4 DEF CallTyped
<1> QED BY <1>5 DEF c

LEMMA VisitTyped ==
  ASSUME NEW h \in Handlers, NEW n \in Nodes, FixInv, FixTyped, Active(h), Visit(h, n)
  PROVE  CallTyped(call'[h], tsmap')
<1> DEFINE c == call[h]
           d == call'[h]
<1>1. CallShape(c) /\ CallTyped(c, tsmap)
  BY DEF FixInv, CallInv, FixTyped
<1>2. d.pc = "walk" /\ d.doc = c.doc /\ d.unki = c.unki /\ tsmap' = tsmap
  BY <1>1 DEF Visit, FixInv, CallShape
<1> HIDE DEF c, d
<1>3. ASSUME NEW E, Entered(c, tsmap, E) PROVE Entered(d, tsmap', E)
  BY <1>2, <1>3 DEF Entered
<1>4. CallTyped(d, tsmap')
  BY <1>1, <1>2, <1>3 DEF CallTyped
<1> QED BY <1>4 DEF d

LEMMA LookUpTyped ==
  ASSUME NEW h \in Handlers, NEW n \in Nodes, FixInv, FixTyped, Active(h), LookUpPrefix(h, n)
  PROVE  CallTyped(call'[h], tsmap')
<1> DEFINE c == call[h]
           d == call'[h]
           t == c.doc[n].type
           prefix == tsmap[t]
<1>1. CallShape(c) /\ CallTyped(c, tsmap)
  BY DEF FixInv, CallInv, FixTyped
<1>2. /\ d.pc = (IF prefix = Absent THEN "enter" ELSE "try") /\ d.prefix = prefix
      /\ d.doc = c.doc /\ d.unki = c.unki /\ d.rec = n /\ tsmap' = tsmap
  BY <1>1 DEF LookUpPrefix, FixInv, CallShape
<1>3. t \in Types
  BY <1>1 DEF CallTyped, Docs
<1>4. prefix \in KnownPrefixes \cup {Absent}
  BY <1>3 DEF FixTyped
<1> HIDE DEF c, d
<1>5. ASSUME NEW E, Entered(c, tsmap, E) PROVE Entered(d, tsmap', E)
  BY <1>2, <1>5 DEF Entered
<1>6. CallTyped(d, tsmap')
  BY <1>1, <1>2, <1>4, <1>5 DEF CallTyped
<1> QED BY <1>6 DEF d

(* The prefix that is made is another one of at most as many as there are  *)
(* types; the types entered by other calls keep theirs.                    *)
LEMMA EnterTyped ==
  ASSUME NEW h \in Handlers, FixInv, FixTyped, Active(h), EnterPrefix(h)
  PROVE  FixTyped'
<1> DEFINE c == call[h]
           d == call'[h]
           t == c.doc[c.rec].type
           p == Unk(c.unki + 1)
<1>1. CallShape(c) /\ CallTyped(c, tsmap) /\ c.pc = "enter"
  BY DEF FixInv, CallInv, FixTyped, EnterPrefix
<1>2. d.pc = "try" /\ d.prefix = p /\ d.doc = c.doc /\ d.unki = c.unki + 1 /\ d.rec = c.rec
      /\ call' = [call EXCEPT ![h] = d] /\ tsmap' = [tsmap EXCEPT ![t] = p]
  BY <1>1 DEF EnterPrefix, FixInv, CallShape
<1>3. t \in Types
  <2>1. c.rec \in Nodes /\ c.doc \in Docs
    BY <1>1 DEF CallShape, CallTyped
  <2> QED BY <2>1 DEF Docs
<1>4. PICK E : Entered(c, tsmap, E)
  BY <1>1 DEF CallTyped
<1>m. DOMAIN tsmap = Types /\ DOMAIN call = Handlers
  BY DEF FixInv, MapInv
<1> HIDE DEF c, d, t
<1>e. E \subseteq Types /\ t \notin E /\ Cardinality(E) = c.unki
  BY <1>1, <1>4 DEF Entered, t
<1>5. c.unki + 1 \in 1 .. Cardinality(Types) /\ Cardinality(E \cup {t}) = c.unki + 1
  BY <1>3, <1>e, EnteredMore
<1>6. p \in KnownPrefixes /\ p # Absent
  BY <1>5, TypesAssumption DEF KnownPrefixes
<1> HIDE DEF p
<1>7. /\ tsmap'[t] = p /\ \A u \in Types \ {t} : tsmap'[u] = tsmap[u]
  BY <1>2, <1>3, <1>m
<1>8. Entered(d, tsmap', E \cup {t})
  BY <1>2, <1>3, <1>4, <1>5, <1>6, <1>7, <1>e DEF Entered
<1>9. CallTyped(d, tsmap')
  BY <1>1, <1>2, <1>6, <1>8 DEF CallTyped
<1>10. \A u \in Types : tsmap'[u] \in KnownPrefixes \cup {Absent}
  BY <1>6, <1>7 DEF FixTyped
<1>11. ASSUME NEW g \in Handlers, Active(g)' PROVE CallTyped(call'[g], tsmap')
  <2>1. CASE g = h
    BY <1>9, <2>1 DEF d
  <2>2. CASE g # h
    <3>1. call'[g] = call[g] /\ Active(g)
      BY <1>2, <1>11, <1>m, <2>2 DEF Active
    <3>2. CallTyped(call[g], tsmap)
      BY <3>1 DEF FixTyped
    <3>3. ASSUME NEW F, Entered(call[g], tsmap, F) PROVE Entered(call[g], tsmap', F)
      BY <1>6, <1>7, <3>3 DEF Entered
    <3>4. CallTyped(call[g], tsmap')
      BY <3>2, <3>3 DEF CallTyped
    <3> QED BY <3>1, <3>4
  <2> QED BY <2>1, <2>2
<1> QED BY <1>10, <1>11 DEF FixTyped

LEMMA TryTyped ==
  ASSUME NEW h \in Handlers, FixInv, FixTyped, Active(h), TryId(h)
  PROVE  CallTyped(call'[h], tsmap')
<1> DEFINE c == call[h]
           d == call'[h]
           r == c.rec
           t == c.doc[r].type
           id == <<c.prefix, NextId(c)>>
<1>1. CallShape(c) /\ CallTyped(c, tsmap) /\ c.pc = "try" /\ r \in Nodes
  BY DEF FixInv, CallInv, FixTyped, TryId, CallShape
<1>2. d = IF Dup(c, t, id)
          THEN [c EXCEPT !.tried = @ \cup {id}]
          ELSE [c EXCEPT !.pc = "walk", !.tried = @ \cup {id}, !.needs = @ \ {r},
                         !.seen = @ \cup {<<t, id>>}, !.doc = [c.doc EXCEPT ![r].id = id]]
  BY DEF FixInv, TryId
<1>3. tsmap' = tsmap
  BY DEF TryId
<1>4. id \in Ids
  <2>1. NextId(c) \in 1 .. MaxNumber
    BY NextIdExists
  <2>2. c.prefix \in KnownPrefixes
    BY <1>1 DEF CallTyped
  <2> QED BY <2>1, <2>2 DEF Ids, Made, KnownPrefixes
<1>5. t \in Types /\ c.doc \in Docs
  BY <1>1 DEF CallTyped, Docs
<1>6. [c.doc EXCEPT ![r].id = id] \in Docs
  <2> HIDE DEF id
  <2> QED BY <1>1, <1>4, <1>5 DEF Docs
<1> HIDE DEF c, d, id, t
<1>7. /\ d.pc \in {"try", "walk"} /\ d.doc \in Docs /\ d.unki = c.unki /\ d.prefix = c.prefix
  <2>1. CASE Dup(c, t, id)
    BY <1>1, <1>2, <1>5, <2>1 DEF CallShape
  <2>2. CASE ~Dup(c, t, id)
    <3> DEFINE doc2 == [c.doc EXCEPT ![r].id = id]
    <3> HIDE DEF doc2
    <3>1. d = [c EXCEPT !.pc = "walk", !.tried = @ \cup {id}, !.needs = @ \ {r},
                         !.seen = @ \cup {<<t, id>>}, !.doc = doc2]
      BY <1>2, <2>2 DEF doc2
    <3> QED BY <1>1, <1>6, <3>1 DEF CallShape, doc2
  <2> QED BY <2>1, <2>2
<1>8. ASSUME NEW E, Entered(c, tsmap, E) PROVE Entered(d, tsmap', E)
  BY <1>3, <1>7, <1>8 DEF Entered
<1>9. CallTyped(d, tsmap')
  BY <1>1, <1>7, <1>8 DEF CallTyped
<1> QED BY <1>9 DEF d

LEMMA FixTypedStep ==
  ASSUME FixInv, FixTyped, [FixNext]_fixVars PROVE FixTyped'
<1>1. ASSUME NEW h \in Handlers, CallTyped(call'[h], tsmap'), tsmap' = tsmap,
             \A g \in Handlers \ {h} : call'[g] = call[g]
      PROVE  FixTyped'
  <2>1. ASSUME NEW g \in Handlers, Active(g)' PROVE CallTyped(call'[g], tsmap')
    <3>1. CASE g = h
      BY <1>1, <3>1
    <3>2. CASE g # h
      BY <1>1, <2>1, <3>2 DEF FixTyped, Active
    <3> QED BY <3>1, <3>2
  <2> QED BY <1>1, <2>1 DEF FixTyped
<1>2. CASE UNCHANGED fixVars
  BY <1>2 DEF fixVars, FixTyped, Active
<1>3. ASSUME NEW h \in Handlers, Return(h) PROVE FixTyped'
  <2>1. ASSUME NEW g \in Handlers, Active(g)' PROVE CallTyped(call'[g], tsmap')
    <3>1. g # h
      BY <1>3, <2>1 DEF Return, Active, Idle, FixInv
    <3> QED BY <1>3, <2>1, <3>1 DEF Return, Active, FixTyped
  <2> QED BY <1>3, <2>1 DEF FixTyped, Return
<1>4. ASSUME NEW h \in Handlers, TryId(h) PROVE FixTyped'
  <2>1. Active(h) /\ tsmap' = tsmap /\ \A g \in Handlers \ {h} : call'[g] = call[g]
    BY <1>4 DEF TryId, Active, FixInv
  <2> QED BY <1>1, <1>4, <2>1, TryTyped
<1>5. ASSUME NEW h \in Handlers, EnterPrefix(h) PROVE FixTyped'
  BY <1>5, EnterTyped DEF EnterPrefix, Active
<1>6. ASSUME NEW h \in Handlers, NEW n \in Nodes, LookUpPrefix(h, n) PROVE FixTyped'
  <2>1. Active(h) /\ tsmap' = tsmap /\ \A g \in Handlers \ {h} : call'[g] = call[g]
    BY <1>6 DEF LookUpPrefix, Active, FixInv
  <2> QED BY <1>1, <1>6, <2>1, LookUpTyped
<1>7. ASSUME NEW h \in Handlers, NEW n \in Nodes, Visit(h, n) PROVE FixTyped'
  <2>1. Active(h) /\ tsmap' = tsmap /\ \A g \in Handlers \ {h} : call'[g] = call[g]
    BY <1>7 DEF Visit, Active, FixInv
  <2> QED BY <1>1, <1>7, <2>1, VisitTyped
<1>8. ASSUME NEW h \in Handlers, NEW d \in Inputs, Begin(h, d) PROVE FixTyped'
  <2>1. tsmap' = tsmap /\ \A g \in Handlers \ {h} : call'[g] = call[g]
    BY <1>8 DEF Begin, FixInv
  <2> QED BY <1>1, <1>8, <2>1, BeginTyped
<1>9. CASE MapRace
  <2>1. \A h \in Handlers : ~Active(h)'
    BY <1>9 DEF MapRace, Active, Idle
  <2>2. \A t \in Types : tsmap'[t] \in KnownPrefixes \cup {Absent}
    BY <1>9 DEF MapRace, LoadedMap, KnownPrefixes
  <2> QED BY <2>1, <2>2 DEF FixTyped
<1> QED BY <1>2, <1>3, <1>4, <1>5, <1>6, <1>7, <1>8, <1>9 DEF FixNext, Step

LEMMA FixupTypes == FixSpec => [](FixInv /\ FixTyped)
<1>1. FixInit => FixTyped
  BY DEF FixInit, FixTyped, LoadedMap, KnownPrefixes, Active, Idle
<1>2. FixInv /\ FixTyped /\ [FixNext]_fixVars => FixTyped'
  BY FixTypedStep
<1> QED BY <1>1, <1>2, FixupInv, PTL DEF FixSpec

(* Every call of Fixup is where its bookkeeping says, and every id it      *)
(* makes is one of a known prefix: no call makes more prefixes than there  *)
(* are types, whatever other calls do to tsmap (data/election.go:161-216). *)
THEOREM FixupTypeCorrect == FixSpec => []FixTypeOK
<1>1. FixInv /\ FixTyped => FixTypeOK
  BY DEF FixInv, CallInv, CallShape, FixTyped, CallTyped, FixTypeOK
<1> QED BY <1>1, FixupTypes, PTL

-----------------------------------------------------------------------------
(* A call of Fixup that no other call disturbs ends: it takes a number of  *)
(* steps at most quadratic in the size of its document.                    *)

(* What such a call knows: the prefix it tries is that of the type, every  *)
(* number it tried is one it has seen, and what it has seen is no more     *)
(* than the nodes it has dealt with.                                       *)
Undisturbed(c, map) ==
  /\ c.pc = "try" => map[c.doc[c.rec].type] = c.prefix
  /\ \A id \in c.tried : \E s \in c.seen : s[2] = id
  /\ IsFiniteSet(c.seen)
  /\ Cardinality(c.seen) + Cardinality(c.todo) + Cardinality(c.needs) <= Cardinality(Nodes)

Calm(h) == Active(h) /\ Undisturbed(call[h], tsmap)

(* How many steps a call still takes at most.                              *)
Stage(c) ==
  CASE c.pc = "walk"  -> Cardinality(Nodes) + 3
    [] c.pc = "enter" -> Cardinality(Nodes) + 2
    [] OTHER          -> Cardinality(Nodes) + 1 - Cardinality(c.tried)

Rounds(c) ==
  Cardinality(c.todo) * (Cardinality(Nodes) + 5) + Cardinality(c.needs) * (Cardinality(Nodes) + 4) + Stage(c)

RoundsLeft(h) == IF Active(h) THEN Rounds(call[h]) ELSE 0

Most == Cardinality(Nodes) * (Cardinality(Nodes) + 5) + Cardinality(Nodes) + 3

(* A node to visit or to renumber, a round of newId, or a return.          *)
HasRound(h) ==
  LET c == call[h] IN
  \/ c.pc = "walk" /\ \E n \in Nodes : n \in c.todo \/ (c.todo = {} /\ n \in c.needs)
  \/ c.pc \in {"enter", "try"}
  \/ Returning(h)

CalmHasRound == \A h \in Handlers : Calm(h) => HasRound(h) /\ RoundsLeft(h) \in Nat \ {0}

(* A call begins undisturbed, and stays so until another call enters a     *)
(* prefix; each of its steps uses one of those left up.                    *)
CalmRounds ==
  \A h \in Handlers :
    /\ \A d \in Inputs : Begin(h, d) => Calm(h)' /\ RoundsLeft(h)' = Most
    /\ Calm(h) /\ Step(h) => /\ Calm(h)' \/ ~Active(h)'
                             /\ RoundsLeft(h)' < RoundsLeft(h)
    /\ Calm(h) => \/ Calm(h)' \/ ~Active(h)'
                  \/ \E g \in Handlers \ {h} : EnterPrefix(g)

LEMMA Parts ==
  ASSUME IsFiniteSet(Nodes), NEW s \in SUBSET Nodes
  PROVE  IsFiniteSet(s) /\ Cardinality(s) \in Nat
BY FS_Subset, FS_CardinalityType

LEMMA NoMoreTriedThanSeen ==
  ASSUME NEW c, NEW map, Undisturbed(c, map)
  PROVE  /\ Cardinality(c.seen) \in Nat /\ IsFiniteSet(c.tried)
         /\ Cardinality(c.tried) \in Nat /\ Cardinality(c.tried) <= Cardinality(c.seen)
<1> DEFINE S == c.seen
           T == {s[2] : s \in S}
           f == [s \in S |-> s[2]]
<1>1. f \in Surjection(S, T) /\ IsFiniteSet(S)
  BY DEF Surjection, Undisturbed
<1>2. c.tried \subseteq T
  BY DEF Undisturbed
<1> HIDE DEF f, S, T
<1>3. IsFiniteSet(T) /\ Cardinality(T) <= Cardinality(S)
  BY <1>1, FS_Surjection
<1>4. IsFiniteSet(c.tried) /\ Cardinality(c.tried) <= Cardinality(T)
  BY <1>2, <1>3, FS_Subset
<1>5. Cardinality(c.tried) \in Nat /\ Cardinality(T) \in Nat /\ Cardinality(S) \in Nat
  BY <1>1, <1>3, <1>4, FS_CardinalityType
<1> QED BY <1>3, <1>4, <1>5 DEF S

LEMMA RoundsPositive ==
  ASSUME IsFiniteSet(Nodes), NEW c, NEW map, CallShape(c), Undisturbed(c, map)
  PROVE  Rounds(c) \in Nat /\ Rounds(c) >= Stage(c) /\ Stage(c) \in 1 .. Cardinality(Nodes) + 3
<1> DEFINE t == Cardinality(c.todo)
           e == Cardinality(c.needs)
           s == Cardinality(c.seen)
           u == Cardinality(c.tried)
           z == Cardinality(Nodes)
<1>1. t \in Nat /\ e \in Nat /\ z \in Nat
  BY Parts, FS_CardinalityType DEF CallShape
<1>2. s \in Nat /\ u \in Nat /\ u <= s
  BY NoMoreTriedThanSeen
<1>3. s + t + e <= z
  BY DEF Undisturbed
<1>4. Stage(c) = CASE c.pc = "walk" -> z + 3 [] c.pc = "enter" -> z + 2 [] OTHER -> z + 1 - u
  BY DEF Stage
<1>5. Rounds(c) = t * (z + 5) + e * (z + 4) + Stage(c)
  BY DEF Rounds
<1> HIDE DEF t, e, s, u, z
<1>6. Stage(c) \in 1 .. z + 3
  BY <1>1, <1>2, <1>3, <1>4
<1>7. t * (z + 5) \in Nat /\ e * (z + 4) \in Nat
  BY <1>1
<1>8. Rounds(c) \in Nat /\ Rounds(c) >= Stage(c)
  BY <1>1, <1>5, <1>6, <1>7
<1> QED BY <1>6, <1>8 DEF z

(* The rank falls when a node is visited, or dealt with, or when only the  *)
(* stage goes down.                                                        *)
LEMMA RoundsFall ==
  ASSUME NEW t \in Nat, NEW e \in Nat, NEW z \in Nat, NEW g \in 1 .. z + 3, NEW g2 \in 1 .. z + 3
  PROVE  /\ t * (z + 5) + (e + 1) * (z + 4) + g < (t + 1) * (z + 5) + e * (z + 4) + g
         /\ t * (z + 5) + e * (z + 4) + g < (t + 1) * (z + 5) + e * (z + 4) + g
         /\ t * (z + 5) + e * (z + 4) + g2 < t * (z + 5) + (e + 1) * (z + 4) + g
         /\ g2 < g => t * (z + 5) + e * (z + 4) + g2 < t * (z + 5) + e * (z + 4) + g
<1>1. (t + 1) * (z + 5) = t * (z + 5) + (z + 5) /\ (e + 1) * (z + 4) = e * (z + 4) + (z + 4)
  OBVIOUS
<1>2. t * (z + 5) \in Nat /\ e * (z + 4) \in Nat
  OBVIOUS
<1> DEFINE p == t * (z + 5)
           q == e * (z + 4)
<1>3. /\ p \in Nat /\ q \in Nat
      /\ (t + 1) * (z + 5) = p + (z + 5) /\ (e + 1) * (z + 4) = q + (z + 4)
  BY <1>1, <1>2
<1> HIDE DEF p, q
<1>4. /\ p + (q + (z + 4)) + g < (p + (z + 5)) + q + g
      /\ p + q + g < (p + (z + 5)) + q + g
      /\ p + q + g2 < p + (q + (z + 4)) + g
      /\ g2 < g => p + q + g2 < p + q + g
  BY <1>3
<1> QED BY <1>3, <1>4 DEF p, q

LEMMA BeginCalm ==
  ASSUME IsFiniteSet(Nodes), FixInv, NEW h \in Handlers, NEW d \in Inputs, Begin(h, d)
  PROVE  Calm(h)' /\ RoundsLeft(h)' = Most
<1> DEFINE c == call'[h]
<1>1. c = [pc |-> "walk", input |-> d, doc |-> d, todo |-> Nodes, needs |-> {}, seen |-> {},
           tried |-> {}, unki |-> 0, rec |-> Absent, prefix |-> Absent]
  BY DEF Begin, FixInv
<1> HIDE DEF c
<1>2. c.pc = "walk" /\ c.todo = Nodes /\ c.needs = {} /\ c.seen = {} /\ c.tried = {}
  BY <1>1
<1>3. Cardinality(Nodes) \in Nat /\ Cardinality({}) = 0 /\ IsFiniteSet({})
  BY FS_CardinalityType, FS_EmptySet
<1>4. 0 + Cardinality(Nodes) + 0 <= Cardinality(Nodes)
  BY <1>3
<1>5. Undisturbed(c, tsmap')
  BY <1>2, <1>3, <1>4 DEF Undisturbed
<1>6. Rounds(c) = Most
  <2> DEFINE z == Cardinality(Nodes)
  <2>1. Rounds(c) = z * (z + 5) + 0 * (z + 4) + (z + 3) /\ z \in Nat
    BY <1>2, <1>3 DEF Rounds, Stage
  <2>2. Most = z * (z + 5) + z + 3
    BY DEF Most
  <2> HIDE DEF z
  <2>3. z * (z + 5) \in Nat /\ 0 * (z + 4) = 0
    BY <2>1
  <2> QED BY <2>1, <2>2, <2>3
<1>7. Calm(h)' /\ Active(h)'
  BY <1>2, <1>5 DEF Calm, Active, c
<1> QED BY <1>6, <1>7 DEF RoundsLeft, c

LEMMA VisitRound ==
  ASSUME IsFiniteSet(Nodes), FixInv, NEW h \in Handlers, Calm(h), NEW n \in Nodes, Visit(h, n)
  PROVE  Calm(h)' /\ Rounds(call'[h]) < Rounds(call[h])
<1> DEFINE c == call[h]
           d == call'[h]
           x == c.doc[n]
           z == Cardinality(Nodes)
<1>1. CallShape(c) /\ Undisturbed(c, tsmap) /\ c.pc = "walk" /\ n \in c.todo
  BY DEF FixInv, CallInv, Calm, Visit
<1>2. d = IF Dup(c, x.type, x.id)
          THEN [c EXCEPT !.todo = @ \ {n}, !.needs = @ \cup {n}]
          ELSE [c EXCEPT !.todo = @ \ {n}, !.seen = @ \cup {<<x.type, x.id>>}]
  BY DEF FixInv, Visit
<1> DEFINE p == <<x.type, x.id>>
           dup == Dup(c, x.type, x.id)
<1> HIDE DEF c, d, x, p, dup
<1>3. /\ d.pc = "walk" /\ d.todo = c.todo \ {n} /\ d.tried = c.tried
      /\ d.needs = IF dup THEN c.needs \cup {n} ELSE c.needs
      /\ d.seen = IF dup THEN c.seen ELSE c.seen \cup {p}
  BY <1>1, <1>2 DEF CallShape, p, dup
<1>4. n \notin c.needs /\ c.todo \in SUBSET Nodes /\ c.needs \in SUBSET Nodes
  BY <1>1 DEF CallShape
<1>5. /\ IsFiniteSet(c.todo) /\ IsFiniteSet(c.needs) /\ z \in Nat
      /\ IsFiniteSet(c.seen) /\ Cardinality(c.seen) \in Nat
  BY <1>1, <1>4, Parts, FS_CardinalityType DEF Undisturbed
<1>6. Cardinality(d.todo) \in Nat /\ Cardinality(c.todo) = Cardinality(d.todo) + 1
  BY <1>1, <1>3, <1>5, TakeOne
<1>7. /\ Cardinality(c.needs) \in Nat
      /\ Cardinality(d.needs) = IF dup THEN Cardinality(c.needs) + 1 ELSE Cardinality(c.needs)
  <2>1. Cardinality(c.needs) \in Nat
    BY <1>5, FS_CardinalityType
  <2>2. Cardinality(c.needs \cup {n}) = Cardinality(c.needs) + 1
    BY <1>4, <1>5, FS_AddElement
  <2> QED BY <1>3, <2>1, <2>2
<1>8. /\ IsFiniteSet(d.seen) /\ Cardinality(d.seen) \in Nat
      /\ Cardinality(d.seen) <= IF dup THEN Cardinality(c.seen) ELSE Cardinality(c.seen) + 1
  <2>1. CASE dup
    BY <1>3, <1>5, <2>1
  <2>2. CASE ~dup
    <3>1. /\ IsFiniteSet(c.seen \cup {p})
          /\ Cardinality(c.seen \cup {p}) = IF p \in c.seen THEN Cardinality(c.seen) ELSE Cardinality(c.seen) + 1
      BY <1>5, FS_AddElement
    <3> QED BY <1>3, <1>5, <2>2, <3>1
  <2> QED BY <2>1, <2>2
<1>9. Cardinality(c.seen) + Cardinality(c.todo) + Cardinality(c.needs) <= z
  BY <1>1 DEF Undisturbed
<1>10. Cardinality(d.seen) + Cardinality(d.todo) + Cardinality(d.needs) <= z
  <2> HIDE DEF z
  <2>1. CASE dup
    BY <1>5, <1>6, <1>7, <1>8, <1>9, <2>1
  <2>2. CASE ~dup
    BY <1>5, <1>6, <1>7, <1>8, <1>9, <2>2
  <2> QED BY <2>1, <2>2
<1>11. Undisturbed(d, tsmap')
  BY <1>1, <1>3, <1>8, <1>10 DEF Undisturbed
<1>12. Stage(d) = z + 3 /\ Stage(c) = z + 3
  BY <1>1, <1>3 DEF Stage
<1>13. Rounds(d) < Rounds(c)
  <2> DEFINE t == Cardinality(d.todo)
             e == Cardinality(c.needs)
  <2>1. /\ Rounds(c) = (t + 1) * (z + 5) + e * (z + 4) + (z + 3)
        /\ Rounds(d) = t * (z + 5) + Cardinality(d.needs) * (z + 4) + (z + 3)
    BY <1>6, <1>12 DEF Rounds
  <2>2. t \in Nat /\ e \in Nat /\ z + 3 \in 1 .. z + 3
    BY <1>5, <1>6, <1>7
  <2>3. Cardinality(d.needs) = IF dup THEN e + 1 ELSE e
    BY <1>7
  <2> HIDE DEF t, e, z
  <2>4. /\ t * (z + 5) + (e + 1) * (z + 4) + (z + 3) < (t + 1) * (z + 5) + e * (z + 4) + (z + 3)
        /\ t * (z + 5) + e * (z + 4) + (z + 3) < (t + 1) * (z + 5) + e * (z + 4) + (z + 3)
    BY <1>5, <2>2, RoundsFall
  <2>5. CASE dup
    BY <2>1, <2>3, <2>4, <2>5
  <2>6. CASE ~dup
    BY <2>1, <2>3, <2>4, <2>6
  <2> QED BY <2>5, <2>6
<1> QED BY <1>3, <1>11, <1>13 DEF Calm, Active, c, d

LEMMA PrefixRound ==
  ASSUME IsFiniteSet(Nodes), FixInv, FixTyped, NEW h \in Handlers, Calm(h),
         EnterPrefix(h) \/ \E n \in Nodes : LookUpPrefix(h, n)
  PROVE  Calm(h)' /\ Rounds(call'[h]) < Rounds(call[h])
<1> DEFINE c == call[h]
           d == call'[h]
           z == Cardinality(Nodes)
<1>1. CallShape(c) /\ Undisturbed(c, tsmap) /\ CallTyped(c, tsmap)
  BY DEF FixInv, CallInv, Calm, FixTyped
<1>2. /\ d.doc = c.doc /\ d.todo = c.todo /\ d.needs = c.needs /\ d.seen = c.seen /\ d.tried = c.tried
      /\ d.pc = "try" => tsmap'[c.doc[d.rec].type] = d.prefix
      /\ \/ c.pc = "walk" /\ d.pc \in {"enter", "try"}
         \/ c.pc = "enter" /\ d.pc = "try"
  <2>1. CASE EnterPrefix(h)
    <3>1. c.doc[c.rec].type \in Types
      BY <1>1, <2>1 DEF EnterPrefix, CallShape, CallTyped, Docs
    <3>2. /\ tsmap' = [tsmap EXCEPT ![c.doc[c.rec].type] = Unk(c.unki + 1)]
          /\ d = [c EXCEPT !.pc = "try", !.unki = @ + 1, !.prefix = Unk(c.unki + 1)]
          /\ c.pc = "enter"
      BY <2>1 DEF EnterPrefix, FixInv
    <3>3. DOMAIN tsmap = Types
      BY DEF FixInv, MapInv
    <3> HIDE DEF c, d
    <3>4. tsmap'[c.doc[c.rec].type] = Unk(c.unki + 1)
      BY <3>1, <3>2, <3>3
    <3> QED BY <1>1, <3>2, <3>4 DEF CallShape
  <2>2. ASSUME NEW n \in Nodes, LookUpPrefix(h, n)
        PROVE  <1>2!:
    BY <1>1, <2>2 DEF LookUpPrefix, CallShape, FixInv
  <2> QED BY <2>1, <2>2
<1> HIDE DEF c, d
<1>3. Undisturbed(d, tsmap')
  BY <1>1, <1>2 DEF Undisturbed
<1>4. Stage(d) < Stage(c) /\ Stage(d) \in 1 .. z + 3 /\ Stage(c) \in 1 .. z + 3
  <2>1. Cardinality(c.tried) \in Nat /\ z \in Nat
    BY <1>1, NoMoreTriedThanSeen, FS_CardinalityType
  <2>2. Stage(c) \in 1 .. z + 3
    BY <1>1, RoundsPositive
  <2>3. Cardinality(c.seen) \in Nat /\ Cardinality(c.tried) <= Cardinality(c.seen)
        /\ Cardinality(c.todo) \in Nat /\ Cardinality(c.needs) \in Nat
    BY <1>1, NoMoreTriedThanSeen, Parts DEF CallShape
  <2>4. Cardinality(c.seen) + Cardinality(c.todo) + Cardinality(c.needs) <= z
    BY <1>1 DEF Undisturbed
  <2>5. Cardinality(c.tried) <= z
    <3> HIDE DEF z
    <3> QED BY <2>1, <2>3, <2>4
  <2> QED BY <1>2, <2>1, <2>2, <2>5 DEF Stage
<1>5. Rounds(d) < Rounds(c)
  <2> DEFINE t == Cardinality(c.todo)
             e == Cardinality(c.needs)
  <2>1. /\ Rounds(c) = t * (z + 5) + e * (z + 4) + Stage(c)
        /\ Rounds(d) = t * (z + 5) + e * (z + 4) + Stage(d)
    BY <1>2 DEF Rounds
  <2>2. t \in Nat /\ e \in Nat /\ z \in Nat
    BY <1>1, Parts, FS_CardinalityType DEF CallShape
  <2> HIDE DEF t, e, z
  <2> QED BY <1>4, <2>1, <2>2, RoundsFall
<1> QED BY <1>2, <1>3, <1>5 DEF Calm, Active, c, d
(* With as many numbers as nodes newId has one that was not tried.         *)
LEMMA NextIdIsNew ==
  ASSUME NEW c, IsFiniteSet(c.tried), Cardinality(c.tried) < MaxNumber
  PROVE  <<c.prefix, NextId(c)>> \notin c.tried
<1> DEFINE M == 1 .. MaxNumber
           Low == {k \in M : <<c.prefix, k>> \in c.tried}
           f == [x \in c.tried |-> x[2]]
           T == {x[2] : x \in c.tried}
<1>1. MaxNumber \in Nat \ {0} /\ IsFiniteSet(M) /\ Cardinality(M) = MaxNumber
  BY MaxNumberAssumption, FS_Interval
<1>2. IsFiniteSet(T) /\ Cardinality(T) <= Cardinality(c.tried)
  <2>1. f \in Surjection(c.tried, T)
    BY DEF Surjection
  <2> HIDE DEF f, T
  <2> QED BY <2>1, FS_Surjection
<1>3. Low \subseteq T
  OBVIOUS
<1> HIDE DEF Low, T
<1>4. Cardinality(Low) < MaxNumber
  <2>1. IsFiniteSet(Low) /\ Cardinality(Low) <= Cardinality(T)
    BY <1>2, <1>3, FS_Subset
  <2>2. Cardinality(Low) \in Nat /\ Cardinality(T) \in Nat /\ Cardinality(c.tried) \in Nat
    BY <1>2, <2>1, FS_CardinalityType
  <2> QED BY <1>1, <1>2, <2>1, <2>2
<1>5. Low # M
  BY <1>1, <1>4
<1>6. PICK k \in M : <<c.prefix, k>> \notin c.tried
  BY <1>5 DEF Low
<1> DEFINE free == {j \in M : <<c.prefix, j>> \notin c.tried}
<1>7. PICK l \in free : \A j \in free : l <= j
  <2>1. free \in SUBSET Nat /\ free # {}
    BY <1>1, <1>6
  <2> HIDE DEF free
  <2> QED BY <2>1, LeastNumber
<1>8. l \in 1 .. MaxNumber /\ <<c.prefix, l>> \notin c.tried
      /\ \A j \in 1 .. l - 1 : <<c.prefix, j>> \in c.tried
  BY <1>1, <1>7
<1> DEFINE n == NextId(c)
<1>9. /\ n \in 1 .. MaxNumber
      /\ <<c.prefix, n>> \notin c.tried \/ n = MaxNumber
      /\ \A j \in 1 .. n - 1 : <<c.prefix, j>> \in c.tried
  BY <1>8 DEF NextId
<1> HIDE DEF n
<1>10. ~(l < n)
  <2> SUFFICES ASSUME l < n PROVE FALSE
    OBVIOUS
  <2>1. l \in 1 .. n - 1
    BY <1>1, <1>8, <1>9
  <2> QED BY <1>8, <1>9, <2>1
<1>11. CASE l = n
  BY <1>8, <1>11 DEF n
<1>12. CASE n < l
  <2>1. n # MaxNumber
    BY <1>1, <1>8, <1>9, <1>12
  <2> QED BY <1>9, <2>1 DEF n
<1> QED BY <1>1, <1>8, <1>9, <1>10, <1>11, <1>12

LEMMA TryRound ==
  ASSUME IsFiniteSet(Nodes), Cardinality(Nodes) <= MaxNumber, FixInv, NEW h \in Handlers, Calm(h), TryId(h)
  PROVE  Calm(h)' /\ Rounds(call'[h]) < Rounds(call[h])
<1> DEFINE c == call[h]
           d == call'[h]
           r == c.rec
           t == c.doc[r].type
           id == <<c.prefix, NextId(c)>>
           p == <<t, id>>
           dup == Dup(c, t, id)
           z == Cardinality(Nodes)
<1>1. CallShape(c) /\ Undisturbed(c, tsmap) /\ c.pc = "try" /\ r \in c.needs /\ c.todo = {}
  BY DEF FixInv, CallInv, CallShape, Calm, TryId
<1>2. d = IF dup
          THEN [c EXCEPT !.tried = @ \cup {id}]
          ELSE [c EXCEPT !.pc = "walk", !.tried = @ \cup {id}, !.needs = @ \ {c.rec},
                         !.seen = @ \cup {p}, !.doc[c.rec].id = id]
  BY DEF FixInv, TryId
<1>3. tsmap' = tsmap /\ tsmap[t] = c.prefix
  BY <1>1 DEF TryId, Undisturbed
<1>4. dup => p \in c.seen
  BY <1>3 DEF Dup
<1>5. id[1] = c.prefix /\ p[2] = id
  OBVIOUS
<1> DEFINE doc2 == [c.doc EXCEPT ![c.rec].id = id]
<1>6. d = IF dup
          THEN [c EXCEPT !.tried = @ \cup {id}]
          ELSE [c EXCEPT !.pc = "walk", !.tried = @ \cup {id}, !.needs = @ \ {r},
                         !.seen = @ \cup {p}, !.doc = doc2]
  BY <1>2
<1>t. t = c.doc[c.rec].type
  OBVIOUS
<1>n. id = <<c.prefix, NextId(c)>>
  OBVIOUS
<1> HIDE DEF c, d, id, p, dup, doc2, r, t
<1>7. /\ d.todo = c.todo /\ d.tried = c.tried \cup {id}
      /\ d.pc = IF dup THEN "try" ELSE "walk"
      /\ d.needs = IF dup THEN c.needs ELSE c.needs \ {r}
      /\ d.seen = IF dup THEN c.seen ELSE c.seen \cup {p}
      /\ dup => d.doc = c.doc /\ d.rec = c.rec /\ d.prefix = c.prefix
  BY <1>1, <1>6 DEF CallShape
<1>8. /\ IsFiniteSet(c.needs) /\ z \in Nat /\ IsFiniteSet(c.seen)
      /\ Cardinality(c.seen) \in Nat /\ Cardinality(c.needs) \in Nat /\ Cardinality(c.todo) \in Nat
      /\ IsFiniteSet(c.tried) /\ Cardinality(c.tried) \in Nat /\ Cardinality(c.tried) <= Cardinality(c.seen)
  BY <1>1, Parts, FS_CardinalityType, NoMoreTriedThanSeen DEF CallShape, Undisturbed
<1>9. Cardinality(c.needs \ {r}) \in Nat /\ Cardinality(c.needs) = Cardinality(c.needs \ {r}) + 1
  BY <1>1, <1>8, TakeOne
<1>10. Cardinality(c.seen) + Cardinality(c.todo) + Cardinality(c.needs) <= z
  BY <1>1 DEF Undisturbed
<1>11. Cardinality(c.tried) < z
  <2> HIDE DEF z
  <2> QED BY <1>8, <1>9, <1>10
<1>12. id \notin c.tried
  <2>1. Cardinality(c.tried) < MaxNumber
    BY <1>8, <1>11, MaxNumberAssumption
  <2> QED BY <1>8, <1>n, <2>1, NextIdIsNew
<1>13. IsFiniteSet(d.tried) /\ Cardinality(d.tried) = Cardinality(c.tried) + 1
  <2>1. IsFiniteSet(c.tried \cup {id}) /\ Cardinality(c.tried \cup {id}) = Cardinality(c.tried) + 1
    BY <1>8, <1>12, FS_AddElement
  <2> QED BY <1>7, <2>1
<1>14. \A x \in d.tried : \E s \in d.seen : s[2] = x
  <2>1. p \in d.seen /\ c.seen \subseteq d.seen
    BY <1>4, <1>7
  <2> QED BY <1>1, <1>5, <1>7, <2>1 DEF Undisturbed
<1>15. IsFiniteSet(d.seen) /\ Cardinality(d.seen) \in Nat
       /\ Cardinality(d.seen) <= IF dup THEN Cardinality(c.seen) ELSE Cardinality(c.seen) + 1
  <2>1. CASE dup
    BY <1>7, <1>8, <2>1
  <2>2. CASE ~dup
    <3>1. /\ IsFiniteSet(c.seen \cup {p})
          /\ Cardinality(c.seen \cup {p}) = IF p \in c.seen THEN Cardinality(c.seen) ELSE Cardinality(c.seen) + 1
      BY <1>8, FS_AddElement
    <3> QED BY <1>7, <1>8, <2>2, <3>1
  <2> QED BY <2>1, <2>2
<1>16. Cardinality(d.seen) + Cardinality(d.todo) + Cardinality(d.needs) <= z
  <2> HIDE DEF z
  <2>1. CASE dup
    BY <1>7, <1>8, <1>10, <1>15, <2>1
  <2>2. CASE ~dup
    BY <1>7, <1>8, <1>9, <1>10, <1>15, <2>2
  <2> QED BY <2>1, <2>2
<1>17. d.pc = "try" => tsmap'[d.doc[d.rec].type] = d.prefix
  BY <1>3, <1>7, <1>t
<1>18. Undisturbed(d, tsmap')
  BY <1>14, <1>15, <1>16, <1>17 DEF Undisturbed
<1>19. /\ Stage(c) = z + 1 - Cardinality(c.tried)
       /\ Stage(d) = IF dup THEN z + 1 - (Cardinality(c.tried) + 1) ELSE z + 3
  BY <1>1, <1>7, <1>13 DEF Stage
<1>20. Rounds(d) < Rounds(c)
  <2> DEFINE a == Cardinality(c.todo)
             e == Cardinality(c.needs \ {r})
             u == Cardinality(c.tried)
  <2>1. /\ Rounds(c) = a * (z + 5) + (e + 1) * (z + 4) + Stage(c)
        /\ Rounds(d) = a * (z + 5) + Cardinality(d.needs) * (z + 4) + Stage(d)
    BY <1>7, <1>9 DEF Rounds
  <2>2. a \in Nat /\ e \in Nat /\ z \in Nat /\ u \in Nat /\ u < z /\ e + 1 \in Nat
    BY <1>8, <1>9, <1>11
  <2>3. Cardinality(d.needs) = IF dup THEN e + 1 ELSE e
    BY <1>7, <1>9
  <2>4. Stage(c) = z + 1 - u /\ Stage(d) = IF dup THEN z + 1 - (u + 1) ELSE z + 3
    BY <1>19
  <2> HIDE DEF a, e, u, z
  <2>5. Stage(c) \in 1 .. z + 3 /\ Stage(d) \in 1 .. z + 3 /\ (dup => Stage(d) < Stage(c))
    BY <2>2, <2>4
  <2>6. CASE dup
    BY <2>1, <2>2, <2>3, <2>5, <2>6, RoundsFall
  <2>7. CASE ~dup
    BY <2>1, <2>2, <2>3, <2>5, <2>7, RoundsFall
  <2> QED BY <2>6, <2>7
<1>21. Active(h)'
  BY <1>7 DEF Active, d
<1> QED BY <1>18, <1>20, <1>21 DEF Calm, c, d

LEMMA CalmIsSafe ==
  ASSUME IsFiniteSet(Nodes), FixInv
  PROVE  CalmHasRound
<1> SUFFICES ASSUME NEW h \in Handlers, Calm(h)
             PROVE  HasRound(h) /\ RoundsLeft(h) \in Nat \ {0}
  BY DEF CalmHasRound
<1>1. CallShape(call[h]) /\ Undisturbed(call[h], tsmap) /\ Active(h)
  BY DEF Calm, FixInv, CallInv
<1>2. HasRound(h)
  BY <1>1 DEF HasRound, Returning, CallShape
<1>3. Rounds(call[h]) \in Nat /\ Rounds(call[h]) >= Stage(call[h]) /\ Stage(call[h]) \in 1 .. Cardinality(Nodes) + 3
  BY <1>1, RoundsPositive
<1>4. RoundsLeft(h) = Rounds(call[h])
  BY <1>1 DEF RoundsLeft
<1> QED BY <1>2, <1>3, <1>4, FS_CardinalityType

LEMMA StepRound ==
  ASSUME IsFiniteSet(Nodes), Cardinality(Nodes) <= MaxNumber, FixInv, FixTyped,
         NEW h \in Handlers, Calm(h), Step(h)
  PROVE  (Calm(h)' \/ ~Active(h)') /\ RoundsLeft(h)' < RoundsLeft(h)
<1>1. ASSUME Calm(h)', Rounds(call'[h]) < Rounds(call[h])
      PROVE  RoundsLeft(h)' < RoundsLeft(h)
  BY <1>1 DEF RoundsLeft, Calm
<1>2. CASE Return(h)
  <2>1. ~Active(h)'
    BY <1>2 DEF Return, Active, Idle, FixInv
  <2>2. RoundsLeft(h)' = 0
    BY <2>1 DEF RoundsLeft
  <2>3. RoundsLeft(h) \in Nat \ {0}
    BY CalmIsSafe DEF CalmHasRound
  <2> QED BY <2>1, <2>2, <2>3
<1> QED BY <1>1, <1>2, VisitRound, PrefixRound, TryRound DEF Step

LEMMA RoundsStep ==
  ASSUME IsFiniteSet(Nodes), Cardinality(Nodes) <= MaxNumber, FixInv, FixTyped, FixNext
  PROVE  CalmRounds
<1> SUFFICES ASSUME NEW h \in Handlers, Calm(h)
             PROVE  Calm(h)' \/ ~Active(h)' \/ \E g \in Handlers \ {h} : EnterPrefix(g)
  BY StepRound, BeginCalm DEF CalmRounds
<1>1. tsmap' = tsmap /\ call'[h] = call[h] => Calm(h)'
  BY DEF Calm, Active, Undisturbed
<1>2. CASE MapRace
  BY <1>2 DEF MapRace, Active, Idle
<1>3. ASSUME NEW g \in Handlers, NEW d \in Inputs, Begin(g, d) PROVE Calm(h)'
  <2>1. g # h
    BY <1>3 DEF Begin, Calm
  <2> QED BY <1>1, <1>3, <2>1 DEF Begin, FixInv
<1>4. ASSUME NEW g \in Handlers \ {h}, Step(g)
      PROVE  Calm(h)' \/ EnterPrefix(g)
  <2>1. EnterPrefix(g) \/ (tsmap' = tsmap /\ call'[h] = call[h])
    BY <1>4 DEF Step, TryId, Return, Visit, LookUpPrefix, FixInv
  <2> QED BY <1>1, <2>1
<1> QED BY <1>2, <1>3, <1>4, StepRound DEF FixNext

(* In a document of any size Fixup ends, unless another call enters a      *)
(* prefix meanwhile: a call that is not disturbed always has a next step,  *)
(* and each uses up one of a number that is at first n(n+5) + n+3, for n   *)
(* nodes, whatever the document and whatever earlier calls, or other ones  *)
(* at the same time, have left in tsmap (data/election.go:290-338).        *)
THEOREM FixupIsFinite ==
  ASSUME IsFiniteSet(Nodes), Cardinality(Nodes) <= MaxNumber
  PROVE  FixSpec => []CalmHasRound /\ [][CalmRounds]_fixVars
<1>1. FixInv => CalmHasRound
  BY CalmIsSafe
<1>2. FixInv /\ FixTyped /\ [FixNext]_fixVars => [CalmRounds]_fixVars
  BY RoundsStep
<1> QED BY <1>1, <1>2, FixupInv, FixupTypes, PTL DEF FixSpec

-----------------------------------------------------------------------------
(* The render cache is the keyed store.                                    *)

Counting == ai \in Nat

(* The access counter of Put and Get is a number.                          *)
LEMMA CountingInvariant == Spec => []Counting
<1>1. Init => Counting
  BY DEF Init, Counting
<1>2. Counting /\ [Next]_vars => Counting'
  <2> SUFFICES ASSUME Counting, [Next]_vars PROVE Counting'
    OBVIOUS
  <2>1. CASE UNCHANGED vars
    BY <2>1 DEF Counting, vars
  <2>2. ASSUME NEW k \in Keys, GetMiss(k) \/ Invalidate(k) PROVE Counting'
    BY <2>2 DEF Counting, GetMiss, Invalidate
  <2>3. ASSUME NEW k \in Keys, GetHit(k) PROVE Counting'
    <3>1. ai' = ai + 1
      BY <2>3 DEF GetHit
    <3> QED BY <3>1 DEF Counting
  <2>4. ASSUME NEW k \in Keys, NEW sz \in Sizes,
               PutNew(k, sz) \/ PutReplace(k, sz) \/ PutNoSlot(k, sz)
        PROVE  Counting'
    <3>1. ai' = ai + 1
      BY <2>4 DEF PutNew, PutReplace, PutNoSlot, Allocate
    <3> QED BY <3>1 DEF Counting
  <2> QED BY <2>1, <2>2, <2>3, <2>4 DEF Next
<1> QED BY <1>1, <1>2, PTL DEF Spec

(* The empty cache is the empty store.                                     *)
LEMMA InitRefines == Init => Abstract!Init
BY DEF Init, Abstract!Init

(* A lookup has an outcome of Get: it hands out the data of its own key or *)
(* panics, and leaves the map alone.                                       *)
LEMMA GetRefines ==
  ASSUME NEW k \in Keys, GetMiss(k) \/ GetHit(k)
  PROVE  Abstract!Get(k)
<1>1. CASE GetMiss(k)
  BY <1>1 DEF GetMiss, Abstract!Get, Abstract!GetOutcomes
<1>2. CASE GetHit(k)
  <2> DEFINE bad == FixPanics(seeni[byKey[k]])
             o   == [data |-> IF bad THEN None ELSE byKey[k], panic |-> bad]
  <2>1. /\ byKey[k] # None
        /\ last' = [op |-> "get", key |-> k, data |-> o.data, panic |-> o.panic]
        /\ UNCHANGED byKey
    BY <1>2 DEF GetHit
  <2>2. bad \in BOOLEAN
    BY DEF FixPanics
  <2>3. o \in Abstract!GetOutcomes(byKey, k)
    BY <2>1, <2>2 DEF Abstract!GetOutcomes
  <2> QED BY <2>1, <2>3 DEF Abstract!Get
<1> QED BY <1>1, <1>2

(* A Put has an outcome of Put, whether it returns, panics in the eviction *)
(* loop or panics on the missing slot.                                     *)
LEMMA PutRefines ==
  ASSUME Counting, NEW k \in Keys, NEW sz \in Sizes,
         PutNew(k, sz) \/ PutReplace(k, sz) \/ PutNoSlot(k, sz)
  PROVE  \E v \in Stamps : Abstract!Put(k, v)
<1>1. ai \in Stamps
  <2>1. ai < MaxOps
    BY DEF PutNew, PutReplace, PutNoSlot, Allocate
  <2> QED BY <2>1, BoundsAssumption DEF Counting, Stamps
<1>2. ASSUME NEW h, NEW cs, Evict(k, h, cs), byKey' = [byKey EXCEPT ![k] = ai]
      PROVE  Abstract!Put(k, ai)
  <2> DEFINE o == [store |-> [byKey EXCEPT ![k] = ai], panic |-> cs > Capacity]
  <2>1. o \in Abstract!PutOutcomes(byKey, k, ai)
    BY DEF Abstract!PutOutcomes
  <2>2. last' = [op |-> "put", key |-> k, data |-> ai, panic |-> o.panic]
    BY <1>2 DEF Evict
  <2> QED BY <1>2, <2>1, <2>2 DEF Abstract!Put
<1>3. CASE PutNew(k, sz)
  BY <1>1, <1>2, <1>3 DEF PutNew
<1>4. CASE PutReplace(k, sz)
  BY <1>1, <1>2, <1>4 DEF PutReplace
<1>5. CASE PutNoSlot(k, sz)
  <2> DEFINE o == [store |-> byKey, panic |-> TRUE]
  <2>1. /\ byKey[k] # None /\ UNCHANGED byKey
        /\ last' = [op |-> "put", key |-> k, data |-> ai, panic |-> TRUE]
    BY <1>5 DEF PutNoSlot
  <2>2. o \in Abstract!PutOutcomes(byKey, k, ai)
    BY <2>1 DEF Abstract!PutOutcomes
  <2> QED BY <1>1, <2>1, <2>2 DEF Abstract!Put
<1> QED BY <1>3, <1>4, <1>5

(* The render cache is the keyed store its callers rely on: no call of     *)
(* Put, Get or Invalidate changes or hands out the data of another key,    *)
(* and a call that panics leaves the map as it was or as it was meant to   *)
(* become.                                                                 *)
THEOREM Refinement == Spec => ImplementsCacheSpec
<1>1. Counting /\ [Next]_vars => [Abstract!Next]_<<byKey, last>>
  <2> SUFFICES ASSUME Counting, [Next]_vars
               PROVE  [Abstract!Next]_<<byKey, last>>
    OBVIOUS
  <2>1. CASE UNCHANGED vars
    BY <2>1 DEF vars
  <2>2. ASSUME NEW k \in Keys, GetMiss(k) \/ GetHit(k) PROVE Abstract!Next
    BY <2>2, GetRefines DEF Abstract!Next
  <2>3. ASSUME NEW k \in Keys, Invalidate(k) PROVE Abstract!Next
    BY <2>3 DEF Invalidate, Abstract!Invalidate, Abstract!Invalidated, Abstract!Next
  <2>4. ASSUME NEW k \in Keys, NEW sz \in Sizes,
               PutNew(k, sz) \/ PutReplace(k, sz) \/ PutNoSlot(k, sz)
        PROVE  Abstract!Next
    BY <2>4, PutRefines DEF Abstract!Next
  <2> QED BY <2>1, <2>2, <2>3, <2>4 DEF Next
<1> QED BY <1>1, InitRefines, CountingInvariant, PTL DEF Spec, ImplementsCacheSpec, Abstract!Spec

-----------------------------------------------------------------------------
(* The heap and the sizes of the render cache.                             *)

Heaps == [they : Seq(Stamps), seen : [Stamps -> Nat], seeni : [Stamps -> Nat]]

(* What the work of container/heap may make of a heap: entries change      *)
(* places, and an index that changes becomes that of a slot.               *)
Rearranged(h) ==
  {g \in Heaps : /\ Len(g.they) = Len(h.they) /\ g.seen = h.seen
                 /\ \A e \in Stamps : g.seeni[e] = h.seeni[e] \/ g.seeni[e] < Len(h.they)}

LEMMA SwapRearranges ==
  ASSUME NEW h \in Heaps, NEW i \in 0 .. Len(h.they) - 1, NEW j \in 0 .. Len(h.they) - 1
  PROVE  Swap(h, i, j) \in Rearranged(h)
<1> DEFINE L == Len(h.they)
           a == h.they[i + 1]
           b == h.they[j + 1]
           they2  == [h.they EXCEPT ![i + 1] = b, ![j + 1] = a]
           seeni2 == [h.seeni EXCEPT ![b] = i, ![a] = j]
<1>1. h.they \in Seq(Stamps) /\ L \in Nat /\ h.they \in [1 .. L -> Stamps]
  BY DEF Heaps
<1>2. a \in Stamps /\ b \in Stamps /\ i + 1 \in 1 .. L /\ j + 1 \in 1 .. L
  BY <1>1
<1>3. they2 \in [1 .. L -> Stamps]
  BY <1>1, <1>2
<1>4. they2 \in Seq(Stamps) /\ Len(they2) = L
  <2>1. they2 \in Seq(Stamps)
    BY <1>1, <1>3, SeqDef
  <2> QED BY <1>1, <1>3, <2>1
<1>5. seeni2 \in [Stamps -> Nat]
  <2>1. h.seeni \in [Stamps -> Nat] /\ i \in Nat /\ j \in Nat
    BY <1>1 DEF Heaps
  <2> QED BY <2>1, <1>2
<1>6. ASSUME NEW e \in Stamps PROVE seeni2[e] = h.seeni[e] \/ seeni2[e] < L
  <2>1. h.seeni \in [Stamps -> Nat]
    BY DEF Heaps
  <2>2. seeni2[e] = h.seeni[e] \/ seeni2[e] = i \/ seeni2[e] = j
    BY <2>1, <1>2
  <2> QED BY <1>1, <2>2
<1>7. Swap(h, i, j) = [they |-> they2, seen |-> h.seen, seeni |-> seeni2]
  <2>1. Swap(h, i, j) = [h EXCEPT !.they = they2, !.seeni = seeni2]
    BY DEF Swap
  <2> DEFINE g == [h EXCEPT !.they = they2, !.seeni = seeni2]
  <2> HIDE DEF they2, seeni2
  <2>2. g.they = they2 /\ g.seen = h.seen /\ g.seeni = seeni2 /\ g \in Heaps
    BY <1>4, <1>5 DEF Heaps
  <2> HIDE DEF g
  <2>3. g = [they |-> g.they, seen |-> g.seen, seeni |-> g.seeni]
    BY <2>2 DEF Heaps
  <2> QED BY <2>1, <2>2, <2>3 DEF g
<1> HIDE DEF they2, seeni2
<1>8. [they |-> they2, seen |-> h.seen, seeni |-> seeni2] \in Heaps
  BY <1>4, <1>5 DEF Heaps
<1> QED BY <1>4, <1>6, <1>7, <1>8 DEF Rearranged

LEMMA RearrangedAgain ==
  ASSUME NEW h \in Heaps, NEW g \in Rearranged(h), NEW f \in Rearranged(g)
  PROVE  f \in Rearranged(h)
BY DEF Rearranged

(* Where Up and Down are on their path.                                    *)
Walks(h) == [h : Rearranged(h), at : {k \in Nat : k < Len(h.they) \/ k = 0}]

LEMMA UpRearranges ==
  ASSUME NEW h \in Heaps, NEW i \in Nat, i < Len(h.they) \/ i = 0
  PROVE  Up(h, i) \in Walks(h)
<1> DEFINE W  == Walks(h)
           w0 == [h |-> h, at |-> i]
           g  == [w \in W |-> UpStep(w)]
           up == CHOOSE f : f = [s \in Nat |-> IF s = 0 THEN w0 ELSE UpStep(f[s - 1])]
<1>1. Len(h.they) \in Nat
  BY DEF Heaps
<1>2. w0 \in W
  BY <1>1 DEF Walks, Rearranged
<1>3. ASSUME NEW w \in W PROVE UpStep(w) \in W
  <2> DEFINE parent == (w.at - 1) \div 2
  <2>1. w.h \in Heaps /\ w.h \in Rearranged(h) /\ Len(w.h.they) = Len(h.they) /\ w.at \in Nat
        /\ (w.at < Len(h.they) \/ w.at = 0)
    BY DEF Walks, Rearranged
  <2>2. CASE w.at > 0
    <3>1. parent \in Nat /\ parent < w.at /\ w.at < Len(h.they)
      BY <2>1, <2>2
    <3>2. parent \in 0 .. Len(w.h.they) - 1 /\ w.at \in 0 .. Len(w.h.they) - 1
      BY <1>1, <2>1, <3>1
    <3>3. Swap(w.h, parent, w.at) \in Rearranged(h)
      BY <2>1, <3>2, SwapRearranges, RearrangedAgain
    <3>4. [h |-> Swap(w.h, parent, w.at), at |-> parent] \in W
      BY <2>1, <3>1, <3>3, <1>1 DEF Walks
    <3>5. UpStep(w) = IF w.at > 0 /\ Less(w.h, w.at, parent)
                      THEN [h |-> Swap(w.h, parent, w.at), at |-> parent] ELSE w
      BY DEF UpStep
    <3> HIDE DEF parent, W
    <3> QED BY <3>4, <3>5
  <2>3. CASE ~(w.at > 0)
    BY <2>3 DEF UpStep
  <2> QED BY <2>2, <2>3
<1> HIDE DEF W, w0
<1>4. g \in [W -> W] /\ \A w \in W : g[w] = UpStep(w)
  BY <1>3
<1> HIDE DEF g
<1>5. up = [s \in Nat |-> IF s = 0 THEN w0 ELSE UpStep(up[s - 1])]
  <2>1. PICK f \in [Nat -> W] : f = [s \in Nat |-> IF s = 0 THEN w0 ELSE g[f[s - 1]]]
    <3>1. Iterated(W, w0, g)
      BY <1>2, <1>4, Iteration
    <3> QED BY <3>1 DEF Iterated
  <2>2. ASSUME NEW s \in Nat, s # 0 PROVE g[f[s - 1]] = UpStep(f[s - 1])
    BY <1>4, <2>2
  <2>3. f = [s \in Nat |-> IF s = 0 THEN w0 ELSE UpStep(f[s - 1])]
    BY <2>1, <2>2
  <2> QED BY <2>3
<1> HIDE DEF up
<1> DEFINE N == {n \in Nat : up[n] \in W}
<1>6. 0 \in N /\ \A n \in Nat : n \in N => n + 1 \in N
  <2>1. ASSUME NEW n \in N PROVE up[n + 1] \in W
    <3>1. n + 1 \in Nat /\ n + 1 # 0 /\ (n + 1) - 1 = n
      OBVIOUS
    <3>2. up[n + 1] = UpStep(up[n])
      BY <1>5, <3>1
    <3> QED BY <1>3, <3>2
  <2> QED BY <1>2, <1>5, <2>1
<1> HIDE DEF N
<1>7. Len(h.they) \in N
  BY <1>1, <1>6, Successors
<1> QED BY <1>7 DEF N, Up, up, w0, W

LEMMA DownRearranges ==
  ASSUME NEW h \in Heaps, NEW n \in Nat, n <= Len(h.they), NEW i \in Nat,
         i < Len(h.they) \/ i = 0
  PROVE  Down(h, i, n) \in Walks(h)
<1> DEFINE W  == Walks(h)
           w0 == [h |-> h, at |-> i]
           g  == [w \in W |-> DownStep(w, n)]
           down == CHOOSE f : f = [s \in Nat |-> IF s = 0 THEN w0 ELSE DownStep(f[s - 1], n)]
<1>1. Len(h.they) \in Nat
  BY DEF Heaps
<1>2. w0 \in W
  BY <1>1 DEF Walks, Rearranged
<1>3. ASSUME NEW w \in W PROVE DownStep(w, n) \in W
  <2> DEFINE left  == 2 * w.at + 1
             child == IF left + 1 < n /\ Less(w.h, left + 1, left) THEN left + 1 ELSE left
  <2>1. w.h \in Heaps /\ w.h \in Rearranged(h) /\ Len(w.h.they) = Len(h.they) /\ w.at \in Nat
    BY DEF Walks, Rearranged
  <2>2. CASE left < n
    <3>1. child \in 0 .. Len(w.h.they) - 1 /\ w.at \in 0 .. Len(w.h.they) - 1
      BY <1>1, <2>1, <2>2
    <3> HIDE DEF child
    <3>2. Swap(w.h, w.at, child) \in Rearranged(h)
      BY <2>1, <3>1, SwapRearranges, RearrangedAgain
    <3>3. [h |-> Swap(w.h, w.at, child), at |-> child] \in W
      BY <2>1, <3>1, <3>2, <1>1 DEF Walks
    <3>4. DownStep(w, n) = IF left < n /\ Less(w.h, child, w.at)
                           THEN [h |-> Swap(w.h, w.at, child), at |-> child] ELSE w
      BY DEF DownStep, child
    <3> HIDE DEF left, W
    <3> QED BY <3>3, <3>4
  <2>3. CASE ~(left < n)
    BY <2>3 DEF DownStep
  <2> QED BY <2>2, <2>3
<1> HIDE DEF W, w0
<1>4. g \in [W -> W] /\ \A w \in W : g[w] = DownStep(w, n)
  BY <1>3
<1> HIDE DEF g
<1>5. down = [s \in Nat |-> IF s = 0 THEN w0 ELSE DownStep(down[s - 1], n)]
  <2>1. PICK f \in [Nat -> W] : f = [s \in Nat |-> IF s = 0 THEN w0 ELSE g[f[s - 1]]]
    <3>1. Iterated(W, w0, g)
      BY <1>2, <1>4, Iteration
    <3> QED BY <3>1 DEF Iterated
  <2>2. ASSUME NEW s \in Nat, s # 0 PROVE g[f[s - 1]] = DownStep(f[s - 1], n)
    BY <1>4, <2>2
  <2>3. f = [s \in Nat |-> IF s = 0 THEN w0 ELSE DownStep(f[s - 1], n)]
    BY <2>1, <2>2
  <2> QED BY <2>3
<1> HIDE DEF down
<1> DEFINE N == {m \in Nat : down[m] \in W}
<1>6. 0 \in N /\ \A m \in Nat : m \in N => m + 1 \in N
  <2>1. ASSUME NEW m \in N PROVE down[m + 1] \in W
    <3>1. m + 1 \in Nat /\ m + 1 # 0 /\ (m + 1) - 1 = m
      OBVIOUS
    <3>2. down[m + 1] = DownStep(down[m], n)
      BY <1>5, <3>1
    <3> QED BY <1>3, <3>2
  <2> QED BY <1>2, <1>5, <2>1
<1> HIDE DEF N
<1>7. Len(h.they) \in N
  BY <1>1, <1>6, Successors
<1> QED BY <1>7 DEF N, Down, down, w0, W

(* heap.Fix, Push and Pop.                                                 *)
LEMMA FixRearranges ==
  ASSUME NEW h \in Heaps, NEW i \in Nat, i < Len(h.they) \/ i = 0
  PROVE  Fix(h, i) \in Rearranged(h)
<1>1. Len(h.they) \in Nat
  BY DEF Heaps
<1>2. Down(h, i, Len(h.they)) \in Walks(h) /\ Up(h, i) \in Walks(h)
  BY <1>1, DownRearranges, UpRearranges
<1>3. Down(h, i, Len(h.they)).h \in Rearranged(h) /\ Up(h, i).h \in Rearranged(h)
  BY <1>2 DEF Walks
<1> QED BY <1>3 DEF Fix

LEMMA PushRearranges ==
  ASSUME NEW h \in Heaps, NEW e \in Stamps
  PROVE  /\ [h EXCEPT !.they = Append(@, e)] \in Heaps
         /\ Len([h EXCEPT !.they = Append(@, e)].they) = Len(h.they) + 1
         /\ [h EXCEPT !.they = Append(@, e)].seen = h.seen
         /\ [h EXCEPT !.they = Append(@, e)].seeni = h.seeni
         /\ Push(h, e) \in Rearranged([h EXCEPT !.they = Append(@, e)])
<1> DEFINE p == [h EXCEPT !.they = Append(@, e)]
<1>1. Len(h.they) \in Nat /\ h.they \in Seq(Stamps)
  BY DEF Heaps
<1>2. p \in Heaps /\ Len(p.they) = Len(h.they) + 1 /\ p.seen = h.seen /\ p.seeni = h.seeni
  <2>1. Append(h.they, e) \in Seq(Stamps) /\ Len(Append(h.they, e)) = Len(h.they) + 1
    BY <1>1
  <2>2. p = [h EXCEPT !.they = Append(h.they, e)]
    OBVIOUS
  <2> QED BY <2>1, <2>2 DEF Heaps
<1> HIDE DEF p
<1>3. Up(p, Len(h.they)) \in Walks(p)
  BY <1>1, <1>2, UpRearranges
<1>4. Push(h, e) \in Rearranged(p)
  BY <1>3 DEF Push, p, Walks
<1> QED BY <1>2, <1>4 DEF p

LEMMA PopShrinks ==
  ASSUME NEW h \in Heaps, Len(h.they) > 0
  PROVE  Pop(h) \in Heaps
<1> DEFINE n == Len(h.they) - 1
           w == Swap(h, 0, n)
           d == Down(w, 0, n).h
<1>1. n \in Nat /\ Len(h.they) \in Nat
  BY DEF Heaps
<1>2. w \in Rearranged(h) /\ w \in Heaps /\ Len(w.they) = n + 1
  BY <1>1, SwapRearranges DEF Rearranged
<1> HIDE DEF w, n
<1>3. Down(w, 0, n) \in Walks(w)
  BY <1>1, <1>2, DownRearranges
<1>4. d \in Heaps /\ Len(d.they) = n + 1
  BY <1>2, <1>3 DEF Walks, Rearranged
<1> HIDE DEF d
<1>5. SubSeq(d.they, 1, n) \in Seq(Stamps)
  BY <1>1, <1>4 DEF Heaps
<1>6. Pop(h) = [d EXCEPT !.they = SubSeq(@, 1, n)]
  BY DEF Pop, d, w, n
<1> QED BY <1>4, <1>5, <1>6 DEF Heaps

-----------------------------------------------------------------------------
(* The inductive invariant of the cache.  An entry the map holds was       *)
(* allocated before the next one.  Until the heap is popped for the first  *)
(* time every index is that of a slot, or 0, and an entry in the map means *)
(* that there is a slot: so no call can miss the heap.                     *)
Entries == \A k \in Keys : byKey[k] # None => byKey[k] < ai
Slots ==
  ~popped =>
    /\ \A e \in Stamps : seeni[e] < Len(they) \/ seeni[e] = 0
    /\ \A k \in Keys : byKey[k] # None => Len(they) > 0
    /\ last # None => ~last.panic
CacheInv == TypeOK /\ Entries /\ Slots /\ SizeCovers

LEMMA CacheConstants ==
  /\ Capacity \in Nat /\ Word \in Nat /\ MaxOps \in Nat /\ Capacity < Word
  /\ \A sz \in Sizes : sz \in Nat /\ sz < Word /\ Capacity + sz < Word
  /\ Stamps \subseteq Nat /\ None \notin Stamps
BY BoundsAssumption, FitAssumption, NoneNotStamp DEF Stamps

LEMMA HeldType == TypeOK => Held \in [Keys -> Nat]
BY DEF TypeOK, Held

LEMMA CacheInitially == Init => CacheInv
<1> SUFFICES ASSUME Init PROVE CacheInv
  OBVIOUS
<1>1. TypeOK
  <2>1. they \in Seq(Stamps) /\ popped \in BOOLEAN /\ byKey \in [Keys -> Stamps \cup {None}]
    <3>1. <<>> \in Seq(Stamps)
      OBVIOUS
    <3>2. they = <<>> /\ popped = FALSE /\ byKey = [k \in Keys |-> None]
      BY DEF Init
    <3> QED BY <3>1, <3>2
  <2>2. currentSize \in 0 .. Word - 1 /\ ai \in 0 .. MaxOps
    BY CacheConstants DEF Init
  <2>3. size \in [Stamps -> Nat] /\ seen \in [Stamps -> Nat] /\ seeni \in [Stamps -> Nat]
    BY DEF Init
  <2> QED BY <2>1, <2>2, <2>3 DEF TypeOK
<1>2. Held \in [Keys -> Nat] /\ \A k \in Keys : Held[k] = 0
  BY <1>1, HeldType DEF Init, Held
<1>3. SumFunction(Held) = 0
  BY <1>2, KeysAssumption, SumType
<1>4. SizeCovers
  BY <1>3, CacheConstants DEF SizeCovers, Init
<1> QED BY <1>1, <1>4 DEF CacheInv, Entries, Slots, Init

(* The end of Put, with the heap it has built.                             *)
LEMMA EvictKeeps ==
  ASSUME TypeOK, NEW k, NEW h \in Heaps, NEW cs \in 0 .. Word - 1, Len(h.they) > 0,
         Evict(k, h, cs)
  PROVE  /\ they' \in Seq(Stamps) /\ seen' \in [Stamps -> Nat] /\ seeni' \in [Stamps -> Nat]
         /\ currentSize' = cs /\ popped' \in BOOLEAN
         /\ ~popped' => /\ ~popped /\ cs <= Capacity /\ ~last'.panic
                        /\ they' = h.they /\ seeni' = h.seeni
<1>1. Pop(h) \in Heaps
  BY PopShrinks
<1>2. CASE cs > Capacity
  <2>1. they' = Pop(h).they /\ seen' = Pop(h).seen /\ seeni' = Pop(h).seeni
        /\ currentSize' = cs /\ popped'
    BY <1>2 DEF Evict
  <2>2. popped' \in BOOLEAN
    BY DEF Evict, TypeOK
  <2> QED BY <1>1, <2>1, <2>2 DEF Heaps
<1>3. CASE ~(cs > Capacity)
  <2>1. they' = h.they /\ seen' = h.seen /\ seeni' = h.seeni
        /\ currentSize' = cs /\ popped' = (popped \/ FALSE) /\ ~last'.panic
    BY <1>3 DEF Evict
  <2>2. popped' \in BOOLEAN
    BY <2>1 DEF TypeOK
  <2>3. cs <= Capacity
    BY <1>3, CacheConstants
  <2> QED BY <2>1, <2>2, <2>3 DEF Heaps
<1> QED BY <1>2, <1>3

(* A new entry: the heap with it, and what is then held.                   *)
LEMMA AllocateKeeps ==
  ASSUME CacheInv, NEW k \in Keys, NEW sz \in Sizes, Allocate(sz),
         byKey' = [byKey EXCEPT ![k] = ai]
  PROVE  /\ ai \in Stamps /\ Fresh \in Heaps /\ Fresh.they = they /\ Fresh.seeni = seeni
         /\ size' \in [Stamps -> Nat] /\ ai' \in 0 .. MaxOps
         /\ byKey' \in [Keys -> Stamps \cup {None}]
         /\ Entries'
         /\ Held' \in [Keys -> Nat]
         /\ SumFunction(Held') + Held[k] = SumFunction(Held) + sz
<1>1. ai \in Stamps /\ ai \in Nat /\ ai' = ai + 1 /\ ai' \in 0 .. MaxOps
  BY CacheConstants DEF Allocate, CacheInv, TypeOK, Stamps
<1>2. Fresh \in Heaps /\ Fresh.they = they /\ Fresh.seeni = seeni
  BY <1>1 DEF Fresh, Heaps, CacheInv, TypeOK
<1>3. size' = [size EXCEPT ![ai] = sz] /\ size' \in [Stamps -> Nat] /\ sz \in Nat
  BY <1>1, CacheConstants DEF Allocate, CacheInv, TypeOK
<1>4. byKey' \in [Keys -> Stamps \cup {None}]
  BY <1>1 DEF CacheInv, TypeOK
<1>5. Entries'
  <2> SUFFICES ASSUME NEW j \in Keys, byKey'[j] # None PROVE byKey'[j] < ai'
    BY DEF Entries
  <2>1. CASE j = k
    BY <1>1, <2>1 DEF CacheInv, TypeOK
  <2>2. CASE j # k
    <3>1. byKey'[j] = byKey[j] /\ byKey[j] \in Nat
      BY <2>2, CacheConstants DEF CacheInv, TypeOK
    <3> QED BY <1>1, <3>1 DEF CacheInv, Entries
  <2> QED BY <2>1, <2>2
<1>6. Held' \in [Keys -> Nat] /\ Held \in [Keys -> Nat]
  BY <1>3, <1>4 DEF Held, CacheInv, TypeOK
<1>7. Held'[k] = sz
  BY <1>1, <1>3, CacheConstants DEF Held, CacheInv, TypeOK
<1>8. ASSUME NEW j \in Keys \ {k} PROVE Held'[j] = Held[j]
  <2>1. byKey'[j] = byKey[j]
    BY DEF CacheInv, TypeOK
  <2>2. byKey[j] # None => size'[byKey[j]] = size[byKey[j]]
    <3>1. byKey[j] # None => byKey[j] \in Stamps /\ byKey[j] # ai
      BY <1>1, CacheConstants DEF CacheInv, Entries, TypeOK
    <3> QED BY <1>3, <3>1 DEF CacheInv, TypeOK
  <2> QED BY <2>1, <2>2 DEF Held
<1>9. SumFunction(Held') + Held[k] = SumFunction(Held) + Held'[k]
  BY <1>6, <1>8, KeysAssumption, SumUpdate
<1> QED BY <1>1, <1>2, <1>3, <1>4, <1>5, <1>6, <1>7, <1>9

LEMMA PutNewKeeps ==
  ASSUME CacheInv, NEW k \in Keys, NEW sz \in Sizes, PutNew(k, sz)
  PROVE  CacheInv'
<1> DEFINE p  == [Fresh EXCEPT !.they = Append(@, ai)]
           cs == (currentSize + sz) % Word
<1> USE CacheConstants
<1>1. /\ byKey[k] = None /\ Allocate(sz) /\ byKey' = [byKey EXCEPT ![k] = ai]
      /\ Evict(k, Push(Fresh, ai), cs)
  BY DEF PutNew
<1>2. /\ ai \in Stamps /\ Fresh \in Heaps /\ Fresh.they = they /\ Fresh.seeni = seeni
      /\ size' \in [Stamps -> Nat] /\ ai' \in 0 .. MaxOps
      /\ byKey' \in [Keys -> Stamps \cup {None}] /\ Entries'
      /\ Held' \in [Keys -> Nat]
      /\ SumFunction(Held') + Held[k] = SumFunction(Held) + sz
  BY <1>1, AllocateKeeps
<1>3. /\ p \in Heaps /\ Len(p.they) = Len(they) + 1 /\ p.seeni = seeni
      /\ Push(Fresh, ai) \in Rearranged(p)
  BY <1>2, PushRearranges
<1>4. Len(they) \in Nat /\ currentSize \in Nat /\ currentSize < Word /\ sz \in Nat
  BY DEF CacheInv, TypeOK
<1> HIDE DEF p
<1>5. /\ Push(Fresh, ai) \in Heaps /\ Len(Push(Fresh, ai).they) = Len(they) + 1
      /\ \A e \in Stamps : Push(Fresh, ai).seeni[e] = seeni[e] \/ Push(Fresh, ai).seeni[e] < Len(they) + 1
  BY <1>3 DEF Rearranged
<1>6. cs \in 0 .. Word - 1 /\ (currentSize <= Capacity => cs = currentSize + sz)
  BY <1>4
<1> HIDE DEF cs
<1>7. /\ they' \in Seq(Stamps) /\ seen' \in [Stamps -> Nat] /\ seeni' \in [Stamps -> Nat]
      /\ currentSize' = cs /\ popped' \in BOOLEAN
      /\ ~popped' => /\ ~popped /\ cs <= Capacity /\ ~last'.panic
                     /\ they' = Push(Fresh, ai).they /\ seeni' = Push(Fresh, ai).seeni
  BY <1>1, <1>4, <1>5, <1>6, EvictKeeps DEF CacheInv
<1>8. TypeOK'
  BY <1>2, <1>6, <1>7 DEF TypeOK
<1>9. Slots'
  <2> SUFFICES ASSUME ~popped'
               PROVE  /\ \A e \in Stamps : seeni'[e] < Len(they') \/ seeni'[e] = 0
                      /\ Len(they') > 0 /\ ~last'.panic
    BY DEF Slots
  <2>1. \A e \in Stamps : seeni[e] < Len(they) \/ seeni[e] = 0
    BY <1>7 DEF CacheInv, Slots
  <2>2. seeni \in [Stamps -> Nat] /\ seeni' \in [Stamps -> Nat]
    BY <1>7 DEF CacheInv, TypeOK
  <2>3. Len(they') = Len(they) + 1
    BY <1>5, <1>7
  <2>4. \A e \in Stamps : seeni'[e] = seeni[e] \/ seeni'[e] < Len(they) + 1
    BY <1>5, <1>7
  <2>5. \A e \in Stamps : seeni'[e] < Len(they) + 1 \/ seeni'[e] = 0
    BY <1>4, <2>1, <2>2, <2>4
  <2> QED BY <1>4, <1>7, <2>3, <2>5
<1>10. SizeCovers'
  <2> SUFFICES ASSUME ~popped'
               PROVE  currentSize' <= Capacity /\ SumFunction(Held') <= currentSize'
    BY DEF SizeCovers
  <2>1. currentSize <= Capacity /\ SumFunction(Held) <= currentSize
    BY <1>7 DEF CacheInv, SizeCovers
  <2>2. Held[k] = 0
    BY <1>1 DEF Held
  <2>3. SumFunction(Held) \in Nat /\ SumFunction(Held') \in Nat
    BY <1>2, HeldType, KeysAssumption, SumType DEF CacheInv
  <2> QED BY <1>2, <1>4, <1>6, <1>7, <2>1, <2>2, <2>3
<1> QED BY <1>2, <1>8, <1>9, <1>10 DEF CacheInv

LEMMA PutReplaceKeeps ==
  ASSUME CacheInv, NEW k \in Keys, NEW sz \in Sizes, PutReplace(k, sz)
  PROVE  CacheInv'
<1> DEFINE slot == seeni[byKey[k]]
           p  == [Fresh EXCEPT !.they[slot + 1] = ai]
           q  == Fix(p, slot)
           cs == Resized(byKey[k], sz)
<1> USE CacheConstants
<1>1. /\ byKey[k] # None /\ Allocate(sz) /\ byKey' = [byKey EXCEPT ![k] = ai]
      /\ slot < Len(they) /\ Evict(k, q, cs)
  BY DEF PutReplace
<1>2. /\ ai \in Stamps /\ Fresh \in Heaps /\ Fresh.they = they /\ Fresh.seeni = seeni
      /\ size' \in [Stamps -> Nat] /\ ai' \in 0 .. MaxOps
      /\ byKey' \in [Keys -> Stamps \cup {None}] /\ Entries'
      /\ Held' \in [Keys -> Nat]
      /\ SumFunction(Held') + Held[k] = SumFunction(Held) + sz
  BY <1>1, AllocateKeeps
<1>3. byKey[k] \in Stamps /\ slot \in Nat /\ size[byKey[k]] \in Nat /\ Held[k] = size[byKey[k]]
  BY <1>1 DEF CacheInv, TypeOK, Held
<1>4. Len(they) \in Nat /\ currentSize \in Nat /\ currentSize < Word /\ sz \in Nat
  BY DEF CacheInv, TypeOK
<1> HIDE DEF slot
<1>5. p \in Heaps /\ Len(p.they) = Len(they) /\ p.seeni = seeni
  <2>1. they \in Seq(Stamps) /\ slot + 1 \in 1 .. Len(they)
    <3>1. they \in Seq(Stamps)
      BY DEF CacheInv, TypeOK
    <3> QED BY <1>1, <1>3, <1>4, <3>1
  <2>2. [they EXCEPT ![slot + 1] = ai] \in Seq(Stamps) /\ Len([they EXCEPT ![slot + 1] = ai]) = Len(they)
    BY <1>2, <2>1, ExceptSeq
  <2>3. p = [Fresh EXCEPT !.they = [they EXCEPT ![slot + 1] = ai]]
    BY <1>2
  <2> QED BY <1>2, <2>2, <2>3 DEF Heaps
<1> HIDE DEF p
<1>6. q \in Rearranged(p)
  BY <1>1, <1>3, <1>5, FixRearranges
<1> HIDE DEF q
<1>7. /\ q \in Heaps /\ Len(q.they) = Len(they)
      /\ \A e \in Stamps : q.seeni[e] = seeni[e] \/ q.seeni[e] < Len(they)
  BY <1>5, <1>6 DEF Rearranged
<1>8. /\ cs \in 0 .. Word - 1
      /\ ~popped => cs = currentSize - size[byKey[k]] + sz
  <2>1. cs \in 0 .. Word - 1
    BY <1>3, <1>4 DEF Resized
  <2>2. ASSUME ~popped PROVE cs = currentSize - size[byKey[k]] + sz
    <3>1. currentSize <= Capacity /\ SumFunction(Held) <= currentSize
      BY <2>2 DEF CacheInv, SizeCovers
    <3>2. SumFunction(Held) \in Nat /\ Held[k] <= SumFunction(Held)
      BY HeldType, KeysAssumption, SumType DEF CacheInv
    <3>3. size[byKey[k]] <= currentSize
      BY <1>3, <1>4, <3>1, <3>2
    <3> DEFINE t == currentSize - size[byKey[k]] + sz
    <3>4. t \in Nat /\ t < Word /\ currentSize + Word - size[byKey[k]] + sz = t + Word
      BY <1>3, <1>4, <3>1, <3>3
    <3> HIDE DEF t
    <3>5. (t + Word) % Word = t
      BY <3>4
    <3> QED BY <3>4, <3>5 DEF Resized, t
  <2> QED BY <2>1, <2>2
<1> HIDE DEF cs
<1>9. /\ they' \in Seq(Stamps) /\ seen' \in [Stamps -> Nat] /\ seeni' \in [Stamps -> Nat]
      /\ currentSize' = cs /\ popped' \in BOOLEAN
      /\ ~popped' => /\ ~popped /\ cs <= Capacity /\ ~last'.panic
                     /\ they' = q.they /\ seeni' = q.seeni
  BY <1>1, <1>3, <1>4, <1>7, <1>8, EvictKeeps DEF CacheInv
<1>10. TypeOK'
  BY <1>2, <1>8, <1>9 DEF TypeOK
<1>11. Slots'
  <2> SUFFICES ASSUME ~popped'
               PROVE  /\ \A e \in Stamps : seeni'[e] < Len(they') \/ seeni'[e] = 0
                      /\ Len(they') > 0 /\ ~last'.panic
    BY DEF Slots
  <2>1. \A e \in Stamps : seeni[e] < Len(they) \/ seeni[e] = 0
    BY <1>9 DEF CacheInv, Slots
  <2>2. Len(they') = Len(they) /\ Len(they) > 0
    BY <1>1, <1>3, <1>4, <1>7, <1>9
  <2> QED BY <1>7, <1>9, <2>1, <2>2
<1>12. SizeCovers'
  <2> SUFFICES ASSUME ~popped'
               PROVE  currentSize' <= Capacity /\ SumFunction(Held') <= currentSize'
    BY DEF SizeCovers
  <2>1. SumFunction(Held) <= currentSize
    BY <1>9 DEF CacheInv, SizeCovers
  <2>2. SumFunction(Held) \in Nat /\ SumFunction(Held') \in Nat
    BY <1>2, HeldType, KeysAssumption, SumType DEF CacheInv
  <2>3. currentSize' = currentSize - size[byKey[k]] + sz
    BY <1>8, <1>9
  <2>4. SumFunction(Held') + size[byKey[k]] = SumFunction(Held) + sz
    BY <1>2, <1>3
  <2>5. currentSize' <= Capacity
    BY <1>9
  <2> QED BY <1>3, <1>4, <2>1, <2>2, <2>3, <2>4, <2>5
<1> QED BY <1>2, <1>10, <1>11, <1>12 DEF CacheInv

LEMMA PutNoSlotKeeps ==
  ASSUME CacheInv, NEW k \in Keys, NEW sz \in Sizes, PutNoSlot(k, sz)
  PROVE  CacheInv'
<1> USE CacheConstants
<1>1. /\ byKey[k] # None /\ seeni[byKey[k]] >= Len(they) /\ Allocate(sz)
      /\ seen' = [seen EXCEPT ![ai] = ai] /\ currentSize' = Resized(byKey[k], sz)
      /\ UNCHANGED <<seeni, byKey, they, popped>>
  BY DEF PutNoSlot, Fresh
<1>2. byKey[k] \in Stamps /\ Len(they) \in Nat /\ seeni[byKey[k]] \in Nat
      /\ size[byKey[k]] \in Nat /\ currentSize \in Nat /\ sz \in Nat
  BY <1>1 DEF CacheInv, TypeOK
<1>3. popped
  <2> SUFFICES ASSUME ~popped PROVE FALSE
    OBVIOUS
  <2>1. Len(they) > 0 /\ (seeni[byKey[k]] < Len(they) \/ seeni[byKey[k]] = 0)
    BY <1>1, <1>2 DEF CacheInv, Slots
  <2> QED BY <1>1, <1>2, <2>1
<1>4. ai \in Stamps /\ ai \in Nat /\ ai' = ai + 1 /\ ai' \in 0 .. MaxOps
  BY <1>1 DEF Allocate, CacheInv, TypeOK, Stamps
<1>5. size' \in [Stamps -> Nat] /\ seen' \in [Stamps -> Nat]
  BY <1>1, <1>2, <1>4 DEF Allocate, CacheInv, TypeOK
<1>6. currentSize' \in 0 .. Word - 1
  <2>1. currentSize' = (currentSize + Word - size[byKey[k]] + sz) % Word
    BY <1>1 DEF Resized
  <2>2. currentSize + Word - size[byKey[k]] + sz \in Int /\ Word \in Nat /\ Word > 0
    BY <1>2, BoundsAssumption
  <2> QED BY <2>1, <2>2
<1>7. TypeOK'
  BY <1>1, <1>4, <1>5, <1>6 DEF CacheInv, TypeOK
<1>8. Entries'
  <2> SUFFICES ASSUME NEW j \in Keys, byKey[j] # None PROVE byKey[j] < ai'
    BY <1>1 DEF Entries
  <2>1. byKey[j] \in Nat /\ byKey[j] < ai
    BY DEF CacheInv, TypeOK, Entries
  <2> QED BY <1>4, <2>1
<1> QED BY <1>1, <1>3, <1>7, <1>8 DEF CacheInv, Slots, SizeCovers

LEMMA GetKeeps ==
  ASSUME CacheInv, NEW k \in Keys, GetMiss(k) \/ GetHit(k)
  PROVE  CacheInv'
<1> USE CacheConstants
<1>1. CASE GetMiss(k)
  BY <1>1 DEF GetMiss, CacheInv, TypeOK, Entries, Slots, SizeCovers, Held
<1>2. CASE GetHit(k)
  <2> DEFINE ent == byKey[k]
             h   == [they |-> they, seen |-> [seen EXCEPT ![ent] = ai], seeni |-> seeni]
             bad == FixPanics(seeni[ent])
             h2  == IF bad THEN h ELSE Fix(h, seeni[ent])
  <2>1. /\ ent # None /\ ai < MaxOps /\ ai' = ai + 1
        /\ they' = h2.they /\ seen' = h2.seen /\ seeni' = h2.seeni
        /\ last'.panic = bad
        /\ UNCHANGED <<size, byKey, currentSize, popped>>
    BY <1>2 DEF GetHit
  <2>2. ent \in Stamps /\ Len(they) \in Nat /\ seeni[ent] \in Nat /\ ai \in Nat
    <3>1. ent \in Stamps
      BY <2>1 DEF CacheInv, TypeOK
    <3>2. seeni[ent] \in Nat /\ they \in Seq(Stamps) /\ ai \in Nat
      <4>1. seeni \in [Stamps -> Nat] /\ they \in Seq(Stamps) /\ ai \in 0 .. MaxOps
        BY DEF CacheInv, TypeOK
      <4> HIDE DEF ent
      <4> QED BY <3>1, <4>1
    <3> QED BY <3>1, <3>2
  <2>3. h \in Heaps /\ h.they = they /\ h.seeni = seeni
    BY <2>2 DEF CacheInv, TypeOK, Heaps
  <2> HIDE DEF h
  <2>4. h2 \in Rearranged(h)
    <3>1. CASE bad
      BY <2>3, <3>1 DEF Rearranged
    <3>2. CASE ~bad
      BY <2>2, <2>3, <3>2, FixRearranges DEF FixPanics
    <3> QED BY <3>1, <3>2
  <2>5. ~popped => ~bad
    <3>1. ~popped => seeni[ent] < Len(they) \/ seeni[ent] = 0
      BY <2>2 DEF CacheInv, Slots
    <3> QED BY <2>2, <3>1 DEF FixPanics
  <2> HIDE DEF bad, h2
  <2>6. /\ h2 \in Heaps /\ Len(h2.they) = Len(they)
        /\ \A e \in Stamps : h2.seeni[e] = seeni[e] \/ h2.seeni[e] < Len(they)
    BY <2>3, <2>4 DEF Rearranged
  <2>7. TypeOK'
    <3>1. they' \in Seq(Stamps) /\ seen' \in [Stamps -> Nat] /\ seeni' \in [Stamps -> Nat]
      BY <2>1, <2>6 DEF Heaps
    <3>2. ai' \in 0 .. MaxOps
      BY <2>1, <2>2
    <3> QED BY <2>1, <3>1, <3>2 DEF CacheInv, TypeOK
  <2>8. Entries'
    <3> SUFFICES ASSUME NEW j \in Keys, byKey[j] # None PROVE byKey[j] < ai'
      BY <2>1 DEF Entries
    <3>1. byKey[j] \in Nat /\ byKey[j] < ai
      BY DEF CacheInv, TypeOK, Entries
    <3> QED BY <2>1, <2>2, <3>1
  <2>9. Slots'
    <3> SUFFICES ASSUME ~popped
                 PROVE  /\ \A e \in Stamps : seeni'[e] < Len(they') \/ seeni'[e] = 0
                        /\ Len(they') > 0 /\ ~last'.panic
      BY <2>1 DEF Slots
    <3>1. /\ \A e \in Stamps : seeni[e] < Len(they) \/ seeni[e] = 0
          /\ Len(they) > 0
      BY <2>1 DEF CacheInv, Slots
    <3> QED BY <2>1, <2>5, <2>6, <3>1
  <2> QED BY <2>1, <2>7, <2>8, <2>9 DEF CacheInv, SizeCovers, Held
<1> QED BY <1>1, <1>2

LEMMA InvalidateKeeps ==
  ASSUME CacheInv, NEW k \in Keys, Invalidate(k)
  PROVE  CacheInv'
<1> USE CacheConstants
<1>1. /\ byKey' = [byKey EXCEPT ![k] = None] /\ last'.panic = FALSE
      /\ UNCHANGED <<size, seen, seeni, they, currentSize, ai, popped>>
  BY DEF Invalidate
<1>2. TypeOK'
  BY <1>1 DEF CacheInv, TypeOK
<1>3. \A j \in Keys : byKey'[j] = None \/ byKey'[j] = byKey[j]
  BY <1>1 DEF CacheInv, TypeOK
<1>4. Entries'
  BY <1>1, <1>3 DEF CacheInv, Entries
<1>5. Slots'
  BY <1>1, <1>3 DEF CacheInv, Slots
<1>6. SizeCovers'
  <2>1. Held \in [Keys -> Nat] /\ Held' \in [Keys -> Nat]
    BY <1>2, HeldType DEF CacheInv, Held, TypeOK
  <2>2. Held'[k] = 0 /\ \A j \in Keys \ {k} : Held'[j] = Held[j]
    BY <1>1 DEF Held, CacheInv, TypeOK
  <2>3. SumFunction(Held') + Held[k] = SumFunction(Held) + Held'[k]
    BY <2>1, <2>2, KeysAssumption, SumUpdate
  <2>4. SumFunction(Held) \in Nat /\ SumFunction(Held') \in Nat /\ Held[k] \in Nat
    BY <2>1, KeysAssumption, SumType
  <2>5. SumFunction(Held') <= SumFunction(Held)
    BY <2>2, <2>3, <2>4
  <2>6. currentSize \in Nat
    BY DEF CacheInv, TypeOK
  <2> QED BY <1>1, <2>4, <2>5, <2>6 DEF CacheInv, SizeCovers
<1> QED BY <1>2, <1>4, <1>5, <1>6 DEF CacheInv

LEMMA CacheInductive == Spec => []CacheInv
<1>1. CacheInv /\ [Next]_vars => CacheInv'
  <2> SUFFICES ASSUME CacheInv, [Next]_vars PROVE CacheInv'
    OBVIOUS
  <2>1. CASE UNCHANGED vars
    BY <2>1 DEF vars, CacheInv, TypeOK, Entries, Slots, SizeCovers, Held
  <2>2. ASSUME NEW k \in Keys, GetMiss(k) \/ GetHit(k) PROVE CacheInv'
    BY <2>2, GetKeeps
  <2>3. ASSUME NEW k \in Keys, Invalidate(k) PROVE CacheInv'
    BY <2>3, InvalidateKeeps
  <2>4. ASSUME NEW k \in Keys, NEW sz \in Sizes,
               PutNew(k, sz) \/ PutReplace(k, sz) \/ PutNoSlot(k, sz)
        PROVE  CacheInv'
    BY <2>4, PutNewKeeps, PutReplaceKeeps, PutNoSlotKeeps
  <2> QED BY <2>1, <2>2, <2>3, <2>4 DEF Next
<1> QED BY <1>1, CacheInitially, PTL DEF Spec

(* Every variable of the cache has its type; the byte count stays within   *)
(* its word.                                                               *)
THEOREM CacheTypeCorrect == Spec => []TypeOK
<1>1. CacheInv => TypeOK
  BY DEF CacheInv
<1> QED BY <1>1, CacheInductive, PTL

(* No call of Put or Get panics before the cache was full for the first    *)
(* time: until then heap.Fix, Push and indexing they through seeni stay    *)
(* inside the slice, whatever calls came before.                           *)
THEOREM PanicsOnlyOnceFull == Spec => []NoEarlyPanic
<1>1. CacheInv => NoEarlyPanic
  <2> SUFFICES ASSUME CacheInv, ~popped, NEW k \in Keys, byKey[k] # None
               PROVE  seeni[byKey[k]] < Len(they)
    BY DEF NoEarlyPanic, CacheInv, Slots
  <2>1. byKey[k] \in Stamps
    BY DEF CacheInv, TypeOK
  <2> QED BY <2>1 DEF CacheInv, Slots
<1> QED BY <1>1, CacheInductive, PTL

(* Until then the byte count, kept in unsigned arithmetic, is at least the *)
(* sizes of what is cached together and at most MaxSize.                   *)
THEOREM CountCovers == Spec => []SizeCovers
<1>1. CacheInv => SizeCovers
  BY DEF CacheInv
<1> QED BY <1>1, CacheInductive, PTL

-----------------------------------------------------------------------------
(* Draw servers.                                                           *)

(* A main that has not started has started nothing, and how a main ended   *)
(* is said when it ends; one whose start failed or timed out has no draw   *)
(* server but a reloader's child, and none comes later.                    *)
LifeInv ==
  /\ LifeTypeOK
  /\ \A m \in Mains : At(m, "new") => flask[m] = "none" /\ answered[m] = Nobody
  /\ \A m \in Mains : At(m, "exited") <=> ended[m] # "no"
  /\ NoStrayBackend
  /\ BackendStays

(* The end of a process, beside whatever its draw server does.             *)
LEMMA ExitInv ==
  ASSUME LifeInv, NEW m \in Mains, Exit(m, "fatal") \/ Exit(m, "signal") \/ Exit(m, "kill"),
         ~At(m, "exited"), UNCHANGED <<flask, drawPort, sigterm, handler, answered>>
  PROVE  LifeInv'
<1>1. PICK how \in {"fatal", "signal", "kill"} : Exit(m, how)
  OBVIOUS
<1>2. /\ main' = [main EXCEPT ![m].pc = "exited"]
      /\ ended' = [ended EXCEPT ![m] = how]
      /\ inflight' = [inflight EXCEPT ![m] = {}]
      /\ httpPort' = IF httpPort = m THEN Nobody ELSE httpPort
  BY <1>1 DEF Exit, Goto
<1>3. main' \in [Mains -> [pc : Pcs, polls : 0 .. MaxPolls - 1]]
  BY <1>2 DEF LifeInv, LifeTypeOK, Pcs
<1>4. \A n \in Mains : main'[n].pc = IF n = m THEN "exited" ELSE main[n].pc
  BY <1>2 DEF LifeInv, LifeTypeOK
<1>5. /\ ended' \in [Mains -> Ends]
      /\ \A n \in Mains : ended'[n] = IF n = m THEN how ELSE ended[n]
  BY <1>2 DEF LifeInv, LifeTypeOK, Ends
<1>6. LifeTypeOK'
  BY <1>2, <1>3, <1>4, <1>5, NobodyAssumption DEF LifeInv, LifeTypeOK, At
<1>7. BackendStays'
  <2>1. ended[m] = "no"
    BY DEF LifeInv
  <2> QED BY <1>4, <1>5, <2>1 DEF LifeInv, LifeTypeOK, BackendStays
<1>8. NoStrayBackend'
  BY <1>5 DEF LifeInv, NoStrayBackend
<1> QED BY <1>4, <1>5, <1>6, <1>7, <1>8 DEF LifeInv, At

LEMMA StartInv ==
  ASSUME LifeInv, NEW m \in Mains, Start(m) PROVE LifeInv'
<1> USE NobodyAssumption DEF LifeInv, LifeTypeOK, NoStrayBackend, BackendStays, At, Pcs, Ends, Flask
<1>1. flask[m] = "none" /\ answered[m] = Nobody /\ httpPort # m /\ ended[m] = "no"
  BY DEF Start
<1>2. CASE Goto(m, "ready") /\ UNCHANGED <<flask, ended, inflight, httpPort>>
  BY <1>1, <1>2 DEF Start, Goto
<1>3. CASE /\ Goto(m, "poll") /\ flask' = [flask EXCEPT ![m] = "starting"]
           /\ UNCHANGED <<ended, inflight, httpPort>>
  BY <1>1, <1>3 DEF Start, Goto
<1>4. CASE Exit(m, "nostart") /\ UNCHANGED flask
  BY <1>1, <1>4 DEF Start, Exit, Goto
<1> QED BY <1>2, <1>3, <1>4 DEF Start

LEMMA BindInv ==
  ASSUME LifeInv, NEW m \in Mains, Bind(m) PROVE LifeInv'
<1>1. /\ UNCHANGED <<main, httpPort, sigterm, handler, inflight, answered, ended>>
      /\ flask[m] = "starting" /\ flask \in [Mains -> Flask] /\ drawPort # m
  BY DEF Bind, LifeInv, LifeTypeOK
<1>2. ~At(m, "new") /\ ended[m] \notin {"nostart", "timeout"}
  BY <1>1 DEF LifeInv, LifeTypeOK, NoStrayBackend
<1>3. CASE drawPort = Nobody /\ drawPort' = m /\ flask' = [flask EXCEPT ![m] = "serving"]
  <2>1. /\ flask' \in [Mains -> Flask] /\ flask'[m] = "serving"
        /\ \A n \in Mains : n # m => flask'[n] = flask[n]
    BY <1>1, <1>3 DEF Flask
  <2>2. \A n \in Mains : flask[n] \notin {"serving", "orphan"}
    BY <1>3, NobodyAssumption DEF LifeInv, LifeTypeOK
  <2>3. LifeTypeOK'
    BY <1>1, <1>3, <2>1, <2>2 DEF LifeInv, LifeTypeOK, At
  <2>4. BackendStays' /\ NoStrayBackend'
    BY <1>1, <1>2, <1>3, <2>1, NobodyAssumption DEF LifeInv, BackendStays, NoStrayBackend
  <2> QED BY <1>1, <1>2, <2>1, <2>3, <2>4 DEF LifeInv, At
<1>4. CASE drawPort # Nobody /\ flask' = [flask EXCEPT ![m] = "gone"] /\ UNCHANGED drawPort
  <2>1. /\ flask' \in [Mains -> Flask] /\ flask'[m] = "gone"
        /\ \A n \in Mains : n # m => flask'[n] = flask[n]
    BY <1>1, <1>4 DEF Flask
  <2>2. LifeTypeOK'
    BY <1>1, <1>4, <2>1 DEF LifeInv, LifeTypeOK, At
  <2>3. BackendStays' /\ NoStrayBackend'
    BY <1>1, <1>2, <1>4, <2>1 DEF LifeInv, BackendStays, NoStrayBackend
  <2> QED BY <1>1, <1>2, <2>1, <2>2, <2>3 DEF LifeInv, At
<1> QED BY <1>3, <1>4 DEF Bind

(* After the last poll the draw server that this main has started is gone, *)
(* and the port with it only when it was its own.                          *)
LEMMA PollInv ==
  ASSUME LifeInv, NEW m \in Mains, PollAnswered(m) \/ PollFails(m) PROVE LifeInv'
<1> USE NobodyAssumption, PollsAssumption
    DEF LifeInv, LifeTypeOK, NoStrayBackend, BackendStays, At, Pcs, Ends, Flask
<1>1. CASE PollAnswered(m)
  BY <1>1 DEF PollAnswered, Goto
<1>2. CASE PollFails(m) /\ main[m].polls + 1 < MaxPolls
  <2>1. main' = [main EXCEPT ![m].polls = @ + 1] /\ main[m].polls + 1 \in 0 .. MaxPolls - 1
        /\ UNCHANGED <<flask, drawPort, httpPort, inflight, ended, sigterm, handler, answered>>
    BY <1>2 DEF PollFails
  <2>2. main' \in [Mains -> [pc : Pcs, polls : 0 .. MaxPolls - 1]]
        /\ \A n \in Mains : main'[n].pc = main[n].pc
    BY <2>1
  <2> QED BY <2>1, <2>2
<1>3. CASE PollFails(m) /\ ~(main[m].polls + 1 < MaxPolls)
  <2>1. /\ main' = [main EXCEPT ![m].pc = "exited"] /\ ended' = [ended EXCEPT ![m] = "timeout"]
        /\ inflight' = [inflight EXCEPT ![m] = {}]
        /\ httpPort' = IF httpPort = m THEN Nobody ELSE httpPort
        /\ Stop(m)
        /\ UNCHANGED <<sigterm, handler, answered>> /\ main[m].pc = "poll"
    BY <1>3 DEF PollFails, Exit, Goto
  <2>2. main' \in [Mains -> [pc : Pcs, polls : 0 .. MaxPolls - 1]]
        /\ \A n \in Mains : main'[n].pc = IF n = m THEN "exited" ELSE main[n].pc
    BY <2>1
  <2>3. \A n \in Mains : ended'[n] = IF n = m THEN "timeout" ELSE ended[n]
    BY <2>1
  <2>s. PICK left \in {"gone", "orphan"} :
          /\ flask' = [flask EXCEPT ![m] = left]
          /\ drawPort' = IF left = "gone" /\ drawPort = m THEN Nobody ELSE drawPort
          /\ left = "orphan" => m \in Reloading /\ flask[m] = "serving"
    BY <2>1 DEF Stop
  <2>4. flask' \in [Mains -> Flask] /\ \A n \in Mains : flask'[n] = IF n = m THEN left ELSE flask[n]
    BY <2>s
  <2>5. LifeTypeOK'
    BY <2>1, <2>2, <2>3, <2>4, <2>s
  <2>6. BackendStays'
    BY <2>1, <2>2, <2>3, <2>4, <2>s
  <2> QED BY <2>1, <2>2, <2>3, <2>4, <2>5, <2>6, <2>s
<1> QED BY <1>1, <1>2, <1>3

LEMMA ServeInv ==
  ASSUME LifeInv, NEW m \in Mains, SetUpFails(m) \/ Notify(m) \/ Listen(m) \/ ServeReturns(m)
  PROVE  LifeInv'
<1>1. CASE SetUpFails(m) \/ ServeReturns(m)
  BY <1>1, ExitInv DEF SetUpFails, ServeReturns, At
<1>2. CASE Notify(m)
  BY <1>2 DEF Notify, Goto, LifeInv, LifeTypeOK, NoStrayBackend, BackendStays, At, Pcs
<1>3. CASE Listen(m) /\ Goto(m, "serving") /\ httpPort' = m /\ UNCHANGED <<inflight, ended>>
  BY <1>3, NobodyAssumption DEF Listen, Goto, LifeInv, LifeTypeOK, NoStrayBackend, BackendStays, At, Pcs
<1>4. CASE Listen(m) /\ Exit(m, "fatal")
  BY <1>4, ExitInv DEF Listen, At
<1> QED BY <1>1, <1>2, <1>3, <1>4 DEF Listen

LEMMA SignalInv ==
  ASSUME LifeInv, NEW m \in Mains, Sigterm(m) \/ Kill(m) \/ TakeSignal(m) \/ Shutdown(m)
  PROVE  LifeInv'
<1>1. CASE Kill(m)
  BY <1>1, ExitInv DEF Kill, Alive, At
<1>2. CASE Sigterm(m) /\ main[m].pc \in {"poll", "ready"}
  BY <1>2, ExitInv DEF Sigterm, At
<1>3. CASE Sigterm(m) /\ main[m].pc \notin {"poll", "ready"}
  <2>1. sigterm' \in [Mains -> BOOLEAN]
    BY <1>3, Zenon DEF Sigterm, LifeInv, LifeTypeOK
  <2> QED BY <1>3, <2>1 DEF Sigterm, LifeInv, LifeTypeOK, NoStrayBackend, BackendStays, At
<1>4. CASE TakeSignal(m)
  <2>1. sigterm' \in [Mains -> BOOLEAN]
    BY <1>4, Zenon DEF TakeSignal, LifeInv, LifeTypeOK
  <2> QED BY <1>4, <2>1 DEF TakeSignal, LifeInv, LifeTypeOK, NoStrayBackend, BackendStays, At
<1>5. CASE Shutdown(m)
  BY <1>5, NobodyAssumption DEF Shutdown, LifeInv, LifeTypeOK, NoStrayBackend, BackendStays, At
<1> QED BY <1>1, <1>2, <1>3, <1>4, <1>5

LEMMA RequestInv ==
  ASSUME LifeInv, NEW m \in Mains, NEW r \in Requests, Arrive(m, r) \/ Finish(m, r)
  PROVE  LifeInv'
BY DEF Arrive, Finish, LifeInv, LifeTypeOK, NoStrayBackend, BackendStays, At

LEMMA LifeInductive == LifeSpec => []LifeInv
<1>1. LifeInit => LifeInv
  BY NobodyAssumption, PollsAssumption
  DEF LifeInit, LifeInv, LifeTypeOK, NoStrayBackend, BackendStays, At, Pcs, Ends, Flask
<1>2. LifeInv /\ [LifeNext]_lifeVars => LifeInv'
  <2>1. LifeInv /\ UNCHANGED lifeVars => LifeInv'
    BY DEF lifeVars, LifeInv, LifeTypeOK, NoStrayBackend, BackendStays, At
  <2> QED BY <2>1, StartInv, BindInv, PollInv, ServeInv, SignalInv, RequestInv
          DEF LifeNext, Main, SigtermHandler
<1> QED BY <1>1, <1>2, PTL DEF LifeSpec

(* Types; the draw port is held by the one draw server that serves, and    *)
(* the listener belongs to a main that serves (drawsub.go:32-43).          *)
THEOREM LifeTypeCorrect == LifeSpec => []LifeTypeOK
  BY LifeInductive, PTL DEF LifeInv

(* However many mains start, poll and end, a start that fails or times out *)
(* leaves no draw server behind, but for a reloader's child that serves    *)
(* already (drawsub.go:54-57, 134-141, 311-319).                           *)
THEOREM NoneStrays == LifeSpec => []NoStrayBackend
  BY LifeInductive, PTL DEF LifeInv

(* However many mains start and stop beside it, a main keeps the draw      *)
(* server it started on, and loses another's only when the start of that   *)
(* other main timed out (drawsub.go:84-141).                               *)
THEOREM BackendKept == LifeSpec => []BackendStays
  BY LifeInductive, PTL DEF LifeInv

-----------------------------------------------------------------------------
(* A main that has a SIGTERM ends: not how soon, which is a question of    *)
(* scheduling, but that it needs few steps more and always has one.        *)
Called(m) == sigterm[m] \/ handler[m] # "wait"

(* How many steps main and its signal handler still take at most.          *)
StepsLeft(m) ==
  IF At(m, "exited") THEN 0
  ELSE (IF At(m, "notified") THEN 2 ELSE 1)
       + (CASE handler[m] = "wait" -> 2 [] handler[m] = "shutdown" -> 1 [] OTHER -> 0)

(* The handler takes the signal, or closes the server, or main returns.    *)
HasNext(m) ==
  \/ Alive(m) /\ handler[m] = "wait" /\ sigterm[m]
  \/ Alive(m) /\ handler[m] = "shutdown"
  \/ main[m].pc \in {"notified", "serving"} /\ handler[m] = "done"

CalledOnceNotified == \A m \in Mains : Called(m) => main[m].pc \in {"notified", "serving", "exited"}
CalledIsNotStuck == \A m \in Mains : Called(m) => At(m, "exited") \/ HasNext(m)

(* Whatever anyone does, no steps are added, and its own steps use them up.*)
CalledSteps ==
  \A m \in Mains : Called(m) =>
    /\ Called(m)' /\ StepsLeft(m)' <= StepsLeft(m)
    /\ Main(m) \/ SigtermHandler(m) => StepsLeft(m)' < StepsLeft(m)

EndInv == LifeInv /\ CalledOnceNotified

LEMMA ExitIs ==
  ASSUME LifeInv, NEW m \in Mains, NEW how, Exit(m, how)
  PROVE  \A n \in Mains : main'[n].pc = IF n = m THEN "exited" ELSE main[n].pc
BY DEF Exit, Goto, LifeInv, LifeTypeOK

LEMMA GotoIs ==
  ASSUME LifeInv, NEW m \in Mains, NEW pc, Goto(m, pc)
  PROVE  \A n \in Mains : main'[n].pc = IF n = m THEN pc ELSE main[n].pc
BY DEF Goto, LifeInv, LifeTypeOK

(* What a step may do to one main: it is left alone, or told of the        *)
(* signal, or nearer to its end, or not yet one that was told.             *)
Same(m) == main'[m].pc = main[m].pc /\ sigterm'[m] = sigterm[m] /\ handler'[m] = handler[m]
Signalled(m) ==
  /\ main'[m].pc = main[m].pc /\ main[m].pc \in {"notified", "serving", "exited"}
  /\ sigterm'[m] = TRUE /\ handler'[m] = handler[m]
Exits(m) ==
  /\ main[m].pc # "exited" /\ main'[m].pc = "exited"
  /\ sigterm'[m] = sigterm[m] /\ handler'[m] = handler[m]
Moves(m) ==
  /\ main[m].pc \in {"notified", "serving"}
  /\ \/ /\ main[m].pc = "notified" /\ main'[m].pc = "serving"
        /\ sigterm'[m] = sigterm[m] /\ handler'[m] = handler[m]
     \/ /\ main'[m].pc = main[m].pc
        /\ \/ handler[m] = "wait" /\ handler'[m] = "shutdown"
           \/ handler[m] = "shutdown" /\ handler'[m] = "done" /\ sigterm'[m] = sigterm[m]
StartsUp(m) ==
  /\ main[m].pc \in {"new", "poll", "ready"}
  /\ sigterm'[m] = sigterm[m] /\ handler'[m] = handler[m]
Advances(m) == Exits(m) \/ Moves(m)

LEMMA OwnStep ==
  ASSUME EndInv, NEW m \in Mains, Main(m) \/ SigtermHandler(m)
  PROVE  /\ Advances(m) \/ StartsUp(m)
         /\ \A n \in Mains \ {m} : Same(n)
<1> USE DEF EndInv
<1>1. LifeInv /\ LifeTypeOK
  BY DEF LifeInv
<1>2. CASE PollAnswered(m)
  BY <1>1, <1>2, GotoIs DEF PollAnswered, At, Same, StartsUp
<1>3. CASE PollFails(m)
  <2>1. CASE main' = [main EXCEPT ![m].polls = @ + 1]
    BY <1>1, <1>3, <2>1 DEF PollFails, At, Same, StartsUp, LifeTypeOK
  <2>2. CASE Exit(m, "timeout")
    BY <1>1, <1>3, <2>2, ExitIs DEF PollFails, At, Same, StartsUp
  <2> QED BY <1>3, <2>1, <2>2 DEF PollFails
<1>4. CASE SetUpFails(m)
  BY <1>1, <1>4, ExitIs DEF SetUpFails, At, Same, StartsUp
<1>5. CASE Notify(m)
  BY <1>1, <1>5, GotoIs DEF Notify, At, Same, StartsUp
<1>6. CASE Listen(m)
  BY <1>1, <1>6, GotoIs, ExitIs DEF Listen, At, Same, Advances, Moves, Exits
<1>7. CASE ServeReturns(m)
  BY <1>1, <1>7, ExitIs DEF ServeReturns, At, Same, Advances, Exits
<1>8. CASE TakeSignal(m)
  <2>1. Called(m)
    BY <1>8 DEF TakeSignal, Called
  <2> QED BY <1>1, <1>8, <2>1 DEF TakeSignal, Same, Advances, Moves, LifeTypeOK, CalledOnceNotified, Alive
<1>9. CASE Shutdown(m)
  <2>1. Called(m)
    BY <1>9 DEF Shutdown, Called
  <2> QED BY <1>1, <1>9, <2>1 DEF Shutdown, Same, Advances, Moves, LifeTypeOK, CalledOnceNotified, Alive
<1> QED BY <1>2, <1>3, <1>4, <1>5, <1>6, <1>7, <1>8, <1>9 DEF Main, SigtermHandler

LEMMA OthersStep ==
  ASSUME EndInv, NEW m \in Mains,
         \/ Start(m) \/ Bind(m) \/ Sigterm(m) \/ Kill(m)
         \/ \E r \in Requests : Arrive(m, r) \/ Finish(m, r)
  PROVE  /\ Same(m) \/ Signalled(m) \/ Exits(m) \/ StartsUp(m)
         /\ \A n \in Mains \ {m} : Same(n)
<1> USE DEF EndInv
<1>1. LifeInv /\ LifeTypeOK
  BY DEF LifeInv
<1>2. CASE Start(m)
  BY <1>1, <1>2, GotoIs, ExitIs DEF Start, At, Same, StartsUp
<1>3. CASE Bind(m) \/ \E r \in Requests : Arrive(m, r) \/ Finish(m, r)
  BY <1>3 DEF Bind, Arrive, Finish, Same
<1>4. CASE Kill(m)
  BY <1>1, <1>4, ExitIs DEF Kill, Alive, Same, Exits
<1>5. CASE Sigterm(m) /\ main[m].pc \in {"poll", "ready"}
  BY <1>1, <1>5, ExitIs DEF Sigterm, Alive, Same, Exits
<1>6. CASE Sigterm(m) /\ main[m].pc \notin {"poll", "ready"}
  <2>1. main[m].pc \in {"notified", "serving"}
    BY <1>1, <1>6 DEF Sigterm, Alive, LifeTypeOK, Pcs
  <2> QED BY <1>1, <1>6, <2>1, Zenon DEF Sigterm, Same, Signalled, LifeTypeOK
<1> QED BY <1>2, <1>3, <1>4, <1>5, <1>6

LEMMA NearerTheEnd ==
  ASSUME EndInv, NEW m \in Mains
  PROVE  /\ StepsLeft(m) \in 0 .. 4
         /\ Same(m) => Called(m)' = Called(m) /\ StepsLeft(m)' = StepsLeft(m)
         /\ Signalled(m) => Called(m)' /\ StepsLeft(m)' = StepsLeft(m)
         /\ StartsUp(m) => ~Called(m) /\ ~Called(m)'
         /\ Exits(m) => Called(m)' = Called(m) /\ StepsLeft(m)' < StepsLeft(m)
         /\ Called(m) /\ Moves(m) => Called(m)' /\ StepsLeft(m)' < StepsLeft(m)
<1>1. handler[m] \in {"wait", "shutdown", "done"} /\ main[m].pc \in Pcs /\ sigterm[m] \in BOOLEAN
  BY DEF EndInv, LifeInv, LifeTypeOK
<1>2. Called(m) => main[m].pc \in {"notified", "serving", "exited"}
  BY DEF EndInv, CalledOnceNotified
<1> QED BY <1>1, <1>2 DEF StepsLeft, Called, At, Same, Signalled, StartsUp, Exits, Moves

LEMMA CalledStep ==
  ASSUME EndInv, NEW m \in Mains,
         \/ Start(m) \/ Main(m) \/ SigtermHandler(m) \/ Bind(m) \/ Sigterm(m) \/ Kill(m)
         \/ \E r \in Requests : Arrive(m, r) \/ Finish(m, r)
  PROVE  CalledOnceNotified' /\ CalledSteps
<1>1. /\ Same(m) \/ Signalled(m) \/ Advances(m) \/ StartsUp(m)
      /\ Main(m) \/ SigtermHandler(m) => Advances(m) \/ StartsUp(m)
      /\ \A n \in Mains \ {m} : Same(n)
  BY OwnStep, OthersStep DEF Advances
<1>2. ASSUME NEW n \in Mains, Called(n)' PROVE main'[n].pc \in {"notified", "serving", "exited"}
  <2>1. Called(n) => main[n].pc \in {"notified", "serving", "exited"}
    BY DEF EndInv, CalledOnceNotified
  <2>2. CASE Same(n)
    BY <1>2, <2>1, <2>2, NearerTheEnd DEF Same
  <2>3. CASE Signalled(n) \/ Advances(n)
    BY <2>3 DEF Signalled, Advances, Exits, Moves
  <2>4. CASE StartsUp(n)
    BY <1>2, <2>4, NearerTheEnd
  <2> QED BY <1>1, <2>2, <2>3, <2>4
<1>3. ASSUME NEW n \in Mains, Called(n)
      PROVE  /\ Called(n)' /\ StepsLeft(n)' <= StepsLeft(n)
             /\ Main(n) \/ SigtermHandler(n) => StepsLeft(n)' < StepsLeft(n)
  <2>1. StepsLeft(n) \in 0 .. 4
    BY NearerTheEnd
  <2>2. CASE Advances(n)
    <3>1. Called(n)' /\ StepsLeft(n)' < StepsLeft(n)
      BY <1>3, <2>2, NearerTheEnd DEF Advances
    <3>2. StepsLeft(n)' \in Int
      BY DEF StepsLeft
    <3> QED BY <2>1, <3>1, <3>2
  <2>3. Main(n) \/ SigtermHandler(n) => Advances(n)
    BY <1>3, OwnStep, NearerTheEnd
  <2>4. CASE Same(n) \/ Signalled(n)
    BY <1>3, <2>1, <2>2, <2>3, <2>4, NearerTheEnd
  <2> QED BY <1>1, <1>3, <2>2, <2>4, NearerTheEnd
<1> QED BY <1>2, <1>3 DEF CalledOnceNotified, CalledSteps

LEMMA CalledIsSafe == EndInv => CalledIsNotStuck
<1> SUFFICES ASSUME EndInv, NEW m \in Mains, Called(m), ~At(m, "exited")
             PROVE  HasNext(m)
  BY DEF CalledIsNotStuck
<1>1. main[m].pc \in {"notified", "serving"} /\ handler[m] \in {"wait", "shutdown", "done"}
  BY DEF EndInv, LifeInv, LifeTypeOK, CalledOnceNotified, At
<1> QED BY <1>1 DEF Called, HasNext, Alive

(* SIGTERM only waits for a main that has asked for it, and from then on   *)
(* that main needs at most four steps to its end, of its own or of its     *)
(* signal handler.  One of them is possible at any time, whatever requests *)
(* it is serving, and no other step of anyone adds to them                 *)
(* (main.go:576-582, 751).                                                 *)
THEOREM SigtermLeadsOut ==
  LifeSpec => /\ [](CalledOnceNotified /\ CalledIsNotStuck /\ \A m \in Mains : StepsLeft(m) \in 0 .. 4)
              /\ [][CalledSteps]_lifeVars
<1> DEFINE Good4 == CalledOnceNotified /\ CalledIsNotStuck /\ \A m \in Mains : StepsLeft(m) \in 0 .. 4
<1>1. LifeInit => CalledOnceNotified
  BY DEF LifeInit, CalledOnceNotified, Called
<1>2. LifeInv /\ CalledOnceNotified /\ [LifeNext]_lifeVars => CalledOnceNotified' /\ [CalledSteps]_lifeVars
  <2>1. CalledOnceNotified /\ UNCHANGED lifeVars => CalledOnceNotified'
    BY DEF lifeVars, CalledOnceNotified, Called
  <2> QED BY <2>1, CalledStep DEF LifeNext, EndInv
<1>3. LifeInv /\ CalledOnceNotified => Good4
  BY CalledIsSafe, NearerTheEnd DEF EndInv
<1> QED BY <1>1, <1>2, <1>3, LifeInductive, PTL DEF LifeSpec

-----------------------------------------------------------------------------
(* Pages of a PDF: numbers in Base, and the size field.                    *)

(* Products of natural numbers.                                            *)
LEMMA Products ==
  \A a, b, c \in Nat : /\ a * b \in Nat /\ (b > 0 => a <= a * b) /\ (b <= c => a * b <= a * c)
                       /\ (a * b) * c = a * (b * c) /\ a * b = b * a
<1> SUFFICES ASSUME NEW a \in Nat, NEW b \in Nat, NEW c \in Nat
             PROVE  /\ a * b \in Nat /\ (b > 0 => a <= a * b) /\ (b <= c => a * b <= a * c)
                    /\ (a * b) * c = a * (b * c) /\ a * b = b * a
  OBVIOUS
<1>1. a * b \in Nat
  OBVIOUS
<1>2. b > 0 => a <= a * b
  OBVIOUS
<1>3. b <= c => a * b <= a * c
  OBVIOUS
<1>4. (a * b) * c = a * (b * c)
  OBVIOUS
<1> QED BY <1>1, <1>2, <1>3, <1>4

LEMMA PowerIs ==
  /\ Power \in [Nat -> Nat \ {0}] /\ Power[0] = 1
  /\ \A k \in Nat : Power[k + 1] = Base * Power[k]
<1> DEFINE S == Nat \ {0}
           g == [x \in S |-> Base * x]
<1>1. g \in [S -> S] /\ \A x \in S : g[x] = Base * x
  <2>1. ASSUME NEW x \in S PROVE Base * x \in S
    <3>1. Base \in Nat /\ x \in Nat /\ x > 0 /\ Base > 0
      BY SizesAssumption
    <3> QED BY <3>1, Products
  <2> QED BY <2>1
<1> HIDE DEF g
<1>2. Power = [k \in Nat |-> IF k = 0 THEN 1 ELSE Base * Power[k - 1]]
  <2>1. PICK f \in [Nat -> S] : f = [k \in Nat |-> IF k = 0 THEN 1 ELSE g[f[k - 1]]]
    <3>1. 1 \in S
      OBVIOUS
    <3> HIDE DEF S
    <3>2. Iterated(S, 1, g)
      BY <1>1, <3>1, Iteration
    <3> QED BY <3>2 DEF Iterated
  <2>2. ASSUME NEW k \in Nat, k # 0 PROVE g[f[k - 1]] = Base * f[k - 1]
    BY <1>1, <2>2
  <2>3. f = [k \in Nat |-> IF k = 0 THEN 1 ELSE Base * f[k - 1]]
    BY <2>1, <2>2
  <2> QED BY <2>3 DEF Power
<1>3. Power[0] = 1
  BY <1>2
<1>4. ASSUME NEW k \in Nat PROVE Power[k + 1] = Base * Power[k]
  <2>1. k + 1 \in Nat /\ k + 1 # 0 /\ (k + 1) - 1 = k
    OBVIOUS
  <2> QED BY <1>2, <2>1
<1> DEFINE N == {k \in Nat : Power[k] \in S}
<1>5. 0 \in N /\ \A k \in Nat : k \in N => k + 1 \in N
  <2>1. ASSUME NEW k \in Nat, k \in N PROVE Power[k + 1] \in S
    <3>1. Power[k] \in S
      BY <2>1
    <3>2. g[Power[k]] \in S /\ g[Power[k]] = Base * Power[k]
      BY <1>1, <3>1
    <3> QED BY <1>4, <3>2
  <2> QED BY <1>3, <2>1
<1> HIDE DEF N
<1>6. Nat \subseteq N
  BY <1>5, Successors
<1>7. Power = [k \in Nat |-> Power[k]]
  BY <1>2
<1> QED BY <1>3, <1>4, <1>6, <1>7 DEF N

LEMMA PowerGrows ==
  ASSUME NEW j \in Nat, NEW k \in Nat, j <= k
  PROVE  Power[j] <= Power[k]
<1> DEFINE N == {d \in Nat : Power[j] <= Power[j + d]}
<1>1. 0 \in N /\ \A d \in Nat : d \in N => d + 1 \in N
  <2>1. Power[j] <= Power[j + 0]
    BY PowerIs
  <2>2. ASSUME NEW d \in Nat, Power[j] <= Power[j + d] PROVE Power[j] <= Power[j + (d + 1)]
    <3>1. j + d \in Nat /\ j + (d + 1) = (j + d) + 1
      OBVIOUS
    <3>2. Power[j + (d + 1)] = Base * Power[j + d] /\ Power[j + d] \in Nat /\ Power[j] \in Nat
      BY <3>1, PowerIs
    <3>3. Power[j + d] <= Base * Power[j + d] /\ Base * Power[j + d] \in Nat
      BY <3>2, Products, SizesAssumption
    <3> QED BY <2>2, <3>2, <3>3
  <2> QED BY <2>1, <2>2
<1> HIDE DEF N
<1>2. k - j \in N
  BY <1>1, Successors
<1>3. j + (k - j) = k
  OBVIOUS
<1> QED BY <1>2, <1>3 DEF N

LEMMA DivBounds ==
  ASSUME NEW n \in Nat, NEW d \in Nat \ {0}
  PROVE  n \div d \in Nat /\ (n \div d) * d <= n /\ n < (n \div d) * d + d
<1>1. n \div d \in Nat
  OBVIOUS
<1>2. n = d * (n \div d) + (n % d) /\ n % d \in 0 .. d - 1
  OBVIOUS
<1> QED BY <1>1, <1>2

LEMMA DivIs ==
  ASSUME NEW n \in Nat, NEW d \in Nat \ {0}, NEW q \in Nat, q * d <= n, n < q * d + d
  PROVE  n \div d = q
<1> DEFINE e == n \div d
<1>1. e \in Nat /\ e * d <= n /\ n < e * d + d
  BY DivBounds
<1> HIDE DEF e
<1>2. CASE e < q
  <2>1. e + 1 <= q
    BY <1>1, <1>2
  <2>2. (e + 1) * d <= q * d
    BY <1>1, <2>1
  <2> QED BY <1>1, <2>2
<1>3. CASE q < e
  <2>1. q + 1 <= e
    BY <1>1, <1>3
  <2>2. (q + 1) * d <= e * d
    BY <1>1, <2>1
  <2> QED BY <1>1, <2>2
<1> QED BY <1>1, <1>2, <1>3 DEF e

LEMMA DivDiv ==
  ASSUME NEW n \in Nat, NEW p \in Nat \ {0}, NEW b \in Nat \ {0}
  PROVE  n \div (b * p) = (n \div p) \div b
<1> DEFINE u == n \div p
           q == u \div b
<1>1. u \in Nat /\ u * p <= n /\ n < u * p + p
  BY DivBounds
<1> HIDE DEF u
<1>2. q \in Nat /\ q * b <= u /\ u < q * b + b
  BY <1>1, DivBounds
<1> HIDE DEF q
<1>3. b * p \in Nat \ {0}
  OBVIOUS
<1>4. (q * b) * p <= u * p
  BY <1>1, <1>2
<1>5. (u + 1) * p <= (q * b + b) * p
  BY <1>1, <1>2
<1>6. q * (b * p) <= n
  BY <1>1, <1>2, <1>4
<1>7. n < q * (b * p) + b * p
  BY <1>1, <1>2, <1>5
<1>8. n \div (b * p) = q
  <2> DEFINE d == b * p
  <2>1. d \in Nat \ {0} /\ q * d <= n /\ n < q * d + d
    BY <1>3, <1>6, <1>7
  <2> HIDE DEF d
  <2>2. n \div d = q
    BY <1>2, <2>1, DivIs
  <2> QED BY <2>2 DEF d
<1> QED BY <1>8 DEF q, u

(* v are the values of the beginnings of the field f.                      *)
Values(v, f) ==
  /\ v \in [0 .. Len(f) -> Nat] /\ v[0] = 0
  /\ \A k \in 0 .. Len(f) - 1 : v[k + 1] = v[k] * Base + f[k + 1]

Valued(f) == \E v : Values(v, f) /\ Big(f) = v[Len(f)]

LEMMA BigIs ==
  ASSUME NEW f \in Seq(0 .. Base - 1)
  PROVE  Valued(f)
<1> USE SizesAssumption
<1> DEFINE n == Len(f)
           g == [p \in Nat \X Nat |-> IF p[1] < n THEN p[2] * Base + f[p[1] + 1] ELSE 0]
           v == CHOOSE u : u = [k \in 0 .. Len(f) |-> IF k = 0 THEN 0 ELSE u[k - 1] * Base + f[k]]
<1>1. n \in Nat /\ \A k \in 1 .. n : f[k] \in Nat
  OBVIOUS
<1>2. ASSUME NEW k \in 1 .. n, NEW x \in Nat PROVE x * Base + f[k] \in Nat
  <2>1. x * Base \in Nat /\ f[k] \in Nat
    BY <1>1, Products
  <2> QED BY <2>1
<1>3. g \in [Nat \X Nat -> Nat] /\ \A i \in 0 .. n - 1, x \in Nat : g[<<i, x>>] = x * Base + f[i + 1]
  <2>1. ASSUME NEW p \in Nat \X Nat
        PROVE  (IF p[1] < n THEN p[2] * Base + f[p[1] + 1] ELSE 0) \in Nat
    <3>1. p[1] \in Nat /\ p[2] \in Nat
      OBVIOUS
    <3>2. p[1] < n => p[1] + 1 \in 1 .. n
      BY <1>1, <3>1
    <3> QED BY <1>2, <3>1, <3>2
  <2>2. g \in [Nat \X Nat -> Nat]
    BY <2>1
  <2>3. ASSUME NEW i \in 0 .. n - 1, NEW x \in Nat PROVE g[<<i, x>>] = x * Base + f[i + 1]
    <3>1. i \in Nat /\ i < n /\ <<i, x>> \in Nat \X Nat
      BY <1>1
    <3>2. g[<<i, x>>] = IF i < n THEN x * Base + f[i + 1] ELSE 0
      BY <3>1
    <3> QED BY <3>1, <3>2
  <2> QED BY <2>2, <2>3
<1> HIDE DEF g
<1>4. PICK u \in [Nat -> Nat] : u[0] = 0 /\ \A i \in Nat : u[i + 1] = g[<<i, u[i]>>]
  <2>1. Recursive(Nat, 0, g)
    BY <1>3, Recursion
  <2> QED BY <2>1 DEF Recursive
<1> DEFINE w == [k \in 0 .. n |-> u[k]]
<1>5. w \in [0 .. n -> Nat] /\ w[0] = 0
  BY <1>1, <1>4
<1>6. ASSUME NEW k \in 1 .. n PROVE w[k] = w[k - 1] * Base + f[k]
  <2>1. k - 1 \in 0 .. n - 1 /\ (k - 1) + 1 = k /\ k - 1 \in Nat /\ k - 1 \in 0 .. n /\ k \in 0 .. n
    BY <1>1
  <2>2. u[(k - 1) + 1] = g[<<k - 1, u[k - 1]>>] /\ u[k - 1] \in Nat
    BY <1>4, <2>1
  <2> QED BY <1>3, <2>1, <2>2
<1>7. w = [k \in 0 .. n |-> IF k = 0 THEN 0 ELSE w[k - 1] * Base + f[k]]
  <2> HIDE DEF w
  <2>1. \A k \in 0 .. n : k = 0 \/ k \in 1 .. n
    BY <1>1
  <2>2. \A k \in 0 .. n : w[k] = IF k = 0 THEN 0 ELSE w[k - 1] * Base + f[k]
    BY <1>5, <1>6, <2>1
  <2>3. w = [k \in 0 .. n |-> w[k]]
    BY <1>5
  <2> QED BY <2>2, <2>3
<1> HIDE DEF w
<1>8. v = [k \in 0 .. n |-> IF k = 0 THEN 0 ELSE v[k - 1] * Base + f[k]]
  BY <1>7
<1> HIDE DEF v
<1>9. v[0] = 0 /\ \A k \in 0 .. n - 1 : v[k + 1] = v[k] * Base + f[k + 1]
  <2>1. 0 \in 0 .. n /\ \A k \in 0 .. n - 1 : k + 1 \in 0 .. n /\ k + 1 # 0 /\ (k + 1) - 1 = k
    BY <1>1
  <2> QED BY <1>8, <2>1
<1> DEFINE N == {k \in Nat : k <= n => v[k] \in Nat}
<1>10. 0 \in N /\ \A k \in Nat : k \in N => k + 1 \in N
  <2>1. ASSUME NEW k \in Nat, k \in N PROVE k + 1 \in N
    <3> SUFFICES ASSUME k + 1 <= n PROVE v[k + 1] \in Nat
      OBVIOUS
    <3>1. k \in 0 .. n - 1 /\ k + 1 \in 1 .. n /\ v[k] \in Nat
      BY <1>1, <2>1
    <3> QED BY <1>2, <1>9, <3>1
  <2> QED BY <1>9, <2>1
<1> HIDE DEF N
<1>11. \A k \in 0 .. n : v[k] \in Nat
  <2>1. Nat \subseteq N
    BY <1>10, Successors
  <2> QED BY <1>1, <2>1 DEF N
<1>12. v \in [0 .. n -> Nat]
  <2>1. v = [k \in 0 .. n |-> v[k]]
    BY <1>8
  <2> QED BY <1>11, <2>1
<1>13. Values(v, f)
  BY <1>9, <1>12 DEF Values
<1> QED BY <1>13 DEF Valued, Big, v

-----------------------------------------------------------------------------
Digits(n) == [k \in 1 .. Width |-> (n \div Power[Width - k]) % Base]

LEMMA DigitStep ==
  ASSUME NEW n \in Nat, NEW k \in Nat
  PROVE  /\ n \div Power[k] \in Nat /\ (n \div Power[k]) % Base \in 0 .. Base - 1
         /\ (n \div Power[k + 1]) * Base + ((n \div Power[k]) % Base) = n \div Power[k]
<1> DEFINE u == n \div Power[k]
<1>1. Power[k] \in Nat \ {0} /\ Power[k + 1] = Base * Power[k]
  BY PowerIs
<1>2. u \in Nat
  BY <1>1, DivBounds
<1>3. n \div Power[k + 1] = u \div Base
  BY <1>1, DivDiv, SizesAssumption
<1> HIDE DEF u
<1>4. u = Base * (u \div Base) + (u % Base) /\ u % Base \in 0 .. Base - 1 /\ u \div Base \in Nat
  <2>1. Base \in Nat \ {0}
    BY SizesAssumption
  <2>2. u = Base * (u \div Base) + (u % Base) /\ u % Base \in 0 .. Base - 1
    BY <1>2, <2>1
  <2>3. u \div Base \in Nat
    BY <1>2, <2>1, DivBounds
  <2> QED BY <2>2, <2>3
<1>5. (u \div Base) * Base = Base * (u \div Base)
  BY <1>4, SizesAssumption
<1> QED BY <1>2, <1>3, <1>4, <1>5 DEF u

LEMMA DigitsType ==
  ASSUME NEW n \in Nat
  PROVE  /\ Digits(n) \in Seq(0 .. Base - 1) /\ Len(Digits(n)) = Width
         /\ \A k \in 1 .. Width : Digits(n)[k] = (n \div Power[Width - k]) % Base
<1>1. ASSUME NEW k \in 1 .. Width PROVE (n \div Power[Width - k]) % Base \in 0 .. Base - 1
  <2>1. Width - k \in Nat
    BY SizesAssumption
  <2> QED BY <2>1, DigitStep
<1>2. Width \in Nat
  BY SizesAssumption
<1> QED BY <1>1, <1>2 DEF Digits

LEMMA BigOfDigits ==
  ASSUME NEW n \in Nat, n < Power[Width]
  PROVE  Big(Digits(n)) = n
<1> DEFINE f == Digits(n)
<1>1. Width \in Nat /\ f \in Seq(0 .. Base - 1) /\ Len(f) = Width
      /\ \A k \in 1 .. Width : f[k] = (n \div Power[Width - k]) % Base
  BY DigitsType, SizesAssumption
<1> HIDE DEF f
<1>2. PICK v : Values(v, f) /\ Big(f) = v[Width]
  BY <1>1, BigIs DEF Valued
<1> DEFINE N == {k \in Nat : k <= Width => v[k] = n \div Power[Width - k]}
<1>3. 0 \in N
  <2>1. Power[Width] \in Nat \ {0}
    BY <1>1, PowerIs
  <2>2. n \div Power[Width] = 0
    BY <2>1, DivIs
  <2>3. Width - 0 = Width /\ v[0] = 0
    BY <1>1, <1>2 DEF Values
  <2> QED BY <2>2, <2>3
<1>4. ASSUME NEW k \in Nat, k \in N PROVE k + 1 \in N
  <2> SUFFICES ASSUME k + 1 <= Width PROVE v[k + 1] = n \div Power[Width - (k + 1)]
    OBVIOUS
  <2> DEFINE j == Width - (k + 1)
  <2>1. j \in Nat /\ j + 1 = Width - k /\ k \in 0 .. Width - 1 /\ k + 1 \in 1 .. Width /\ k <= Width
    BY <1>1
  <2>2. v[k] = n \div Power[j + 1]
    BY <1>4, <2>1
  <2>3. v[k + 1] = v[k] * Base + f[k + 1] /\ f[k + 1] = (n \div Power[j]) % Base
    BY <1>1, <1>2, <2>1 DEF Values
  <2> HIDE DEF j
  <2>4. (n \div Power[j + 1]) * Base + ((n \div Power[j]) % Base) = n \div Power[j]
    BY <2>1, DigitStep
  <2>5. v[k + 1] = (n \div Power[j + 1]) * Base + ((n \div Power[j]) % Base)
    BY <2>2, <2>3, Zenon
  <2>6. v[k + 1] = n \div Power[j]
    BY <2>4, <2>5
  <2> QED BY <2>6 DEF j
<1> HIDE DEF N
<1>5. Width \in N
  BY <1>1, <1>3, <1>4, Successors
<1>6. v[Width] = n \div Power[0]
  <2>1. Width - Width = 0
    BY <1>1
  <2> QED BY <1>1, <1>5, <2>1 DEF N
<1>7. n \div 1 = n
  OBVIOUS
<1> QED BY <1>2, <1>6, <1>7, PowerIs DEF f

(* Read the wrong way round, a small number is not smaller.                *)
LEMMA LittleOfDigits ==
  ASSUME NEW n \in Nat, n < Power[Width \div 2]
  PROVE  Big(Reverse(Digits(n))) \in Nat /\ Big(Reverse(Digits(n))) >= n
<1> DEFINE f == Digits(n)
           r == Reverse(f)
           h == Width \div 2
           rest == Width - h
<1>1. Width \in Nat /\ h \in Nat /\ rest \in Nat /\ h <= rest /\ h + rest = Width
  BY SizesAssumption
<1>2. f \in Seq(0 .. Base - 1) /\ Len(f) = Width
      /\ \A k \in 1 .. Width : f[k] = (n \div Power[Width - k]) % Base
  BY DigitsType
<1> HIDE DEF f
<1>3. r = [i \in 1 .. Width |-> f[(Width - i) + 1]]
  BY <1>2 DEF Reverse
<1>4. \A i \in 1 .. Width : (Width - i) + 1 \in 1 .. Width /\ Width - ((Width - i) + 1) = i - 1
  BY <1>1
<1>5. r \in Seq(0 .. Base - 1) /\ Len(r) = Width
      /\ \A i \in 1 .. Width : r[i] = (n \div Power[i - 1]) % Base
  <2>3. \A j \in 1 .. Width : f[j] \in 0 .. Base - 1
    BY <1>2, ElementOfSeq
  <2>1. \A i \in 1 .. Width : f[(Width - i) + 1] \in 0 .. Base - 1
    BY <1>4, <2>3
  <2>2. r \in Seq(0 .. Base - 1) /\ Len(r) = Width
    BY <1>1, <1>3, <2>1
  <2> QED BY <1>2, <1>3, <1>4, <2>2
<1> HIDE DEF r
<1>6. PICK v : Values(v, r) /\ Big(r) = v[Width]
  BY <1>5, BigIs DEF Valued
<1>7. /\ v[0] = 0 /\ \A k \in 0 .. Width : v[k] \in Nat
      /\ \A k \in 0 .. Width - 1 : v[k + 1] = v[k] * Base + r[k + 1] /\ r[k + 1] \in Nat
                                   /\ r[k + 1] = (n \div Power[k]) % Base
  <2>1. \A k \in 0 .. Width - 1 : k + 1 \in 1 .. Width /\ (k + 1) - 1 = k
    BY <1>1
  <2>2. \A k \in 1 .. Width : r[k] \in Nat
    <3>1. \A k \in 1 .. Width : r[k] \in 0 .. Base - 1
      BY <1>5, ElementOfSeq
    <3> QED BY <3>1
  <2> QED BY <1>5, <1>6, <2>1, <2>2 DEF Values
<1> HIDE DEF h, rest
<1>8. Base \in Nat /\ Base > 0
  BY SizesAssumption
(* As long as only zeroes have been read, they are zeroes at the end of n. *)
<1> DEFINE Z == {k \in Nat : k <= Width => v[k] > 0 \/ (n \div Power[k]) * Power[k] = n}
<1>9. 0 \in Z
  <2>1. Power[0] = 1 /\ n \div 1 = n
    BY PowerIs
  <2> QED BY <2>1
<1>10. ASSUME NEW k \in Nat, k \in Z PROVE k + 1 \in Z
  <2> SUFFICES ASSUME k + 1 <= Width
               PROVE  v[k + 1] > 0 \/ (n \div Power[k + 1]) * Power[k + 1] = n
    OBVIOUS
  <2> DEFINE u == n \div Power[k]
             w == n \div Power[k + 1]
             p == Power[k]
  <2>1. k \in 0 .. Width - 1 /\ k \in 0 .. Width /\ k + 1 \in 0 .. Width /\ k <= Width
    BY <1>1
  <2>2. v[k + 1] = v[k] * Base + r[k + 1] /\ v[k] \in Nat /\ r[k + 1] \in Nat /\ r[k + 1] = u % Base
        /\ v[k + 1] \in Nat
    BY <1>7, <2>1
  <2>3. u \in Nat /\ w * Base + (u % Base) = u
    BY DigitStep
  <2>4. w \in Nat /\ p \in Nat /\ Power[k + 1] = Base * p
    <3>1. k + 1 \in Nat
      OBVIOUS
    <3>2. w \in Nat
      BY <3>1, DigitStep
    <3> QED BY <3>2, PowerIs
  <2>5. v[k] > 0 \/ u * p = n
    BY <1>10, <2>1
  <2>6. v[k] * Base \in Nat /\ (v[k] > 0 => v[k] * Base > 0)
    <3>1. v[k] * Base \in Nat /\ v[k] <= v[k] * Base
      BY <1>8, <2>2, Products
    <3> QED BY <2>2, <3>1
  <2> HIDE DEF u, w, p
  <2>7. CASE v[k] > 0 \/ r[k + 1] > 0
    BY <2>2, <2>6, <2>7
  <2>8. CASE ~(v[k] > 0) /\ r[k + 1] = 0
    <3>1. w * Base = u
      <4>1. w * Base \in Nat
        BY <1>8, <2>4, Products
      <4> QED BY <2>2, <2>3, <2>8, <4>1
    <3>2. (w * Base) * p = w * (Base * p)
      BY <1>8, <2>4, Products
    <3>3. w * Power[k + 1] = n
      BY <2>4, <2>5, <2>8, <3>1, <3>2
    <3> QED BY <3>3 DEF w
  <2> QED BY <2>2, <2>7, <2>8
<1> HIDE DEF Z
<1>11. v[h] > 0 \/ n = 0
  <2>1. h \in Z
    BY <1>1, <1>9, <1>10, Successors
  <2>2. v[h] > 0 \/ (n \div Power[h]) * Power[h] = n
    BY <1>1, <2>1 DEF Z
  <2>3. Power[h] \in Nat \ {0} /\ n < Power[h]
    BY <1>1, PowerIs DEF h
  <2>4. n \div Power[h] = 0
    BY <2>3, DivIs
  <2> QED BY <2>2, <2>3, <2>4
(* What has been read is multiplied at every further digit.                *)
<1> DEFINE G == {i \in Nat : i <= rest => v[h] * Power[i] <= v[h + i]}
<1>12. 0 \in G
  <2>1. v[h] \in Nat /\ h + 0 = h /\ Power[0] = 1
    BY <1>1, <1>7, PowerIs
  <2> QED BY <2>1
<1>13. ASSUME NEW i \in Nat, i \in G PROVE i + 1 \in G
  <2> SUFFICES ASSUME i + 1 <= rest PROVE v[h] * Power[i + 1] <= v[h + (i + 1)]
    OBVIOUS
  <2> DEFINE k == h + i
             a == v[h]
             b == v[k]
             p == Power[i]
  <2>1. k \in 0 .. Width - 1 /\ k \in 0 .. Width /\ h \in 0 .. Width /\ h + (i + 1) = k + 1 /\ i <= rest
    BY <1>1
  <2>2. v[k + 1] = b * Base + r[k + 1] /\ b \in Nat /\ a \in Nat /\ r[k + 1] \in Nat
    BY <1>7, <2>1
  <2>3. p \in Nat /\ Power[i + 1] = Base * p
    BY PowerIs
  <2>4. a * p <= b
    BY <1>13, <2>1
  <2> HIDE DEF k, a, b, p
  <2>5. a * p \in Nat /\ (a * p) * Base = a * (p * Base) /\ p * Base = Base * p
    BY <1>8, <2>2, <2>3, Products
  <2>6. Base * (a * p) <= Base * b /\ Base * (a * p) = (a * p) * Base /\ Base * b = b * Base
        /\ b * Base \in Nat
    BY <1>8, <2>2, <2>4, <2>5, Products
  <2>7. a * Power[i + 1] <= v[k + 1]
    <3>1. a * Power[i + 1] = (a * p) * Base
      BY <2>3, <2>5
    <3>2. (a * p) * Base <= b * Base
      BY <2>6
    <3> DEFINE x == (a * p) * Base
               y == b * Base
    <3>3. x \in Nat /\ y \in Nat
      BY <1>8, <2>5, <2>6, Products
    <3> HIDE DEF x, y
    <3>4. x <= y + r[k + 1]
      BY <2>2, <3>2, <3>3 DEF x, y
    <3> QED BY <2>2, <3>1, <3>4 DEF x, y
  <2> QED BY <2>1, <2>7 DEF a, k
<1> HIDE DEF G
<1>14. v[h] * Power[rest] <= v[Width]
  <2>1. rest \in G
    BY <1>1, <1>12, <1>13, Successors
  <2> QED BY <1>1, <2>1 DEF G
<1>15. v[Width] \in Nat /\ v[h] \in Nat
  BY <1>1, <1>7
<1>16. v[Width] >= n
  <2>1. CASE n = 0
    BY <1>15, <2>1
  <2>2. CASE v[h] > 0
    <3>1. Power[h] <= Power[rest] /\ Power[rest] \in Nat /\ Power[h] \in Nat /\ n < Power[h]
      BY <1>1, PowerGrows, PowerIs DEF h
    <3>2. Power[rest] <= Power[rest] * v[h] /\ Power[rest] * v[h] = v[h] * Power[rest]
          /\ Power[rest] * v[h] \in Nat
      BY <1>15, <2>2, <3>1, Products
    <3> QED BY <1>14, <1>15, <3>1, <3>2
  <2> QED BY <1>11, <2>1, <2>2
<1> QED BY <1>6, <1>15, <1>16 DEF r, f

LEMMA MinOfTwo ==
  ASSUME NEW a \in Nat, NEW b \in Nat, a <= b
  PROVE  Min({a, b}) = a /\ Min({b, a}) = a
BY DEF Min

(* The reader finds the size of a page, whatever the order of the bytes.   *)
LEMMA SizeIsRead ==
  ASSUME NEW n \in Nat, n < Power[Width \div 2], bigEndian \in BOOLEAN
  PROVE  Field(n) \in Seq(0 .. Base - 1) /\ Len(Field(n)) = Width /\ PngLen(Field(n)) = n
<1> DEFINE d == Digits(n)
           r == Reverse(d)
<1>1. d \in Seq(0 .. Base - 1) /\ Len(d) = Width /\ Width \in Nat
  BY DigitsType, SizesAssumption
<1>2. Big(d) = n
  <2>1. Power[Width \div 2] <= Power[Width] /\ Power[Width \div 2] \in Nat /\ Power[Width] \in Nat
    <3>1. Width \div 2 \in Nat /\ Width \div 2 <= Width
      BY <1>1
    <3> QED BY <1>1, <3>1, PowerGrows, PowerIs
  <2>2. n < Power[Width]
    BY <2>1
  <2> QED BY <2>2, BigOfDigits
<1>3. Big(r) \in Nat /\ n <= Big(r)
  BY LittleOfDigits
<1>4. Field(n) = IF bigEndian THEN d ELSE r
  BY DEF Field, Digits
<1> HIDE DEF d
<1>5. r = [i \in 1 .. Width |-> d[(Width - i) + 1]] /\ r \in Seq(0 .. Base - 1) /\ Len(r) = Width
  <2>1. r = [i \in 1 .. Width |-> d[(Width - i) + 1]]
    BY <1>1 DEF Reverse
  <2>3. \A j \in 1 .. Width : d[j] \in 0 .. Base - 1
    BY <1>1, ElementOfSeq
  <2>2. \A i \in 1 .. Width : (Width - i) + 1 \in 1 .. Width /\ d[(Width - i) + 1] \in 0 .. Base - 1
    BY <1>1, <2>3
  <2> QED BY <1>1, <2>1, <2>2
<1>6. Reverse(r) = d
  <2> HIDE DEF r
  <2>1. Reverse(r) = [i \in 1 .. Width |-> r[(Width - i) + 1]]
    <3>1. Len(r) = Width
      BY <1>5
    <3> QED BY <3>1 DEF Reverse
  <2>2. ASSUME NEW i \in 1 .. Width PROVE r[(Width - i) + 1] = d[i]
    <3>1. (Width - i) + 1 \in 1 .. Width /\ (Width - ((Width - i) + 1)) + 1 = i
      BY <1>1
    <3> QED BY <1>5, <3>1
  <2>3. d = [i \in 1 .. Width |-> d[i]]
    BY <1>1
  <2> QED BY <2>1, <2>2, <2>3
<1> HIDE DEF r
<1>7. CASE bigEndian
  <2>1. Field(n) = d /\ Little(d) = Big(r)
    BY <1>4, <1>7 DEF Little, r
  <2>2. PngLen(d) = n
    BY <1>2, <1>3, <2>1, MinOfTwo DEF PngLen
  <2> QED BY <1>1, <2>1, <2>2
<1>8. CASE ~bigEndian
  <2>1. Field(n) = r /\ Little(r) = Big(d)
    BY <1>4, <1>6, <1>8 DEF Little
  <2>2. PngLen(r) = n
    BY <1>2, <1>3, <2>1, MinOfTwo DEF PngLen
  <2> QED BY <1>5, <2>1, <2>2
<1> QED BY <1>7, <1>8

(* What pdftoppm writes, page after page.                                  *)
Writes ==
  /\ \A k \in 0 .. Len(doc) : Written[k] \in Seq(Byte)
  /\ Written[0] = <<>>
  /\ \A k \in 0 .. Len(doc) - 1 :
       Written[k + 1] = (Written[k] \o Field(doc[k + 1])) \o Page(k + 1, doc[k + 1])

DocTyped == doc \in Documents /\ bigEndian \in BOOLEAN

LEMMA PartsType ==
  ASSUME DocTyped, NEW k \in 1 .. Len(doc)
  PROVE  /\ doc[k] \in Nat /\ Field(doc[k]) \in Seq(Byte) /\ Len(Field(doc[k])) = Width
         /\ PngLen(Field(doc[k])) = doc[k]
         /\ Page(k, doc[k]) \in Seq(Byte) /\ Len(Page(k, doc[k])) = doc[k]
         /\ \A i \in 1 .. doc[k] : Page(k, doc[k])[i] = <<k, i>>
<1>1. Power[Width \div 2] \in Nat
  <2>1. Width \div 2 \in Nat
    BY SizesAssumption
  <2> QED BY <2>1, PowerIs
<1>2. doc \in Seq(0 .. Power[Width \div 2] - 1)
  BY DocumentsAssumption DEF DocTyped
<1>3. doc[k] \in 0 .. Power[Width \div 2] - 1
  BY <1>2, ElementOfSeq
<1>4. doc[k] \in Nat /\ doc[k] < Power[Width \div 2]
  BY <1>1, <1>3
<1>5. Field(doc[k]) \in Seq(0 .. Base - 1) /\ Len(Field(doc[k])) = Width /\ PngLen(Field(doc[k])) = doc[k]
  BY <1>4, SizeIsRead DEF DocTyped
<1>6. Field(doc[k]) \in Seq(Byte)
  <2>1. 0 .. Base - 1 \subseteq Byte
    BY DEF Byte
  <2> DEFINE f == Field(doc[k])
             S == 0 .. Base - 1
  <2>2. \A i \in 1 .. Len(f) : f[i] \in S
    BY <1>5, ElementOfSeq
  <2>3. f \in Seq(S)
    BY <1>5
  <2> HIDE DEF f, S
  <2>4. f = [i \in 1 .. Len(f) |-> f[i]] /\ Len(f) \in Nat
    BY <2>3
  <2>5. \A i \in 1 .. Len(f) : f[i] \in Byte
    BY <2>1, <2>2 DEF S
  <2>6. f \in Seq(Byte)
    BY <2>4, <2>5
  <2> QED BY <2>6 DEF f
<1>7. /\ Page(k, doc[k]) \in Seq(Byte) /\ Len(Page(k, doc[k])) = doc[k]
      /\ \A i \in 1 .. doc[k] : Page(k, doc[k])[i] = <<k, i>>
  <2> DEFINE n == doc[k]
  <2>1. n \in Nat
    BY <1>4
  <2> HIDE DEF n
  <2>2. \A i \in 1 .. n : <<k, i>> \in Byte
    <3>1. k \in Nat
      BY <1>2
    <3> QED BY <2>1, <3>1 DEF Byte
  <2>3. Page(k, n) = [i \in 1 .. n |-> <<k, i>>]
    BY DEF Page
  <2>4. Page(k, n) \in Seq(Byte) /\ Len(Page(k, n)) = n /\ \A i \in 1 .. n : Page(k, n)[i] = <<k, i>>
    BY <2>1, <2>2, <2>3
  <2> QED BY <2>4 DEF n
<1> QED BY <1>4, <1>5, <1>6, <1>7

LEMMA WrittenIs ==
  ASSUME DocTyped PROVE Writes
<1> DEFINE n == Len(doc)
           S == Seq(Byte)
           next(k, s) == (s \o Field(doc[k + 1])) \o Page(k + 1, doc[k + 1])
           g == [p \in Nat \X S |-> IF p[1] < n THEN next(p[1], p[2]) ELSE <<>>]
           w == CHOOSE u : u = [k \in 0 .. Len(doc) |->
                  IF k = 0 THEN <<>> ELSE (u[k - 1] \o Field(doc[k])) \o Page(k, doc[k])]
<1>1. n \in Nat
  <2>1. doc \in Seq(0 .. Power[Width \div 2] - 1)
    BY DocumentsAssumption DEF DocTyped
  <2> QED BY <2>1
<1>2. ASSUME NEW k \in 0 .. n - 1, NEW s \in S PROVE next(k, s) \in S
  <2>1. k + 1 \in 1 .. Len(doc)
    BY <1>1
  <2>2. Field(doc[k + 1]) \in S /\ Page(k + 1, doc[k + 1]) \in S
    BY <2>1, PartsType
  <2> QED BY <2>2
<1>3. <<>> \in S
  OBVIOUS
<1> HIDE DEF S, n, next
<1>4. g \in [Nat \X S -> S] /\ \A i \in 0 .. n - 1, s \in S : g[<<i, s>>] = next(i, s)
  <2>1. ASSUME NEW p \in Nat \X S
        PROVE  (IF p[1] < n THEN next(p[1], p[2]) ELSE <<>>) \in S
    <3>1. p[1] \in Nat /\ p[2] \in S
      OBVIOUS
    <3>2. p[1] < n => p[1] \in 0 .. n - 1
      BY <1>1, <3>1
    <3> QED BY <1>2, <1>3, <3>1, <3>2
  <2>2. \A i \in 0 .. n - 1 : i \in Nat /\ i < n
    BY <1>1
  <2> QED BY <2>1, <2>2
<1> HIDE DEF g
<1>5. PICK u \in [Nat -> S] : u[0] = <<>> /\ \A i \in Nat : u[i + 1] = g[<<i, u[i]>>]
  <2>1. Recursive(S, <<>>, g)
    BY <1>3, <1>4, Recursion
  <2> QED BY <2>1 DEF Recursive
<1> DEFINE x == [k \in 0 .. n |-> u[k]]
<1>6. x \in [0 .. n -> S] /\ x[0] = <<>>
  BY <1>1, <1>5
<1>7. ASSUME NEW k \in 1 .. n PROVE x[k] = next(k - 1, x[k - 1])
  <2>1. k - 1 \in 0 .. n - 1 /\ (k - 1) + 1 = k /\ k - 1 \in Nat /\ k - 1 \in 0 .. n /\ k \in 0 .. n
    BY <1>1
  <2>2. u[(k - 1) + 1] = g[<<k - 1, u[k - 1]>>] /\ u[k - 1] \in S
    BY <1>5, <2>1
  <2> QED BY <1>4, <2>1, <2>2
<1>8. x = [k \in 0 .. n |-> IF k = 0 THEN <<>> ELSE next(k - 1, x[k - 1])]
  <2> HIDE DEF x
  <2>1. \A k \in 0 .. n : k = 0 \/ k \in 1 .. n
    BY <1>1
  <2>2. \A k \in 0 .. n : x[k] = IF k = 0 THEN <<>> ELSE next(k - 1, x[k - 1])
    BY <1>6, <1>7, <2>1
  <2>3. x = [k \in 0 .. n |-> x[k]]
    BY <1>6
  <2> QED BY <2>2, <2>3
<1> HIDE DEF x
<1>9. \A k \in 1 .. n : \A s : next(k - 1, s) = (s \o Field(doc[k])) \o Page(k, doc[k])
  <2>1. \A k \in 1 .. n : (k - 1) + 1 = k
    BY <1>1
  <2> QED BY <2>1 DEF next
<1>10. w = [k \in 0 .. n |-> IF k = 0 THEN <<>> ELSE (w[k - 1] \o Field(doc[k])) \o Page(k, doc[k])]
  <2>1. \A k \in 0 .. n : k = 0 \/ k \in 1 .. n
    BY <1>1
  <2>2. x = [k \in 0 .. n |-> IF k = 0 THEN <<>> ELSE (x[k - 1] \o Field(doc[k])) \o Page(k, doc[k])]
    BY <1>8, <1>9, <2>1
  <2> QED BY <2>2 DEF n
<1> HIDE DEF w
<1>11. w[0] = <<>> /\ \A k \in 0 .. n - 1 : w[k + 1] = next(k, w[k])
  <2>1. 0 \in 0 .. n /\ \A k \in 0 .. n - 1 : k + 1 \in 0 .. n /\ k + 1 # 0 /\ (k + 1) - 1 = k
    BY <1>1
  <2> QED BY <1>10, <2>1 DEF next
<1> DEFINE N == {k \in Nat : k <= n => w[k] \in S}
<1>12. 0 \in N /\ \A k \in Nat : k \in N => k + 1 \in N
  <2>1. ASSUME NEW k \in Nat, k \in N PROVE k + 1 \in N
    <3> SUFFICES ASSUME k + 1 <= n PROVE w[k + 1] \in S
      OBVIOUS
    <3>1. k \in 0 .. n - 1 /\ w[k] \in S
      BY <1>1, <2>1
    <3> QED BY <1>2, <1>11, <3>1
  <2> QED BY <1>3, <1>11, <2>1
<1> HIDE DEF N
<1>13. \A k \in 0 .. n : w[k] \in S
  <2>1. Nat \subseteq N
    BY <1>12, Successors
  <2> QED BY <1>1, <2>1 DEF N
<1>14. Written = w
  BY DEF Written, w
<1> QED BY <1>11, <1>13, <1>14 DEF Writes, S, n, next

LEMMA ConcatAt ==
  ASSUME NEW S, NEW s \in Seq(S), NEW t \in Seq(S)
  PROVE  /\ s \o t \in Seq(S) /\ Len(s) \in Nat /\ Len(t) \in Nat /\ Len(s \o t) = Len(s) + Len(t)
         /\ \A i \in 1 .. Len(s) : (s \o t)[i] = s[i]
         /\ \A i \in 1 .. Len(t) : (s \o t)[Len(s) + i] = t[i]
<1>1. Len(s) \in Nat /\ Len(t) \in Nat
  OBVIOUS
<1>2. s \o t \in Seq(S) /\ Len(s \o t) = Len(s) + Len(t)
      /\ \A i \in 1 .. Len(s) + Len(t) : (s \o t)[i] = IF i <= Len(s) THEN s[i] ELSE t[i - Len(s)]
  BY ConcatProperties
<1>3. \A i \in 1 .. Len(s) : i \in 1 .. Len(s) + Len(t) /\ i <= Len(s)
  BY <1>1
<1>4. \A i \in 1 .. Len(t) : /\ Len(s) + i \in 1 .. Len(s) + Len(t) /\ ~(Len(s) + i <= Len(s))
                             /\ (Len(s) + i) - Len(s) = i
  BY <1>1
<1> QED BY <1>1, <1>2, <1>3, <1>4

(* What is written stays at its place.                                     *)
LEMMA WrittenGrows ==
  ASSUME DocTyped, NEW k \in 0 .. Len(doc) - 1
  PROVE  LET L == Len(Written[k])
             n == doc[k + 1]
         IN  /\ L \in Nat /\ n \in Nat /\ Len(Written[k + 1]) = L + Width + n
             /\ \A i \in 1 .. L : Written[k + 1][i] = Written[k][i]
             /\ \A i \in 1 .. Width : Written[k + 1][L + i] = Field(n)[i]
             /\ \A i \in 1 .. n : Written[k + 1][L + Width + i] = <<k + 1, i>>
<1> DEFINE L == Len(Written[k])
           n == doc[k + 1]
           s == Written[k]
           f == Field(n)
           p == Page(k + 1, n)
<1>1. Len(doc) \in Nat
  <2>1. doc \in Seq(0 .. Power[Width \div 2] - 1)
    BY DocumentsAssumption DEF DocTyped
  <2> QED BY <2>1
<1>2. k \in 0 .. Len(doc) /\ k + 1 \in 1 .. Len(doc) /\ Width \in Nat
  BY <1>1, SizesAssumption
<1>3. s \in Seq(Byte) /\ Written[k + 1] = (s \o f) \o p
  BY <1>2, WrittenIs DEF Writes
<1>4. /\ n \in Nat /\ f \in Seq(Byte) /\ Len(f) = Width /\ p \in Seq(Byte) /\ Len(p) = n
      /\ \A i \in 1 .. n : p[i] = <<k + 1, i>>
  BY <1>2, PartsType
<1>5. L = Len(s) /\ L \in Nat
  BY <1>3
<1> HIDE DEF s, f, p, n, L
<1>6. /\ s \o f \in Seq(Byte) /\ Len(s \o f) = L + Width
      /\ \A i \in 1 .. L : (s \o f)[i] = s[i]
      /\ \A i \in 1 .. Width : (s \o f)[L + i] = f[i]
  <2>1. /\ s \o f \in Seq(Byte) /\ Len(s \o f) = Len(s) + Len(f)
        /\ \A i \in 1 .. Len(s) : (s \o f)[i] = s[i]
        /\ \A i \in 1 .. Len(f) : (s \o f)[Len(s) + i] = f[i]
    <3>1. s \in Seq(Byte) /\ f \in Seq(Byte)
      BY <1>3, <1>4
    <3> QED BY <3>1, ConcatAt
  <2> QED BY <1>4, <1>5, <2>1
<1> DEFINE t == s \o f
<1> HIDE DEF t
<1>7. t \in Seq(Byte) /\ Len(t) = L + Width
  BY <1>6 DEF t
<1>8. /\ Len(t \o p) = L + Width + n
      /\ \A i \in 1 .. L + Width : (t \o p)[i] = t[i]
      /\ \A i \in 1 .. n : (t \o p)[L + Width + i] = p[i]
  <2>1. /\ Len(t \o p) = Len(t) + Len(p)
        /\ \A i \in 1 .. Len(t) : (t \o p)[i] = t[i]
        /\ \A i \in 1 .. Len(p) : (t \o p)[Len(t) + i] = p[i]
    <3>1. t \in Seq(Byte) /\ p \in Seq(Byte)
      BY <1>4, <1>7
    <3> QED BY <3>1, ConcatAt
  <2> QED BY <1>4, <1>7, <2>1
<1>9. \A i \in 1 .. L : i \in 1 .. L + Width
  BY <1>2, <1>5
<1>10. \A i \in 1 .. Width : L + i \in 1 .. L + Width
  BY <1>2, <1>5
<1>11. Written[k + 1] = t \o p
  BY <1>3 DEF t
<1> QED BY <1>4, <1>5, <1>6, <1>8, <1>9, <1>10, <1>11 DEF s, f, p, n, L, t

(* Where the bytes of the next page after the first k are in the stream.   *)
StreamHas(k) ==
  LET L == Len(Written[k])
      n == doc[k + 1]
  IN  /\ L \in Nat /\ n \in Nat /\ PngLen(Field(n)) = n
      /\ Field(n) \in Seq(Byte) /\ Len(Field(n)) = Width
      /\ Len(Written[k + 1]) = L + Width + n /\ L + Width + n <= Len(Stream)
      /\ \A i \in 1 .. Width : Stream[L + i] = Field(n)[i]
      /\ \A i \in 1 .. n : Stream[L + Width + i] = <<k + 1, i>>

LEMMA StreamIs ==
  ASSUME DocTyped
  PROVE  /\ Len(doc) \in Nat /\ Stream \in Seq(Byte) /\ Len(Stream) \in Nat
         /\ Len(Written[0]) = 0
         /\ \A k \in 0 .. Len(doc) - 1 : StreamHas(k)
<1>1. Len(doc) \in Nat
  <2>1. doc \in Seq(0 .. Power[Width \div 2] - 1)
    BY DocumentsAssumption DEF DocTyped
  <2> QED BY <2>1
<1>2. Writes
  BY WrittenIs
<1>3. Stream \in Seq(Byte) /\ Len(Stream) \in Nat
  <2>1. Len(doc) \in 0 .. Len(doc)
    BY <1>1
  <2>2. Stream \in Seq(Byte)
    BY <1>2, <2>1 DEF Writes, Stream
  <2> QED BY <2>2
<1>4. Len(Written[0]) = 0
  BY <1>2 DEF Writes
<1>5. ASSUME NEW k \in 0 .. Len(doc) - 1 PROVE StreamHas(k)
  <2> DEFINE L == Len(Written[k])
             n == doc[k + 1]
             s == Written[k + 1]
  <2>1. /\ L \in Nat /\ n \in Nat /\ Len(s) = L + Width + n
        /\ \A i \in 1 .. Width : s[L + i] = Field(n)[i]
        /\ \A i \in 1 .. n : s[L + Width + i] = <<k + 1, i>>
    BY WrittenGrows
  <2>2. PngLen(Field(n)) = n /\ Field(n) \in Seq(Byte) /\ Len(Field(n)) = Width
    <3>1. k + 1 \in 1 .. Len(doc)
      BY <1>1
    <3> QED BY <3>1, PartsType
  <2> DEFINE N == {d \in Nat : k + 1 + d <= Len(doc) =>
                     /\ Len(Written[k + 1 + d]) \in Nat /\ Len(s) <= Len(Written[k + 1 + d])
                     /\ \A i \in 1 .. Len(s) : Written[k + 1 + d][i] = s[i]}
  <2>w. Width \in Nat /\ k \in Nat /\ Len(s) \in Nat
    BY <1>1, <2>1, SizesAssumption
  <2>3. 0 \in N
    <3>1. k + 1 + 0 = k + 1
      BY <2>w
    <3> HIDE DEF s
    <3>2. Len(s) \in Nat /\ Len(s) <= Len(s) /\ \A i \in 1 .. Len(s) : s[i] = s[i]
      BY <2>w
    <3> QED BY <3>1, <3>2 DEF s
  <2>4. ASSUME NEW d \in Nat, d \in N PROVE d + 1 \in N
    <3> DEFINE m == k + 1 + d
    <3> SUFFICES ASSUME k + 1 + (d + 1) <= Len(doc)
                 PROVE  /\ Len(Written[k + 1 + (d + 1)]) \in Nat
                        /\ Len(s) <= Len(Written[k + 1 + (d + 1)])
                        /\ \A i \in 1 .. Len(s) : Written[k + 1 + (d + 1)][i] = s[i]
      OBVIOUS
    <3>1. k + 1 + (d + 1) = m + 1 /\ m \in 0 .. Len(doc) - 1 /\ m <= Len(doc)
      BY <1>1
    <3>2. Len(s) <= Len(Written[m]) /\ \A i \in 1 .. Len(s) : Written[m][i] = s[i]
      BY <2>4, <3>1
    <3> HIDE DEF m, s
    <3>3. /\ Len(Written[m]) \in Nat /\ doc[m + 1] \in Nat
          /\ Len(Written[m + 1]) = Len(Written[m]) + Width + doc[m + 1]
          /\ \A i \in 1 .. Len(Written[m]) : Written[m + 1][i] = Written[m][i]
      BY <3>1, WrittenGrows
    <3>4. Len(Written[m + 1]) \in Nat /\ Len(s) <= Len(Written[m + 1])
      BY <2>w, <3>2, <3>3
    <3>5. \A i \in 1 .. Len(s) : i \in 1 .. Len(Written[m])
      BY <2>w, <3>2, <3>3
    <3> QED BY <3>1, <3>2, <3>3, <3>4, <3>5
  <2> HIDE DEF N
  <2>5. Len(doc) - (k + 1) \in N
    BY <1>1, <2>3, <2>4, Successors
  <2>6. Len(s) <= Len(Stream) /\ \A i \in 1 .. Len(s) : Stream[i] = s[i]
    <3>1. k + 1 + (Len(doc) - (k + 1)) = Len(doc)
      BY <1>1, <2>w
    <3> QED BY <1>1, <2>5, <3>1 DEF N, Stream
  <2> HIDE DEF s, L, n
  <2>7. \A i \in 1 .. Width : L + i \in 1 .. Len(s)
    BY <2>1, <2>w
  <2>8. \A i \in 1 .. n : L + Width + i \in 1 .. Len(s)
    BY <2>1, <2>w
  <2>9. /\ Len(s) = L + Width + n /\ L + Width + n <= Len(Stream)
        /\ \A i \in 1 .. Width : Stream[L + i] = Field(n)[i]
        /\ \A i \in 1 .. n : Stream[L + Width + i] = <<k + 1, i>>
    BY <2>1, <2>6, <2>7, <2>8
  <2> QED BY <2>1, <2>2, <2>9 DEF StreamHas, s, L, n
<1> QED BY <1>1, <1>3, <1>4, <1>5

(* The reader has the pages it has read in full, and of the next field or  *)
(* page what is in the stream up to where it is.                           *)
From == LET L == Len(Written[Len(reader.pages)])
        IN  IF reader.pc = "size" THEN L ELSE L + Width

Reading ==
  /\ Len(reader.pages) \in 0 .. Len(doc)
  /\ reader.pages = [i \in 1 .. Len(reader.pages) |-> Page(i, doc[i])]
  /\ reader.buf \in Seq(Byte) /\ Len(reader.buf) <= reader.need
  /\ got = From + Len(reader.buf)
  /\ \A i \in 1 .. Len(reader.buf) : reader.buf[i] = Stream[From + i]
  /\ reader.pc = "size" => reader.need = Width
  /\ reader.pc = "page" => Len(reader.pages) < Len(doc) /\ reader.need = doc[Len(reader.pages) + 1]

(* A result without an error is there only when pdftoppm is at its end,    *)
(* and is complete if that has gone well.                                  *)
Sound(r) ==
  ~r.err => /\ process # "running"
            /\ process = "ok" => r.pages = Pages(doc)

PdfInv ==
  /\ DocTyped
  /\ process \in {"running", "ok", "failed"} /\ (process = "ok" => sent = Len(Stream))
  /\ sent \in 0 .. Len(Stream) /\ got \in 0 .. sent
  /\ reader = [pc |-> reader.pc, buf |-> reader.buf, need |-> reader.need,
               pages |-> reader.pages, err |-> reader.err]
  /\ reader.pc \in {"size", "page"} => Reading
  /\ reader.pc = "send" => Sound(reader)
  /\ pchan = <<>> \/ \E r : pchan = <<r>> /\ Sound(r)
  /\ caller = [pc |-> caller.pc, pages |-> caller.pages, err |-> caller.err]
  /\ caller.pc = "select" => process = "ok"
  /\ CompleteOrError

LEMMA StreamStays ==
  ASSUME UNCHANGED <<doc, bigEndian>>
  PROVE  Written' = Written /\ Stream' = Stream /\ (DocTyped => DocTyped')
BY DEF Written, Stream, Field, DocTyped

LEMMA PdfInitially == PdfInit => PdfInv
<1> SUFFICES ASSUME PdfInit PROVE PdfInv
  OBVIOUS
<1>1. DocTyped
  BY DEF PdfInit, DocTyped
<1>2. Len(doc) \in Nat /\ Len(Stream) \in Nat /\ Len(Written[0]) = 0
  BY <1>1, StreamIs
<1>3. /\ reader = [pc |-> "size", buf |-> <<>>, need |-> Width, pages |-> <<>>, err |-> FALSE]
      /\ got = 0 /\ sent = 0 /\ pchan = <<>> /\ process = "running"
      /\ caller = [pc |-> "run", pages |-> <<>>, err |-> FALSE]
  BY DEF PdfInit, Read, Running
<1>4. Reading
  BY <1>2, <1>3, SizesAssumption DEF Reading, From
<1> QED BY <1>1, <1>2, <1>3, <1>4 DEF PdfInv, CompleteOrError

(* Steps that leave the reader and what it has read alone.                 *)
LEMMA ReadingStays ==
  ASSUME UNCHANGED <<doc, bigEndian, got, reader>>, Reading PROVE Reading'
BY StreamStays DEF Reading, From

LEMMA ResultStays ==
  ASSUME PdfInv, UNCHANGED <<doc, pchan>>, process # "running" => process' = process
  PROVE  pchan = <<>> \/ \E r : pchan = <<r>> /\ Sound(r)'
<1> SUFFICES ASSUME pchan # <<>> PROVE \E r : pchan = <<r>> /\ Sound(r)'
  OBVIOUS
<1>1. PICK r : pchan = <<r>> /\ Sound(r)
  BY DEF PdfInv
<1>2. Sound(r)'
  BY <1>1 DEF Sound
<1> QED BY <1>1, <1>2

LEMMA OutsideKeeps ==
  ASSUME PdfInv, Write \/ PdftoppmExit \/ Cancel PROVE PdfInv'
<1>1. /\ UNCHANGED <<doc, bigEndian, got, reader, pchan, caller>>
      /\ process # "running" => process' = process
      /\ process' \in {"running", "ok", "failed"}
  BY DEF Write, PdftoppmExit, Cancel, PdfInv
<1>2. Stream' = Stream /\ DocTyped' /\ Len(Stream) \in Nat
  BY <1>1, StreamStays, StreamIs DEF PdfInv
<1>3. sent' \in 0 .. Len(Stream) /\ got \in 0 .. sent' /\ (process' = "ok" => sent' = Len(Stream))
  <2>1. CASE Write
    BY <1>2, <2>1 DEF Write, PdfInv
  <2>2. CASE PdftoppmExit
    BY <2>2 DEF PdftoppmExit, PdfInv
  <2>3. CASE Cancel
    BY <2>3 DEF Cancel, PdfInv
  <2> QED BY <2>1, <2>2, <2>3
<1>4. reader.pc \in {"size", "page"} => Reading'
  BY <1>1, ReadingStays DEF PdfInv
<1>5. reader.pc = "send" => Sound(reader)'
  BY <1>1 DEF PdfInv, Sound
<1>6. pchan = <<>> \/ \E r : pchan = <<r>> /\ Sound(r)'
  BY <1>1, ResultStays
<1>7. CompleteOrError' /\ (caller.pc = "select" => process' = "ok")
  BY <1>1 DEF PdfInv, CompleteOrError
<1> QED BY <1>1, <1>2, <1>3, <1>4, <1>5, <1>6, <1>7 DEF PdfInv

LEMMA CallerKeeps ==
  ASSUME PdfInv, PdfToPng PROVE PdfInv'
<1>1. UNCHANGED <<doc, bigEndian, process, sent, got, reader>>
  BY DEF PdfToPng, Wait, Receive, Abandon
<1>2. Stream' = Stream /\ DocTyped'
  BY <1>1, StreamStays DEF PdfInv
<1>3. (reader.pc \in {"size", "page"} => Reading') /\ (reader.pc = "send" => Sound(reader)')
  BY <1>1, ReadingStays DEF PdfInv, Sound
<1>4. \A r : Sound(r) => Sound(r)'
  BY <1>1 DEF Sound
<1>5. CASE Wait
  BY <1>1, <1>2, <1>3, <1>4, <1>5 DEF Wait, PdfInv, CompleteOrError
<1>6. CASE Abandon
  BY <1>1, <1>2, <1>3, <1>4, <1>6 DEF Abandon, PdfInv, CompleteOrError
<1>7. CASE Receive
  <2>1. PICK r : pchan = <<r>> /\ Sound(r)
    BY <1>7 DEF Receive, PdfInv
  <2>2. pchan' = <<>> /\ caller' = [pc |-> "returned", pages |-> r.pages, err |-> r.err]
    BY <1>7, <2>1 DEF Receive
  <2>3. process = "ok"
    BY <1>7 DEF Receive, PdfInv
  <2>4. CompleteOrError'
    BY <1>1, <2>1, <2>2, <2>3 DEF CompleteOrError, Sound
  <2> QED BY <1>1, <1>2, <1>3, <2>2, <2>4 DEF PdfInv
<1> QED BY <1>5, <1>6, <1>7 DEF PdfToPng

LEMMA DeliverKeeps ==
  ASSUME PdfInv, Deliver PROVE PdfInv'
<1> DEFINE r == [pages |-> reader.pages, err |-> reader.err]
<1>1. UNCHANGED <<doc, bigEndian, process, sent, got, caller>> /\ reader.pc = "send"
      /\ reader' = [reader EXCEPT !.pc = "end"] /\ pchan' = Append(pchan, r) /\ Len(pchan) < 1
  BY DEF Deliver, Room
<1>2. Stream' = Stream /\ DocTyped'
  BY <1>1, StreamStays DEF PdfInv
<1>3. reader' = [pc |-> "end", buf |-> reader.buf, need |-> reader.need,
                 pages |-> reader.pages, err |-> reader.err]
  BY <1>1 DEF PdfInv
<1>4. pchan = <<>>
  <2>1. \A q : Len(<<q>>) = 1
    OBVIOUS
  <2> QED BY <1>1, <2>1 DEF PdfInv
<1>5. pchan' = <<r>> /\ Sound(r)'
  <2>1. Sound(reader)
    BY <1>1 DEF PdfInv
  <2>2. Sound(r)'
    BY <1>1, <1>3, <2>1 DEF Sound
  <2> QED BY <1>1, <1>4, <2>2
<1>6. CompleteOrError' /\ (caller'.pc = "select" => process' = "ok")
  BY <1>1 DEF PdfInv, CompleteOrError
<1> QED BY <1>1, <1>2, <1>3, <1>5, <1>6 DEF PdfInv

(* At the end of the stream of a pdftoppm that has gone well, a reader     *)
(* that wants a field has every page.                                      *)
LEMMA EndIsWhole ==
  ASSUME PdfInv, reader.pc = "size", Len(reader.buf) < reader.need, sent = got, process = "ok"
  PROVE  reader.pages = Pages(doc)
<1> DEFINE k == Len(reader.pages)
           L == Len(Written[k])
           b == Len(reader.buf)
           e == Len(Stream)
<1>1. DocTyped /\ Reading
  BY DEF PdfInv
<1>2. Len(doc) \in Nat /\ e \in Nat /\ \A j \in 0 .. Len(doc) - 1 : StreamHas(j)
  BY <1>1, StreamIs
<1>3. k \in 0 .. Len(doc) /\ b \in Nat /\ b < Width /\ e = L + b
  BY <1>1 DEF PdfInv, Reading, From
<1>4. CASE k < Len(doc)
  <2>1. StreamHas(k)
    BY <1>2, <1>3, <1>4
  <2>2. L \in Nat /\ doc[k + 1] \in Nat /\ L + Width + doc[k + 1] <= e
    BY <2>1 DEF StreamHas
  <2> HIDE DEF k, L, b, e
  <2> QED BY <1>2, <1>3, <2>2, SizesAssumption
<1>5. CASE k = Len(doc)
  <2>1. reader.pages = [i \in 1 .. Len(doc) |-> Page(i, doc[i])]
    BY <1>1, <1>5 DEF Reading
  <2>2. doc \in Seq(0 .. Power[Width \div 2] - 1)
    BY <1>1, DocumentsAssumption DEF DocTyped
  <2>3. DOMAIN doc = 1 .. Len(doc)
    BY <2>2
  <2> QED BY <2>1, <2>3 DEF Pages
<1> QED BY <1>2, <1>3, <1>4, <1>5

LEMMA EndKeeps ==
  ASSUME PdfInv, AtEnd \/ Closed PROVE PdfInv'
<1> DEFINE err == reader'.err
<1>1. UNCHANGED <<doc, bigEndian, process, sent, got, pchan, caller>>
  BY DEF AtEnd, Closed
<1>2. Stream' = Stream /\ DocTyped'
  BY <1>1, StreamStays DEF PdfInv
<1>3. \E e \in BOOLEAN :
        /\ reader' = [pc |-> "send", buf |-> reader.buf, need |-> reader.need,
                      pages |-> reader.pages, err |-> e]
        /\ ~e => process # "running" /\ (process = "ok" => reader.pages = Pages(doc))
  <2>1. \A e : Send(e) => reader' = [pc |-> "send", buf |-> reader.buf, need |-> reader.need,
                                     pages |-> reader.pages, err |-> e]
    BY DEF Send, PdfInv
  <2>2. CASE AtEnd
    <3>1. process # "running" /\ Send(reader.pc = "page") /\ (reader.pc = "page") \in BOOLEAN
      BY <2>2 DEF AtEnd
    <3>2. reader.pc # "page" => reader.pc = "size" /\ Len(reader.buf) < reader.need /\ sent = got
      BY <2>2 DEF AtEnd
    <3>3. reader.pc # "page" /\ process = "ok" => reader.pages = Pages(doc)
      BY <3>2, EndIsWhole
    <3> QED BY <2>1, <3>1, <3>3
  <2>3. CASE Closed
    BY <2>1, <2>3 DEF Closed
  <2> QED BY <2>2, <2>3
<1>4. Sound(reader)'
  BY <1>1, <1>3 DEF Sound, Pages, Page
<1>5. pchan = <<>> \/ \E r : pchan = <<r>> /\ Sound(r)'
  BY <1>1, ResultStays
<1>6. CompleteOrError' /\ (caller.pc = "select" => process' = "ok")
  BY <1>1 DEF PdfInv, CompleteOrError
<1>7. /\ reader'.pc = "send"
      /\ reader' = [pc |-> reader'.pc, buf |-> reader'.buf, need |-> reader'.need,
                    pages |-> reader'.pages, err |-> reader'.err]
  BY <1>3
<1> QED BY <1>1, <1>2, <1>4, <1>5, <1>6, <1>7 DEF PdfInv

(* The bytes a read takes are the next ones of the stream.                 *)
LEMMA TakeKeeps ==
  ASSUME PdfInv, Take PROVE PdfInv'
<1> DEFINE b == Len(reader.buf)
           e == Len(Stream)
           F == From
           need == reader.need
<1>1. UNCHANGED <<doc, bigEndian, process, sent, pchan, caller>> /\ reader.pc \in {"size", "page"}
  BY DEF Take
<1>2. Stream' = Stream /\ Written' = Written /\ DocTyped'
  BY <1>1, StreamStays DEF PdfInv
<1>3. DocTyped /\ Reading
  BY <1>1 DEF PdfInv
<1>4. /\ Len(doc) \in Nat /\ e \in Nat /\ Stream \in Seq(Byte)
      /\ \A j \in 0 .. Len(doc) - 1 : StreamHas(j)
  BY <1>3, StreamIs
<1>5. PICK n \in 1 .. Min({reader.need - Len(reader.buf), sent - got}) :
        /\ reader' = [reader EXCEPT !.buf = @ \o SubSeq(Stream, got + 1, got + n)]
        /\ got' = got + n
  BY DEF Take
<1>6. b \in Nat /\ b <= need /\ sent \in 0 .. e /\ got \in 0 .. sent /\ got = F + b
      /\ reader.buf \in Seq(Byte)
  BY <1>3 DEF PdfInv, Reading
<1>7. need \in Nat /\ F \in Int
  <2>1. reader.pc = "size" => need = Width
    BY <1>3 DEF Reading
  <2>2. reader.pc = "page" => need = doc[Len(reader.pages) + 1] /\ Len(reader.pages) \in 0 .. Len(doc) - 1
    BY <1>3, <1>4 DEF Reading
  <2>3. reader.pc = "page" => need \in Nat
    BY <1>4, <2>2 DEF StreamHas
  <2>4. need \in Nat
    BY <1>1, <2>1, <2>3, SizesAssumption
  <2>5. Len(Written[Len(reader.pages)]) \in Nat
    <3>1. Len(reader.pages) \in 0 .. Len(doc)
      BY <1>3 DEF Reading
    <3>2. Written[Len(reader.pages)] \in Seq(Byte)
      BY <1>3, <3>1, WrittenIs DEF Writes
    <3> QED BY <3>2
  <2>6. F \in Int
    BY <2>5, SizesAssumption DEF From
  <2> QED BY <2>4, <2>6
<1> DEFINE m == SubSeq(Stream, got + 1, got + n)
           buf == reader.buf \o m
<1> HIDE DEF F, need, b, e
<1>8. n \in Nat /\ n >= 1 /\ b + n <= need /\ got + n <= sent
  <2>1. need - b \in Int /\ sent - got \in Int
    BY <1>6, <1>7
  <2>2. \A x, y \in Int : Min({x, y}) \in Int /\ Min({x, y}) <= x /\ Min({x, y}) <= y
    BY DEF Min
  <2>3. DEFINE z == Min({need - b, sent - got})
  <2>4. z \in Int /\ z <= need - b /\ z <= sent - got /\ n \in 1 .. z
    BY <1>5, <2>1, <2>2 DEF need, b
  <2> HIDE DEF z
  <2> QED BY <1>6, <1>7, <2>4
<1>9. /\ m \in Seq(Byte) /\ Len(m) = n
      /\ \A i \in 1 .. n : m[i] = Stream[got + i]
  <2>1. got + 1 \in 1 .. e + 1 /\ got + n \in got .. e /\ got \in Nat
    BY <1>4, <1>6, <1>8
  <2>2. /\ m \in Seq(Byte)
        /\ Len(m) = IF got + 1 <= got + n THEN ((got + n) - (got + 1)) + 1 ELSE 0
        /\ \A i \in 1 .. ((got + n) - (got + 1)) + 1 : m[i] = Stream[((got + 1) + i) - 1]
    BY <1>4, <2>1, SubSeqProperties DEF e
  <2> HIDE DEF m
  <2>3. ((got + n) - (got + 1)) + 1 = n /\ got + 1 <= got + n
        /\ \A i \in 1 .. n : ((got + 1) + i) - 1 = got + i
    BY <1>8, <2>1
  <2> QED BY <2>2, <2>3
<1> HIDE DEF m
<1>10. /\ buf \in Seq(Byte) /\ Len(buf) = b + n
       /\ \A i \in 1 .. b : buf[i] = reader.buf[i]
       /\ \A i \in 1 .. n : buf[b + i] = m[i]
  <2> DEFINE s == reader.buf
  <2> HIDE DEF s
  <2>1. s \in Seq(Byte) /\ m \in Seq(Byte)
    BY <1>6, <1>9 DEF s
  <2>2. /\ s \o m \in Seq(Byte) /\ Len(s \o m) = Len(s) + Len(m)
        /\ \A i \in 1 .. Len(s) : (s \o m)[i] = s[i]
        /\ \A i \in 1 .. Len(m) : (s \o m)[Len(s) + i] = m[i]
    BY <2>1, ConcatAt
  <2> QED BY <1>9, <2>2 DEF b, s
<1>11. reader' = [pc |-> reader.pc, buf |-> buf, need |-> reader.need,
                  pages |-> reader.pages, err |-> reader.err]
  BY <1>5 DEF PdfInv, m
<1> HIDE DEF buf
<1>12. \A i \in 1 .. Len(buf) : buf[i] = Stream[F + i]
  <2> SUFFICES ASSUME NEW i \in 1 .. b + n PROVE buf[i] = Stream[F + i]
    BY <1>10
  <2>1. CASE i <= b
    <3>1. i \in 1 .. b
      BY <1>6, <1>8, <2>1
    <3>2. reader.buf[i] = Stream[F + i]
      BY <1>3, <3>1 DEF Reading, F, b
    <3> QED BY <1>10, <3>1, <3>2
  <2>2. CASE i > b
    <3>1. i - b \in 1 .. n /\ b + (i - b) = i /\ got + (i - b) = F + i
      BY <1>6, <1>7, <1>8, <2>2
    <3> QED BY <1>9, <1>10, <3>1
  <2> QED BY <1>6, <1>8, <2>1, <2>2
<1>13. From' = From
  BY <1>2, <1>11 DEF From
<1>14. Len(buf) <= need /\ got' = From + Len(buf) /\ got' \in 0 .. sent
  BY <1>5, <1>6, <1>7, <1>8, <1>10 DEF F
<1>15. Reading'
  <2>1. reader'.buf = buf /\ reader'.pc = reader.pc /\ reader'.need = need /\ reader'.pages = reader.pages
    BY <1>11 DEF need
  <2>2. \A i \in 1 .. Len(buf) : buf[i] = Stream[From + i]
    BY <1>12 DEF F
  <2> QED BY <1>1, <1>2, <1>3, <1>10, <1>13, <1>14, <2>1, <2>2 DEF Reading, need, Page
<1>16. pchan = <<>> \/ \E r : pchan = <<r>> /\ Sound(r)'
  BY <1>1, ResultStays
<1>17. CompleteOrError' /\ (caller.pc = "select" => process' = "ok")
  BY <1>1 DEF PdfInv, CompleteOrError
<1>18. /\ reader'.pc \in {"size", "page"}
       /\ reader' = [pc |-> reader'.pc, buf |-> reader'.buf, need |-> reader'.need,
                     pages |-> reader'.pages, err |-> reader'.err]
  BY <1>1, <1>11
<1>19. process' \in {"running", "ok", "failed"} /\ (process' = "ok" => sent' = Len(Stream'))
       /\ sent' \in 0 .. Len(Stream') /\ got' \in 0 .. sent'
  BY <1>1, <1>2, <1>14 DEF PdfInv
<1> QED BY <1>1, <1>2, <1>15, <1>16, <1>17, <1>18, <1>19 DEF PdfInv

(* A field that is full is the size of the next page.                      *)
LEMMA FieldRead ==
  ASSUME PdfInv, reader.pc = "size", Len(reader.buf) = Width
  PROVE  /\ Len(reader.pages) < Len(doc) /\ Len(reader.pages) \in 0 .. Len(doc) - 1
         /\ reader.buf = Field(doc[Len(reader.pages) + 1])
<1> DEFINE k == Len(reader.pages)
           L == Len(Written[k])
           e == Len(Stream)
<1>1. DocTyped /\ Reading
  BY DEF PdfInv
<1>2. Len(doc) \in Nat /\ e \in Nat /\ \A j \in 0 .. Len(doc) - 1 : StreamHas(j)
  BY <1>1, StreamIs
<1>3. k \in 0 .. Len(doc) /\ got = L + Width /\ sent \in 0 .. e /\ got \in 0 .. sent
  BY <1>1 DEF PdfInv, Reading, From
<1>4. k # Len(doc)
  <2> SUFFICES ASSUME k = Len(doc) PROVE FALSE
    OBVIOUS
  <2>1. L = e
    BY DEF Stream
  <2> HIDE DEF k, L, e
  <2> QED BY <1>2, <1>3, <2>1, SizesAssumption
<1>5. k < Len(doc) /\ k \in 0 .. Len(doc) - 1
  BY <1>2, <1>3, <1>4
<1> DEFINE f == Field(doc[k + 1])
<1>6. f \in Seq(Byte) /\ Len(f) = Width /\ \A i \in 1 .. Width : Stream[L + i] = f[i]
  BY <1>2, <1>5 DEF StreamHas
<1>7. reader.buf \in Seq(Byte) /\ \A i \in 1 .. Width : reader.buf[i] = Stream[L + i]
  BY <1>1 DEF Reading, From
<1> HIDE DEF f, L, k
<1>8. reader.buf = f
  <2> DEFINE s == reader.buf
  <2>1. s \in Seq(Byte) /\ Len(s) = Width /\ \A i \in 1 .. Width : s[i] = f[i]
    BY <1>6, <1>7
  <2> HIDE DEF s
  <2>2. s = f
    BY <1>6, <2>1, SeqEqual
  <2> QED BY <2>2 DEF s
<1> QED BY <1>5, <1>8 DEF f, k

(* A page that is full is the next page.                                   *)
LEMMA PageRead ==
  ASSUME PdfInv, reader.pc = "page", Len(reader.buf) = reader.need
  PROVE  LET k == Len(reader.pages)
         IN  /\ k \in 0 .. Len(doc) - 1 /\ reader.buf = Page(k + 1, doc[k + 1])
             /\ got = Len(Written[k + 1])
<1> DEFINE k == Len(reader.pages)
           L == Len(Written[k])
           n == doc[k + 1]
<1>1. DocTyped /\ Reading
  BY DEF PdfInv
<1>2. Len(doc) \in Nat /\ \A j \in 0 .. Len(doc) - 1 : StreamHas(j)
  BY <1>1, StreamIs
<1>3. k \in 0 .. Len(doc) - 1 /\ reader.need = n
  BY <1>1, <1>2 DEF Reading
<1>4. /\ L \in Nat /\ n \in Nat /\ Len(Written[k + 1]) = L + Width + n
      /\ \A i \in 1 .. n : Stream[L + Width + i] = <<k + 1, i>>
  BY <1>2, <1>3 DEF StreamHas
<1>5. /\ reader.buf \in Seq(Byte) /\ Len(reader.buf) = n /\ got = (L + Width) + n
      /\ \A i \in 1 .. n : reader.buf[i] = Stream[L + Width + i]
  BY <1>1, <1>3 DEF Reading, From
<1> HIDE DEF n, L, k
<1>6. reader.buf = Page(k + 1, n)
  <2> DEFINE s == reader.buf
  <2>1. s \in Seq(Byte) /\ Len(s) = n /\ \A i \in 1 .. n : s[i] = <<k + 1, i>>
    BY <1>4, <1>5
  <2> HIDE DEF s
  <2>2. s = [i \in 1 .. Len(s) |-> s[i]]
    BY <2>1
  <2>3. s = [i \in 1 .. n |-> <<k + 1, i>>]
    BY <2>1, <2>2
  <2> QED BY <2>3 DEF Page, s
<1> QED BY <1>3, <1>4, <1>5, <1>6 DEF n, L, k

LEMMA FullKeeps ==
  ASSUME PdfInv, Full PROVE PdfInv'
<1> DEFINE k == Len(reader.pages)
           n == doc[k + 1]
<1>1. UNCHANGED <<doc, bigEndian, process, sent, got, pchan, caller>>
      /\ reader.pc \in {"size", "page"} /\ Len(reader.buf) = reader.need
  BY DEF Full
<1>2. Stream' = Stream /\ Written' = Written /\ DocTyped'
  BY <1>1, StreamStays DEF PdfInv
<1>3. DocTyped /\ Reading
  BY <1>1 DEF PdfInv
<1>4. Len(doc) \in Nat /\ \A j \in 0 .. Len(doc) - 1 : StreamHas(j)
  BY <1>3, StreamIs
<1>5. /\ Reading' /\ reader'.pc \in {"size", "page"}
      /\ reader' = [pc |-> reader'.pc, buf |-> reader'.buf, need |-> reader'.need,
                    pages |-> reader'.pages, err |-> reader'.err]
  <2>1. CASE reader.pc = "size"
    <3>1. Len(reader.buf) = Width
      BY <1>1, <1>3, <2>1 DEF Reading
    <3>2. k < Len(doc) /\ k \in 0 .. Len(doc) - 1 /\ reader.buf = Field(n)
      BY <2>1, <3>1, FieldRead
    <3>3. PngLen(reader.buf) = n /\ n \in Nat
      BY <1>4, <3>2 DEF StreamHas
    <3>4. reader' = [pc |-> "page", buf |-> <<>>, need |-> n, pages |-> reader.pages, err |-> reader.err]
      BY <1>1, <2>1, <3>3 DEF Full, PdfInv
    <3> DEFINE L == Len(Written[k])
    <3>5. got = L + Width /\ L \in Nat
      <4>1. L \in Nat
        BY <1>4, <3>2 DEF StreamHas
      <4> QED BY <1>3, <2>1, <3>1, <4>1 DEF Reading, From
    <3>6. From' = L + Width
      BY <1>2, <3>4 DEF From
    <3>7. got' = From' + Len(reader'.buf)
      <4>1. Len(reader'.buf) = 0
        BY <3>4
      <4> HIDE DEF L
      <4> QED BY <1>1, <3>5, <3>6, <4>1, SizesAssumption
    <3>8. reader'.pages = reader.pages /\ reader'.pc = "page" /\ reader'.need = n /\ reader'.buf = <<>>
      BY <3>4
    <3> HIDE DEF L
    <3> QED BY <1>1, <1>3, <3>2, <3>3, <3>4, <3>7, <3>8 DEF Reading, Page
  <2>2. CASE reader.pc = "page"
    <3> DEFINE p == reader.pages
               q == Append(p, reader.buf)
    <3>1. k \in 0 .. Len(doc) - 1 /\ reader.buf = Page(k + 1, n) /\ got = Len(Written[k + 1])
      BY <1>1, <2>2, PageRead
    <3>2. reader' = [pc |-> "size", buf |-> <<>>, need |-> Width, pages |-> q, err |-> FALSE]
      BY <2>2 DEF Full, Read
    <3>3. p = [i \in 1 .. k |-> Page(i, doc[i])]
      BY <1>3 DEF Reading
    <3>4. Len(q) = k + 1 /\ q = [i \in 1 .. k + 1 |-> Page(i, doc[i])]
      <4> HIDE DEF k
      <4>1. k \in Nat
        BY <1>4, <3>1
      <4> DEFINE g == [i \in 1 .. k |-> Page(i, doc[i])]
      <4>2. Append(g, Page(k + 1, doc[k + 1])) = [i \in 1 .. k + 1 |-> Page(i, doc[i])]
        BY <4>1
      <4>3. q = [i \in 1 .. k + 1 |-> Page(i, doc[i])]
        BY <3>1, <3>3, <4>2
      <4>4. Len(q) = k + 1
        BY <4>1, <4>3
      <4> QED BY <4>3, <4>4
    <3> HIDE DEF q
    <3>5. reader'.pages = q /\ reader'.pc = "size" /\ reader'.need = Width /\ reader'.buf = <<>>
      BY <3>2
    <3>6. From' = Len(Written[k + 1])
      BY <1>2, <3>4, <3>5 DEF From
    <3>7. got' = From' + Len(reader'.buf)
      <4>1. Len(reader'.buf) = 0
        BY <3>5
      <4>2. got \in Nat
        <5>1. got \in 0 .. sent
          BY DEF PdfInv
        <5> QED BY <5>1
      <4> QED BY <1>1, <3>1, <3>6, <4>1, <4>2
    <3>8. Len(q) \in 0 .. Len(doc)
      BY <1>4, <3>1, <3>4
    <3>9. Len(reader'.buf) = 0 /\ Width \in Nat
      BY <3>5, SizesAssumption
    <3> HIDE DEF k
    <3> QED BY <1>1, <3>2, <3>4, <3>5, <3>7, <3>8, <3>9 DEF Reading, Page
  <2> QED BY <1>1, <2>1, <2>2
<1>6. pchan = <<>> \/ \E r : pchan = <<r>> /\ Sound(r)'
  BY <1>1, ResultStays
<1>7. CompleteOrError' /\ (caller.pc = "select" => process' = "ok")
  BY <1>1 DEF PdfInv, CompleteOrError
<1> QED BY <1>1, <1>2, <1>5, <1>6, <1>7 DEF PdfInv

LEMMA PdfStep == PdfInv /\ [PdfNext]_pdfVars => PdfInv'
<1> SUFFICES ASSUME PdfInv, [PdfNext]_pdfVars PROVE PdfInv'
  OBVIOUS
<1>1. CASE Write \/ PdftoppmExit \/ Cancel
  BY <1>1, OutsideKeeps
<1>2. CASE PngPageReader
  BY <1>2, TakeKeeps, FullKeeps, EndKeeps, DeliverKeeps DEF PngPageReader
<1>3. CASE PdfToPng
  BY <1>3, CallerKeeps
<1>4. CASE UNCHANGED pdfVars
  <2>1. UNCHANGED <<doc, bigEndian, process, sent, got, reader, pchan, caller>>
    BY <1>4 DEF pdfVars
  <2>2. Stream' = Stream /\ DocTyped'
    BY <2>1, StreamStays DEF PdfInv
  <2>3. (reader.pc \in {"size", "page"} => Reading') /\ (reader.pc = "send" => Sound(reader)')
    BY <2>1, ReadingStays DEF PdfInv, Sound
  <2>4. \A r : Sound(r) => Sound(r)'
    BY <2>1 DEF Sound
  <2> QED BY <2>1, <2>2, <2>3, <2>4 DEF PdfInv, CompleteOrError
<1> QED BY <1>1, <1>2, <1>3, <1>4 DEF PdfNext

(* PdfToPng never takes a part of a PDF for the whole: without an error it *)
(* has every page, whatever the bytes of a size, the pipe and the order in *)
(* which pdftoppm, the reader and Run come to their ends                   *)
(* (drawsub.go:204-274).                                                   *)
THEOREM PagesComplete == PdfSpec => []CompleteOrError
<1>1. PdfInv => CompleteOrError
  BY DEF PdfInv
<1> QED BY <1>1, PdfInitially, PdfStep, PTL DEF PdfSpec


-----------------------------------------------------------------------------
(* A call of PdfToPng ends: nobody waits for somebody who waits, and there *)
(* is less left to do after every step.                                    *)

(* Where the goroutines of a call are, and the channel with them.          *)
Places ==
  /\ reader.pc \in {"size", "page", "send", "end"} /\ caller.pc \in {"run", "select", "returned"}
  /\ cancelled \in BOOLEAN
  /\ open <=> caller.pc = "run"
  /\ caller.pc # "run" => process # "running"
  /\ reader.pc \in {"send", "end"} => process # "running"
  /\ reader.pc = "send" => pchan = <<>>
  /\ reader.pc = "end" => pchan # <<>> \/ caller.pc = "returned"
  /\ pchan # <<>> => reader.pc = "end"

LEMMA PlacesInitially == PdfInit => Places
<1> SUFFICES ASSUME PdfInit PROVE Places
  OBVIOUS
<1>1. reader.pc = "size" /\ caller.pc = "run" /\ open = TRUE /\ pchan = <<>> /\ cancelled = FALSE
  BY DEF PdfInit, Read, Running
<1> QED BY <1>1 DEF Places

LEMMA ReaderIsARecord ==
  ASSUME PdfInv PROVE
    /\ \A err : Send(err) => reader' = [pc |-> "send", buf |-> reader.buf, need |-> reader.need,
                                        pages |-> reader.pages, err |-> err]
    /\ reader.pc = "send" /\ reader' = [reader EXCEPT !.pc = "end"] =>
         reader' = [pc |-> "end", buf |-> reader.buf, need |-> reader.need,
                    pages |-> reader.pages, err |-> reader.err]
BY DEF Send, PdfInv

(* The reader sends after pdftoppm's end, and the caller selects then too. *)
LEMMA PlacesStep ==
  ASSUME PdfInv, Places, [PdfNext]_pdfVars PROVE Places'
<1>1. CASE Write \/ PdftoppmExit \/ Cancel
  <2>1. UNCHANGED <<open, reader, pchan, caller>> /\ cancelled' \in BOOLEAN
        /\ (process # "running" => process' # "running")
    BY <1>1 DEF Write, PdftoppmExit, Cancel, Places
  <2> QED BY <2>1 DEF Places
<1>2. CASE Take
  <2>1. UNCHANGED <<process, open, pchan, cancelled, caller>> /\ reader.pc \in {"size", "page"}
    BY <1>2 DEF Take
  <2>2. reader'.pc = reader.pc
    BY <1>2 DEF Take, PdfInv
  <2> QED BY <2>1, <2>2 DEF Places
<1>3. CASE Full
  <2>1. UNCHANGED <<process, open, pchan, cancelled, caller>> /\ reader.pc \in {"size", "page"}
    BY <1>3 DEF Full
  <2>2. reader'.pc \in {"size", "page"}
    BY <1>3 DEF Full, Read, PdfInv
  <2> QED BY <2>1, <2>2 DEF Places
<1>4. CASE AtEnd \/ Closed
  <2>1. UNCHANGED <<process, open, pchan, cancelled, caller>> /\ reader.pc \in {"size", "page"}
        /\ (process # "running" \/ ~open)
    BY <1>4 DEF AtEnd, Closed
  <2>2. reader'.pc = "send"
    <3>1. \A err : Send(err) => reader'.pc = "send"
      BY ReaderIsARecord
    <3>2. CASE AtEnd
      <4>1. Send(reader.pc = "page")
        BY <3>2 DEF AtEnd
      <4> QED BY <3>1, <4>1
    <3>3. CASE Closed
      BY <3>1, <3>3 DEF Closed
    <3> QED BY <1>4, <3>2, <3>3
  <2> QED BY <2>1, <2>2 DEF Places
<1>5. CASE Deliver
  <2>1. UNCHANGED <<process, open, cancelled, caller>> /\ reader.pc = "send"
        /\ pchan' = Append(pchan, [pages |-> reader.pages, err |-> reader.err]) /\ pchan = <<>>
    BY <1>5 DEF Deliver, Places
  <2>2. reader'.pc = "end"
    BY <1>5, ReaderIsARecord DEF Deliver
  <2>3. pchan' # <<>>
    BY <2>1
  <2> QED BY <2>1, <2>2, <2>3 DEF Places
<1>6. CASE Wait
  <2>1. UNCHANGED <<process, reader, pchan, cancelled>> /\ process # "running" /\ open' = FALSE
    BY <1>6 DEF Wait
  <2>2. caller'.pc \in {"select", "returned"} /\ caller.pc = "run"
    BY <1>6 DEF Wait, PdfInv
  <2> QED BY <2>1, <2>2 DEF Places
<1>7. CASE Receive \/ Abandon
  <2>1. UNCHANGED <<process, open, reader, cancelled>> /\ caller.pc = "select" /\ caller'.pc = "returned"
    <3>1. CASE Receive
      BY <3>1 DEF Receive
    <3>2. CASE Abandon
      BY <3>2 DEF Abandon, PdfInv
    <3> QED BY <1>7, <3>1, <3>2
  <2>2. pchan' = pchan \/ (pchan # <<>> /\ pchan' = <<>>)
    <3>1. CASE Receive
      <4>1. PICK r : pchan = <<r>>
        BY <3>1 DEF Receive, PdfInv
      <4> QED BY <3>1, <4>1 DEF Receive
    <3>2. CASE Abandon
      BY <3>2 DEF Abandon
    <3> QED BY <1>7, <3>1, <3>2
  <2> QED BY <2>1, <2>2 DEF Places
<1>8. CASE UNCHANGED pdfVars
  BY <1>8 DEF pdfVars, Places
<1> QED BY <1>1, <1>2, <1>3, <1>4, <1>5, <1>6, <1>7, <1>8 DEF PdfNext, PngPageReader, PdfToPng

(* The call is over, and its goroutine with it.                            *)
Ended == caller.pc = "returned" /\ reader.pc = "end"

(* What can go on, by the guards of the steps: Write and PdftoppmExit;     *)
(* Wait; Receive; Full, Closed, Take and AtEnd; Deliver.                   *)
Going ==
  \/ process = "running" /\ (sent = Len(Stream) \/ sent - got < PipeSize)
  \/ caller.pc = "run" /\ process # "running"
  \/ caller.pc = "select" /\ pchan # <<>>
  \/ /\ reader.pc \in {"size", "page"}
     /\ \/ Len(reader.buf) = reader.need
        \/ ~open
        \/ sent > got
        \/ sent = got /\ process # "running"
  \/ reader.pc = "send" /\ Room
NobodyWaits == ~Ended => Going

(* A reader that waits for bytes leaves room in the pipe.                  *)
LEMMA GoesOn == PdfInv /\ Places => NobodyWaits
<1> SUFFICES ASSUME PdfInv, Places, ~Ended PROVE Going
  BY DEF NobodyWaits
<1>1. Len(Stream) \in Nat /\ sent \in 0 .. Len(Stream) /\ got \in 0 .. sent
  BY StreamIs DEF PdfInv
<1>2. CASE reader.pc \in {"size", "page"}
  <2>1. CASE ~open \/ sent > got
    BY <1>2, <2>1 DEF Going
  <2>2. CASE open /\ sent = got
    <3>1. caller.pc = "run"
      BY <2>2 DEF Places
    <3>2. sent - got < PipeSize
      BY <1>1, <2>2, SizesAssumption
    <3> QED BY <3>1, <3>2 DEF Going
  <2> QED BY <1>1, <2>1, <2>2
<1>3. CASE reader.pc = "send"
  <2>1. Len(<<>>) = 0
    OBVIOUS
  <2> QED BY <1>3, <2>1 DEF Going, Room, Places
<1>4. CASE reader.pc = "end"
  <2>1. CASE caller.pc = "select"
    BY <1>4, <2>1 DEF Going, Places
  <2>2. CASE caller.pc = "run"
    BY <1>4, <2>2 DEF Going, Places
  <2> QED BY <1>4, <2>1, <2>2 DEF Places, Ended
<1> QED BY <1>2, <1>3, <1>4 DEF Places

(* What is left: bytes to write and to read, fields and pages to begin,    *)
(* the steps of the caller, the end of pdftoppm and of the request.        *)
ReaderLeft ==
  LET pagesLeft == Len(doc) - Len(reader.pages)
  IN  IF reader.pc = "size" THEN 2 + 2 * pagesLeft
      ELSE IF reader.pc = "page" THEN 1 + 2 * pagesLeft
      ELSE IF reader.pc = "send" THEN 1 ELSE 0

CallerLeft == IF caller.pc = "run" THEN 2 ELSE IF caller.pc = "select" THEN 1 ELSE 0

BytesLeft == (Len(Stream) - sent) + (Len(Stream) - got)

EventsLeft == (IF process = "running" THEN 1 ELSE 0) + (IF cancelled THEN 0 ELSE 1)

Left == BytesLeft + ReaderLeft + CallerLeft + EventsLeft

(* Each part of it is a number.                                            *)
LEMMA PartsLeft ==
  ASSUME PdfInv, Places
  PROVE  /\ BytesLeft \in Nat /\ ReaderLeft \in Nat /\ CallerLeft \in Nat /\ EventsLeft \in Nat /\ Left \in Nat
         /\ Len(Stream) \in Nat /\ Len(doc) \in Nat /\ sent \in Nat /\ got \in Nat
         /\ reader.pc \in {"size", "page"} => Len(reader.pages) \in 0 .. Len(doc)
         /\ reader.pc = "page" => Len(reader.pages) < Len(doc)
<1>1. Len(Stream) \in Nat /\ Len(doc) \in Nat /\ sent \in 0 .. Len(Stream) /\ got \in 0 .. sent
  BY StreamIs DEF PdfInv
<1>2. /\ reader.pc \in {"size", "page"} => Len(reader.pages) \in 0 .. Len(doc)
      /\ reader.pc = "page" => Len(reader.pages) < Len(doc)
  BY DEF PdfInv, Reading
<1>3. BytesLeft \in Nat
  BY <1>1 DEF BytesLeft
<1>4. ReaderLeft \in Nat
  <2> DEFINE p == Len(doc) - Len(reader.pages)
  <2>1. reader.pc \in {"size", "page"} => p \in Nat
    BY <1>1, <1>2
  <2> HIDE DEF p
  <2> QED BY <2>1 DEF ReaderLeft, p
<1>5. CallerLeft \in Nat /\ EventsLeft \in Nat
  BY DEF CallerLeft, EventsLeft
<1>6. Left \in Nat
  BY <1>3, <1>4, <1>5 DEF Left
<1> QED BY <1>1, <1>2, <1>3, <1>4, <1>5, <1>6

(* One part falls and the others stay.                                     *)
LEMMA SumFalls ==
  ASSUME BytesLeft \in Nat, ReaderLeft \in Nat, CallerLeft \in Nat, EventsLeft \in Nat,
         BytesLeft' \in Int, ReaderLeft' \in Int, CallerLeft' \in Int, EventsLeft' \in Int,
         BytesLeft' <= BytesLeft, ReaderLeft' <= ReaderLeft,
         CallerLeft' <= CallerLeft, EventsLeft' <= EventsLeft,
         \/ BytesLeft' < BytesLeft \/ ReaderLeft' < ReaderLeft
         \/ CallerLeft' < CallerLeft \/ EventsLeft' < EventsLeft
  PROVE  Left' < Left
<1>1. \A a, b, c, d \in Nat : \A e, f, g, h \in Int :
        e <= a /\ f <= b /\ g <= c /\ h <= d /\ (e < a \/ f < b \/ g < c \/ h < d) =>
          e + f + g + h < a + b + c + d
  OBVIOUS
<1>2. BytesLeft' + ReaderLeft' + CallerLeft' + EventsLeft' < BytesLeft + ReaderLeft + CallerLeft + EventsLeft
  BY <1>1
<1> QED BY <1>2 DEF Left

LEMMA StepFalls ==
  ASSUME PdfInv, Places, PdfNext PROVE Left' < Left
<1>1. /\ BytesLeft \in Nat /\ ReaderLeft \in Nat /\ CallerLeft \in Nat /\ EventsLeft \in Nat
      /\ Len(Stream) \in Nat /\ Len(doc) \in Nat /\ sent \in Nat /\ got \in Nat
      /\ reader.pc \in {"size", "page"} => Len(reader.pages) \in 0 .. Len(doc)
      /\ reader.pc = "page" => Len(reader.pages) < Len(doc)
  BY PartsLeft
<1>2. Stream' = Stream /\ doc' = doc
  <2>1. UNCHANGED <<doc, bigEndian>>
    BY DEF PdfNext, Write, PdftoppmExit, Cancel, PngPageReader, PdfToPng, Take, Full, AtEnd,
           Closed, Deliver, Wait, Receive, Abandon
  <2> QED BY <2>1, StreamStays
<1>3. CASE Write
  <2>1. UNCHANGED <<process, got, reader, cancelled, caller>> /\ sent' = sent + 1
    BY <1>3 DEF Write
  <2>2. BytesLeft' < BytesLeft
    BY <1>1, <1>2, <2>1 DEF BytesLeft
  <2>3. BytesLeft' \in Int
    BY <1>1, <1>2, <2>1 DEF BytesLeft
  <2>4. ReaderLeft' = ReaderLeft /\ CallerLeft' = CallerLeft
    BY <1>2, <2>1 DEF ReaderLeft, CallerLeft
  <2>5. EventsLeft' = EventsLeft
    BY <2>1 DEF EventsLeft
  <2> QED BY <1>1, <2>1, <2>2, <2>3, <2>4, <2>5, SumFalls
<1>4. CASE PdftoppmExit \/ Cancel
  <2>1. UNCHANGED <<sent, got, reader, caller>>
    BY <1>4 DEF PdftoppmExit, Cancel
  <2>2. /\ process' = "running" => process = "running"
        /\ cancelled => cancelled'
        /\ (process = "running" /\ process' # "running") \/ (~cancelled /\ cancelled')
    BY <1>4 DEF PdftoppmExit, Cancel
  <2>3. BytesLeft' = BytesLeft /\ ReaderLeft' = ReaderLeft /\ CallerLeft' = CallerLeft
    BY <1>2, <2>1 DEF BytesLeft, ReaderLeft, CallerLeft
  <2>4. EventsLeft' < EventsLeft /\ EventsLeft' \in Int
    BY <2>2 DEF EventsLeft
  <2> QED BY <1>1, <2>3, <2>4, SumFalls
<1>5. CASE Take
  <2>1. UNCHANGED <<process, sent, cancelled, caller>>
    BY <1>5 DEF Take
  <2>2. reader'.pc = reader.pc /\ reader'.pages = reader.pages
    BY <1>5 DEF Take, PdfInv
  <2>3. PICK n \in 1 .. Min({reader.need - Len(reader.buf), sent - got}) : got' = got + n
    BY <1>5 DEF Take
  <2>4. n \in Int /\ n >= 1
    BY <2>3
  <2>5. BytesLeft' < BytesLeft /\ BytesLeft' \in Int
    BY <1>1, <1>2, <2>1, <2>3, <2>4 DEF BytesLeft
  <2>6. ReaderLeft' = ReaderLeft /\ CallerLeft' = CallerLeft
    BY <1>2, <2>1, <2>2 DEF ReaderLeft, CallerLeft
  <2>7. EventsLeft' = EventsLeft
    BY <2>1 DEF EventsLeft
  <2> QED BY <1>1, <2>1, <2>5, <2>6, <2>7, SumFalls
<1>6. CASE Full \/ AtEnd \/ Closed \/ Deliver
  <2>1. UNCHANGED <<process, sent, got, cancelled, caller>>
    BY <1>6 DEF Full, AtEnd, Closed, Deliver
  <2>2. BytesLeft' = BytesLeft /\ CallerLeft' = CallerLeft
    BY <1>2, <2>1 DEF BytesLeft, CallerLeft
  <2>3. ReaderLeft' < ReaderLeft /\ ReaderLeft' \in Int
    <3>1. CASE Full /\ reader.pc = "size"
      <4>1. reader'.pc = "page" /\ reader'.pages = reader.pages
        BY <3>1 DEF Full, PdfInv
      <4> QED BY <1>1, <1>2, <3>1, <4>1 DEF ReaderLeft
    <3>2. CASE Full /\ reader.pc = "page"
      <4>1. reader' = Read(Append(reader.pages, reader.buf)) /\ Len(reader.buf) = reader.need
        BY <3>2 DEF Full
      <4>2. reader'.pc = "size" /\ reader'.pages = Append(reader.pages, reader.buf)
        BY <4>1 DEF Read
      <4> DEFINE k == Len(reader.pages)
      <4>3. k \in Nat /\ k < Len(doc)
        BY <1>1, <3>2
      <4>4. Len(reader'.pages) = k + 1
        <5>1. reader.pages = [i \in 1 .. k |-> Page(i, doc[i])]
          BY <3>2 DEF PdfInv, Reading
        <5> HIDE DEF k
        <5>2. \A b : Len(Append([i \in 1 .. k |-> Page(i, doc[i])], b)) = k + 1
          BY <4>3
        <5> QED BY <4>2, <5>1, <5>2
      <4>5. ReaderLeft = 1 + 2 * (Len(doc) - k) /\ ReaderLeft' = 2 + 2 * (Len(doc) - (k + 1))
        BY <1>2, <3>2, <4>2, <4>4 DEF ReaderLeft
      <4> HIDE DEF k
      <4> QED BY <1>1, <4>3, <4>5
    <3>3. CASE AtEnd \/ Closed
      <4>1. reader.pc \in {"size", "page"}
        BY <3>3 DEF AtEnd, Closed
      <4>2. reader'.pc = "send"
        <5>1. \A err : Send(err) => reader'.pc = "send"
          BY ReaderIsARecord
        <5>2. CASE AtEnd
          <6>1. Send(reader.pc = "page")
            BY <5>2 DEF AtEnd
          <6> QED BY <5>1, <6>1
        <5>3. CASE Closed
          BY <5>1, <5>3 DEF Closed
        <5> QED BY <3>3, <5>2, <5>3
      <4>3. ReaderLeft' = 1
        BY <4>2 DEF ReaderLeft
      <4>4. ReaderLeft > 1
        BY <1>1, <4>1 DEF ReaderLeft
      <4> QED BY <1>1, <4>3, <4>4
    <3>4. CASE Deliver
      <4>1. reader.pc = "send" /\ reader'.pc = "end"
        BY <3>4, ReaderIsARecord DEF Deliver
      <4> QED BY <4>1 DEF ReaderLeft
    <3> QED BY <1>6, <3>1, <3>2, <3>3, <3>4 DEF Full
  <2>4. EventsLeft' = EventsLeft
    BY <2>1 DEF EventsLeft
  <2> QED BY <1>1, <2>2, <2>3, <2>4, SumFalls
<1>7. CASE PdfToPng
  <2>1. UNCHANGED <<process, sent, got, reader, cancelled>>
    BY <1>7 DEF PdfToPng, Wait, Receive, Abandon
  <2>2. BytesLeft' = BytesLeft /\ ReaderLeft' = ReaderLeft
    BY <1>2, <2>1 DEF BytesLeft, ReaderLeft
  <2>3. CallerLeft' < CallerLeft /\ CallerLeft' \in Int
    <3>1. CASE Wait
      <4>1. caller.pc = "run" /\ caller'.pc \in {"select", "returned"}
        BY <3>1 DEF Wait, PdfInv
      <4> QED BY <4>1 DEF CallerLeft
    <3>2. CASE Receive
      <4>1. caller.pc = "select" /\ caller'.pc = "returned"
        BY <3>2 DEF Receive
      <4> QED BY <4>1 DEF CallerLeft
    <3>3. CASE Abandon
      <4>1. caller.pc = "select" /\ caller'.pc = "returned"
        BY <3>3 DEF Abandon, PdfInv
      <4> QED BY <4>1 DEF CallerLeft
    <3> QED BY <1>7, <3>1, <3>2, <3>3 DEF PdfToPng
  <2>4. EventsLeft' = EventsLeft
    BY <2>1 DEF EventsLeft
  <2> QED BY <1>1, <2>2, <2>3, <2>4, SumFalls
<1> QED BY <1>3, <1>4, <1>5, <1>6, <1>7 DEF PdfNext, PngPageReader

(* A call has no endless run: every step of pdftoppm, of the reader, of    *)
(* the caller and of the request leaves less to do, so that a retried read *)
(* or an empty page cannot keep it busy (drawsub.go:204-274).              *)
THEOREM CallIsFinite == PdfSpec => [](Left \in Nat) /\ [][Left' < Left]_pdfVars
<1> DEFINE Both == PdfInv /\ Places
<1>1. PdfInit => Both
  BY PdfInitially, PlacesInitially
<1>2. Both /\ [PdfNext]_pdfVars => Both'
  BY PdfStep, PlacesStep
<1>3. Both => Left \in Nat
  BY PartsLeft
<1>4. Both /\ [PdfNext]_pdfVars => [Left' < Left]_pdfVars
  BY StepFalls
<1> HIDE DEF Both
<1> QED BY <1>1, <1>2, <1>3, <1>4, PTL DEF PdfSpec

(* As long as the call has not returned or its goroutine has not ended,    *)
(* one of them or pdftoppm can go on, whatever the pipe holds and however  *)
(* early pdftoppm, the request or the reader ends: a channel with room for *)
(* one result is enough for a goroutine that nobody waits for any more     *)
(* (drawsub.go:204-274).                                                   *)
THEOREM PdfNeverStuck == PdfSpec => []NobodyWaits
<1> DEFINE Both == PdfInv /\ Places
<1>1. PdfInit => Both
  BY PdfInitially, PlacesInitially
<1>2. Both /\ [PdfNext]_pdfVars => Both'
  BY PdfStep, PlacesStep
<1>3. Both => NobodyWaits
  BY GoesOn
<1> HIDE DEF Both
<1> QED BY <1>1, <1>2, <1>3, PTL DEF PdfSpec
=============================================================================
