------------------------------ MODULE IdFixup ------------------------------
(***************************************************************************)
(* data/election.go: Fixup, which every POST and GET of an election runs   *)
(* on the document, on the goroutine of its request.  A call keeps what it *)
(* has seen to itself; tsmap, from @type to the prefix of its ids, is a    *)
(* package variable that all calls share and newId extends, with no lock.  *)
(*                                                                         *)
(* A document is its set of nodes that have an @type and an @id.  Go walks *)
(* a map in random order, so the nodes are visited in any order, and those *)
(* found wanting are renumbered in any order.  An id is a prefix and a     *)
(* number; types that type_seq.json does not list have no prefix at first. *)
(***************************************************************************)
EXTENDS Naturals, FiniteSets

CONSTANTS Handlers, Nodes, Types,
          InputIds,   \* ids in the documents that clients send, or that are stored
          Inputs,     \* and those documents
          Listed,     \* the types of type_seq.json
          PrefixOf,   \* and their prefixes
          MaxNumber,  \* bound on the numbers newId tries: it goes on trying the last
          Absent

ASSUME ListedAssumption ==
  /\ Listed \subseteq Types
  /\ \A t \in Listed : PrefixOf[t] # Absent
ASSUME InputsAssumption == Inputs \subseteq [Nodes -> [type : Types, id : InputIds]]
ASSUME MaxNumberAssumption == MaxNumber \in Nat \ {0}

VARIABLES tsmap,   \* @type -> prefix or Absent
          call     \* what each goroutine's call of Fixup is doing

fixVars == <<tsmap, call>>

Unk(i) == <<"unk", i>>       \* the prefix unk<i>_
Made   == ({PrefixOf[t] : t \in Listed} \cup {Unk(i) : i \in 1 .. Cardinality(Types)}) \X (1 .. MaxNumber)
Ids    == InputIds \cup Made   \* Made: what newId can make
Docs   == [Nodes -> [type : Types, id : Ids]]

ASSUME TypesAssumption ==
  IsFiniteSet(Types) /\ \A i \in 1 .. Cardinality(Types) : Unk(i) # Absent

LoadedMap == [t \in Types |-> IF t \in Listed THEN PrefixOf[t] ELSE Absent]

Idle == [pc |-> "idle"]

FixInit == tsmap = LoadedMap /\ call = [h \in Handlers |-> Idle]

-----------------------------------------------------------------------------
Active(h) == call[h].pc # "idle"

(* A new idFixupContext: nothing seen, every sequence at 1, unki = 0.      *)
Begin(h, d) ==
  /\ ~Active(h)
  /\ call' = [call EXCEPT ![h] =
       [pc |-> "walk", input |-> d, doc |-> d, todo |-> Nodes, needs |-> {}, seen |-> {},
        tried |-> {}, unki |-> 0, rec |-> Absent, prefix |-> Absent]]
  /\ UNCHANGED tsmap

(* Mutant: ids are remembered without their type.                          *)
SeenInAnyType(c, t, id) ==
  \/ tsmap[t] # Absent /\ id[1] # tsmap[t]
  \/ \E s \in c.seen : s[2] = id
(* Mutant: only the prefix is checked.                                     *)
SeenPrefixOnly(c, t, id) == tsmap[t] # Absent /\ id[1] # tsmap[t]

(* checkSetSeen answers dup: a prefix that is not the type's, or an id the *)
(* type has already used.                                                  *)
Dup(c, t, id) ==
  \/ tsmap[t] # Absent /\ id[1] # tsmap[t]
  \/ <<t, id>> \in c.seen

(* idFixupInner on one node.                                               *)
Visit(h, n) ==
  LET c == call[h]
      x == c.doc[n]
  IN  /\ c.pc = "walk"
      /\ n \in c.todo
      /\ call' = [call EXCEPT ![h] =
           IF Dup(c, x.type, x.id)
           THEN [c EXCEPT !.todo = @ \ {n}, !.needs = @ \cup {n}]
           ELSE [c EXCEPT !.todo = @ \ {n}, !.seen = @ \cup {<<x.type, x.id>>}]]
      /\ UNCHANGED tsmap

(* Mutant: new ids are given out while the document is still being walked. *)
LookUpPrefixEarly(h, n) ==
  LET c      == call[h]
      prefix == tsmap[c.doc[n].type]
  IN  /\ c.pc = "walk"
      /\ n \in c.needs
      /\ call' = [call EXCEPT ![h] =
           [c EXCEPT !.pc = IF prefix = Absent THEN "enter" ELSE "try", !.rec = n, !.prefix = prefix]]
      /\ UNCHANGED tsmap

(* newId reads the prefix of the type.                                     *)
LookUpPrefix(h, n) ==
  LET c      == call[h]
      prefix == tsmap[c.doc[n].type]
  IN  /\ c.pc = "walk" /\ c.todo = {}
      /\ n \in c.needs
      /\ call' = [call EXCEPT ![h] =
           [c EXCEPT !.pc = IF prefix = Absent THEN "enter" ELSE "try", !.rec = n, !.prefix = prefix]]
      /\ UNCHANGED tsmap

(* A type without one is entered into tsmap with the next unk<i>_ of this  *)
(* call, whatever another call has entered since.                          *)
EnterPrefix(h) ==
  LET c == call[h]
      p == Unk(c.unki + 1)
  IN  /\ c.pc = "enter"
      /\ tsmap' = [tsmap EXCEPT ![c.doc[c.rec].type] = p]
      /\ call' = [call EXCEPT ![h] = [c EXCEPT !.pc = "try", !.unki = @ + 1, !.prefix = p]]

(* Mutant: nextid is not advanced.                                         *)
NextIdFixed(c) == 1

(* nextid[prefix]: the number after those this call has tried.             *)
NextId(c) ==
  CHOOSE k \in 1 .. MaxNumber :
    /\ <<c.prefix, k>> \notin c.tried \/ k = MaxNumber
    /\ \A j \in 1 .. k - 1 : <<c.prefix, j>> \in c.tried

(* One round of newId's loop.                                              *)
TryId(h) ==
  LET c  == call[h]
      t  == c.doc[c.rec].type
      id == <<c.prefix, NextId(c)>>
  IN  /\ c.pc = "try"
      /\ call' = [call EXCEPT ![h] =
           IF Dup(c, t, id)
           THEN [c EXCEPT !.tried = @ \cup {id}]
           ELSE [c EXCEPT !.pc = "walk", !.tried = @ \cup {id}, !.needs = @ \ {c.rec},
                          !.seen = @ \cup {<<t, id>>}, !.doc[c.rec].id = id]]
      /\ UNCHANGED tsmap

Returning(h) == call[h].pc = "walk" /\ call[h].todo = {} /\ call[h].needs = {}

Return(h) ==
  /\ Returning(h)
  /\ call' = [call EXCEPT ![h] = Idle]
  /\ UNCHANGED tsmap

(* A call that writes tsmap while another one uses it: the Go runtime ends *)
(* the process when it notices.  A new process loads tsmap afresh.         *)
MapRace ==
  \E g, h \in Handlers :
    /\ g # h
    /\ call[g].pc = "enter"
    /\ Active(h) /\ ~Returning(h)
    /\ tsmap' = LoadedMap
    /\ call' = [f \in Handlers |-> Idle]

Step(h) ==
  \/ EnterPrefix(h) \/ TryId(h) \/ Return(h)
  \/ \E n \in Nodes : Visit(h, n) \/ LookUpPrefix(h, n)

FixNext ==
  \/ \E h \in Handlers : Step(h)
  \/ \E h \in Handlers, d \in Inputs : Begin(h, d)
  \/ MapRace

FixSpec == FixInit /\ [][FixNext]_fixVars

(* The scheduler runs every goroutine.                                     *)
FixFair == FixSpec /\ \A h \in Handlers : WF_fixVars(Step(h))

-----------------------------------------------------------------------------
(* Properties.                                                             *)

FixTypeOK ==
  \A h \in Handlers : Active(h) =>
    LET c == call[h] IN
    /\ c.pc \in {"walk", "enter", "try"}
    /\ c.input \in Inputs /\ c.doc \in Docs
    /\ c.todo \subseteq Nodes /\ c.needs \subseteq Nodes \ c.todo
    /\ c.pc # "walk" => c.rec \in c.needs /\ c.todo = {}

(* When Fixup returns, no two nodes of one type share an id, whatever      *)
(* other calls did to tsmap meanwhile.                                     *)
UniquePerType ==
  \A h \in Handlers : Returning(h) =>
    \A m, n \in Nodes : m # n => call[h].doc[m] # call[h].doc[n]

(* Fixup leaves alone the id of a node whose type is listed, whose prefix  *)
(* is right and which no other node of its type has: references to it stay *)
(* good, since nothing rewrites references (remap is never filled).        *)
KeepsGoodIds ==
  \A h \in Handlers : Returning(h) =>
    LET c == call[h] IN
    \A n \in Nodes :
      /\ c.input[n].type \in Listed
      /\ c.input[n].id[1] = PrefixOf[c.input[n].type]
      /\ \A m \in Nodes \ {n} : c.input[m] # c.input[n]
      => c.doc[n] = c.input[n]

(* A call that no other call overlaps returns: newId's loop ends.          *)
AloneReturns ==
  \A h \in Handlers :
    LET alone == \A g \in Handlers \ {h} : ~Active(g)
    IN  (Active(h) /\ call[h].todo = Nodes /\ alone) ~> (~Active(h) \/ ~alone)
=============================================================================
