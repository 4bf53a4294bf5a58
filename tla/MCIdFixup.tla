----------------------------- MODULE MCIdFixup -----------------------------
(* Small instances of IdFixup for TLC.                                     *)
EXTENDS IdFixup, TLC

MCTypes    == {"Contest", "x", "y"}      \* one listed type, two unlisted ones
MCListed   == {"Contest"}
MCPrefixOf == [t \in {"Contest"} |-> <<"ccont">>]

(* ccont1, a stray id, and an id that an earlier Fixup made.               *)
MCInputIds == {<<<<"ccont">>, 1>>, <<<<"stray">>, 1>>, <<Unk(1), 1>>}
MCFewIds   == {<<<<"ccont">>, 1>>, <<Unk(1), 1>>}
MCOneId    == {<<<<"stray">>, 1>>}

AllInputs == [Nodes -> [type : Types, id : InputIds]]

(* Documents with two nodes of each unlisted type, all of one id.          *)
CONSTANTS n1, n2
TwoOfEach ==
  {[n \in Nodes |-> [type |-> IF n \in {n1, n2} THEN "x" ELSE "y", id |-> i]] : i \in InputIds}

Symmetry == Permutations(Handlers) \cup Permutations(Nodes)
=============================================================================
