-------------------------- MODULE MCStarDictClient --------------------------
(***************************************************************************)
(* Three calls for two commands each; answers with and without             *)
(* dictionaries, words and data, in a list and in a tree.                  *)
(***************************************************************************)
EXTENDS StarDictClient

MCSends == {<<<<"lookup", "a">>, <<"getdictmask", Blank>>>>,
            <<<<"setmask", "m2">>, <<"next", "a">>>>}
MCShapes == {[dicts |-> <<<<<<2>>, <<>>>>>>, type |-> "d", words |-> 0, tree |-> <<1>>],
             [dicts |-> <<>>, type |-> "f", words |-> 1, tree |-> <<>>]}

\* More answers, which are only read by themselves.
MoreShapes == {[dicts |-> d, type |-> "d", words |-> 0, tree |-> t] :
                  d \in {<<>>, <<<<>>>>, <<<<<<1, 3>>, <<>>>>, <<<<2, 2>>>>>>},
                  t \in {<<>>, <<0>>, <<0, 2>>, <<1, 1, 0>>}} \cup
              {[dicts |-> d, type |-> t, words |-> n, tree |-> <<>>] :
                  d \in {<<<<>>, <<<<1>>>>>>, <<<<<<1, 1, 1>>>>>>},
                  t \in {"g", "r", "f", "l"}, n \in 0..3}
ASSUME MoreAssumption ==
    /\ \A shape \in MoreShapes : Readable("lookup", shape)
    /\ \A kind \in LookupKinds \ {"lookup"}, shape \in MoreShapes :
          Readable(kind, [NoResp EXCEPT !.dicts = shape.dicts])
    /\ \A kind \in ListKinds, n \in 0..3 : Readable(kind, [NoResp EXCEPT !.words = n])
    /\ \A kind \in StrKinds : Readable(kind, NoResp)
=============================================================================
