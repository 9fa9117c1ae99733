------------------------------ MODULE MCTWord ------------------------------
(* Four files: words in common, in other cases, twice, and no words at all.*)
EXTENDS TWord

Upper == [a |-> "A", A |-> "A", b |-> "B", c |-> "C"]

SmallFiles == 0 :> <<"a", "b", "A">> @@ 1 :> <<"b", "c", "b">> @@ 2 :> <<>>
                @@ 3 :> <<"c", "A">>
=============================================================================
