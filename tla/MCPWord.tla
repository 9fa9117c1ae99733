------------------------------ MODULE MCPWord ------------------------------
(***************************************************************************)
(* Small inputs for PWord.  "a" and "A" are the same word to str_toupper;  *)
(* three pairs fill a message of 128 bytes.                                *)
(***************************************************************************)
EXTENDS PWord

Upper == [a |-> "A", A |-> "A", b |-> "B", c |-> "C", d |-> "D", e |-> "E"]

Third == [A |-> 36, B |-> 36, C |-> 36, D |-> 36, E |-> 36]

(* A file for one message, one for two messages and an empty one, with     *)
(* words in common, in other cases, in another order, and repeated.        *)
MixedFiles == <<<<"a", "b", "A">>, <<"c", "d", "b", "A", "a">>, <<>>>>

(* Two files that take more than one message each.                         *)
LongFiles == <<<<"a", "b", "c", "d">>, <<"d", "e", "A", "b", "a", "c">>>>
=============================================================================
