----------------------------- MODULE WordCounts -----------------------------
(***************************************************************************)
(* The word_count_array of proj01/src/common.c: a sequence of pairs of a   *)
(* word and its count, in the order of their first appearance.  The size   *)
(* the array is allocated with is left out.                                *)
(***************************************************************************)
EXTENDS Integers, Sequences, SequencesExt, FiniteSets

Pair(word, count) == [word |-> word, count |-> count]

Words(pair_array) == { pair_array[i].word : i \in DOMAIN pair_array }

(* Mutant: an occurrence more, whatever the count that comes with it.      *)
CountsOnce(pair_array, word, count) ==
  IF word \in Words(pair_array)
  THEN [ i \in DOMAIN pair_array |->
           IF pair_array[i].word = word
           THEN Pair(word, pair_array[i].count + 1) ELSE pair_array[i] ]
  ELSE Append(pair_array, Pair(word, count))

increment_word(pair_array, word, count) ==
  IF word \in Words(pair_array)
  THEN [ i \in DOMAIN pair_array |->
           IF pair_array[i].word = word
           THEN Pair(word, pair_array[i].count + count) ELSE pair_array[i] ]
  ELSE Append(pair_array, Pair(word, count))

add_array_to_array(total_array, other_array) ==
  FoldLeft(LAMBDA total, pair : increment_word(total, pair.word, pair.count),
           total_array, other_array)

(* The words of a file, upper-cased one by one.                            *)
parse_in_file(content, str_toupper) ==
  FoldLeft(LAMBDA pairs, word : increment_word(pairs, str_toupper[word], 1),
           <<>>, content)

-----------------------------------------------------------------------------
(* What the counts should be.                                              *)

CountOf(pair_array, word) ==
  IF word \in Words(pair_array)
  THEN LET i == CHOOSE i \in DOMAIN pair_array : pair_array[i].word = word
       IN  pair_array[i].count
  ELSE 0

Occurrences(contents, str_toupper, word) ==
  Cardinality({ at \in UNION { {f} \X DOMAIN contents[f] : f \in DOMAIN contents } :
                  str_toupper[contents[at[1]][at[2]]] = word })

(* One pair for each word of the files, with the number of times it occurs *)
(* in all of them, upper and lower case being the same.                    *)
CountsAll(pair_array, contents, str_toupper) ==
  /\ \A i, j \in DOMAIN pair_array :
       pair_array[i].word = pair_array[j].word => i = j
  /\ \A word \in DOMAIN str_toupper :
       CountOf(pair_array, str_toupper[word])
         = Occurrences(contents, str_toupper, str_toupper[word])
=============================================================================
