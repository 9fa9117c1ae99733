------------------------------ MODULE Utility ------------------------------
(***************************************************************************)
(* The random numbers of proj02/src/utility.c and proj03/src/utility.c.    *)
(* rand() is external: it returns any value of Rand.  A draw of the        *)
(* exponential distribution is a real number; what the code tells apart    *)
(* are whole numbers and the halves between them, so a draw x counts the   *)
(* thirds: 3n is n, 3n + 1 lies between n and n + 1/2, and 3n + 2 lies     *)
(* from n + 1/2 on and before n + 1.                                       *)
(*                                                                         *)
(* An int is a whole number from -IntHalf to IntHalf - 1, and its sums and *)
(* differences wrap around, as the build has them do.                      *)
(***************************************************************************)
EXTENDS Integers

CONSTANTS
  IntHalf,   \* half the number of values of an int: 2^31
  RAND_MAX,
  LogReach   \* a bound of -log(1 - u) for the greatest u below 1: 22 when
             \* RAND_MAX is 2^31 - 1

ASSUME RandAssumption ==
  /\ IntHalf \in Nat \ {0} /\ RAND_MAX \in 1 .. IntHalf - 1
  /\ LogReach \in Nat \ {0}

CInt == -IntHalf .. IntHalf - 1

(* The int that has the low bits of n.                                     *)
WrapInt(n) == ((n + IntHalf) % (2 * IntHalf)) - IntHalf

Rand == 0 .. RAND_MAX

(* a / b in C, for a >= 0: rounded towards zero.                           *)
CDiv(a, b) == IF b > 0 THEN a \div b ELSE -(a \div (-b))

Width(range_start, range_end)  == WrapInt(range_end - range_start + 1)

Bucket(range_start, range_end) == CDiv(RAND_MAX, Width(range_start, range_end)) + 1

(* One of the two divisions of get_random_in_range has the divisor 0.      *)
DividesByZero(range_start, range_end) ==
  /\ range_start # range_end
  /\ ~ ( /\ Width(range_start, range_end) # 0
         /\ Bucket(range_start, range_end) # 0 )

get_random_in_range(range_start, range_end, rand) ==
  IF range_start = range_end
  THEN range_start
  ELSE WrapInt(range_start + CDiv(rand, Bucket(range_start, range_end)))

InRange(range_start, range_end) ==
  { get_random_in_range(range_start, range_end, rand) : rand \in Rand }

round(x) == (x + 1) \div 3

(* Mutant: the draw is truncated before it is compared.                    *)
RejectsTruncated(x, range_start, range_end) ==
  x \div 3 < range_start \/ x \div 3 > range_end

(* Mutant: the ends of the range are exchanged.                            *)
RejectsSwapped(x, range_start, range_end) == x < 3 * range_end \/ x > 3 * range_start

Rejected(x, range_start, range_end) == x < 3 * range_start \/ x > 3 * range_end

(* The values the loop of get_exponential_random may end with, when the    *)
(* average is positive.  The set is empty when it never ends.              *)
get_exponential_random(range_average, range_start, range_end) ==
  { round(x) : x \in { y \in 0 .. 3 * LogReach * range_average :
                         ~ Rejected(y, range_start, range_end) } }

(* An interval between two whole numbers below the average lies in the     *)
(* range, so every round of the loop may be the last.                      *)
DrawsOften(range_average, range_start, range_end) ==
  /\ range_start < range_end /\ range_end > 0
  /\ range_start < range_average
=============================================================================
