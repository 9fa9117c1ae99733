---------------------------- MODULE InputProofs ----------------------------
(***************************************************************************)
(* Theorems about what feeds the two simulations: the arithmetic of the    *)
(* random numbers (Utility), the processes of WorkloadParams and the       *)
(* addresses of PagingParams, for all ranges and inputs, every width of an *)
(* int and every RAND_MAX that is one.                                     *)
(***************************************************************************)
EXTENDS WorkloadParams, PagingParams, FiniteSetTheorems, TLAPS

-----------------------------------------------------------------------------
(* Random numbers.                                                         *)

LEMMA Division ==
  ASSUME NEW a \in Nat, NEW b \in Nat \ {0}
  PROVE  /\ a \div b \in Nat
         /\ b * (a \div b) <= a /\ a < b * (a \div b + 1)
BY SMT

(* A product that is less than another with the same positive factor.      *)
LEMMA Cancel ==
  ASSUME NEW b \in Nat \ {0}, NEW m \in Int, NEW n \in Int, b * m < b * n
  PROVE  m < n
BY SMT

(* What the low bits of a sum make of it.                                  *)
LEMMA Wrapping ==
  ASSUME NEW n \in Int
  PROVE  /\ WrapInt(n) \in CInt
         /\ n \in CInt => WrapInt(n) = n
<1>1. IntHalf \in Nat \ {0}
  BY RandAssumption
<1>2. (n + IntHalf) % (2 * IntHalf) \in 0 .. 2 * IntHalf - 1
  <2>1. PICK h \in Nat \ {0} : h = 2 * IntHalf
    BY <1>1
  <2>2. PICK m \in Int : m = n + IntHalf
    BY <1>1
  <2>3. m % h \in 0 .. h - 1
    BY <2>1, <2>2
  <2> QED BY <2>1, <2>2, <2>3
<1>3. ASSUME n \in CInt PROVE (n + IntHalf) % (2 * IntHalf) = n + IntHalf
  <2>1. PICK h \in Nat \ {0} : h = 2 * IntHalf
    BY <1>1
  <2>2. PICK m \in Nat : m = n + IntHalf /\ m < h
    BY <1>1, <1>3, <2>1 DEF CInt
  <2>3. m % h = m
    BY <2>1, <2>2
  <2> QED BY <2>1, <2>2, <2>3
<1> QED BY <1>1, <1>2, <1>3 DEF WrapInt, CInt

(* The bucket of a range that fits is the smallest that makes room for     *)
(* RAND_MAX in as many buckets as the range has values.                    *)
LEMMA BucketOfRange ==
  ASSUME NEW s \in CInt, NEW e \in CInt, s < e, RangeFits(s, e)
  PROVE  /\ Width(s, e) = e - s + 1 /\ Width(s, e) \in Nat \ {0}
         /\ Bucket(s, e) = RAND_MAX \div Width(s, e) + 1
         /\ Bucket(s, e) \in Nat \ {0}
         /\ RAND_MAX < Width(s, e) * Bucket(s, e)
<1>1. Width(s, e) = e - s + 1 /\ Width(s, e) \in Nat \ {0} /\ Width(s, e) > 0
  <2>1. s \in Int /\ e \in Int /\ IntHalf \in Nat \ {0}
    BY RandAssumption DEF CInt
  <2>2. e - s + 1 \in Nat \ {0} /\ e - s + 1 \in CInt
    BY <2>1 DEF CInt, RangeFits
  <2> QED BY <2>2, Wrapping DEF Width
<1>2. Bucket(s, e) = RAND_MAX \div Width(s, e) + 1
  BY <1>1 DEF Bucket, CDiv
<1>3. PICK w \in Nat \ {0} : w = Width(s, e)
  BY <1>1
<1>4. /\ RAND_MAX \div w \in Nat
      /\ RAND_MAX < w * (RAND_MAX \div w + 1)
  BY Division, RandAssumption
<1> QED BY <1>1, <1>2, <1>3, <1>4

(* get_random_in_range stays in a range that fits and does not divide by   *)
(* zero.                                                                   *)
LEMMA RandomInRange ==
  ASSUME NEW s \in CInt, NEW e \in CInt, RangeFits(s, e)
  PROVE  ~ DividesByZero(s, e) /\ InRange(s, e) \subseteq s .. e
<1>0. s \in Int /\ e \in Int /\ s <= e
  BY RandAssumption DEF CInt, RangeFits
<1>1. CASE s = e
  BY <1>0, <1>1 DEF DividesByZero, InRange, get_random_in_range
<1>2. CASE s < e
  <2>1. PICK w \in Nat \ {0}, b \in Nat \ {0} :
          w = Width(s, e) /\ w = e - s + 1 /\ b = Bucket(s, e) /\ RAND_MAX < w * b
    BY <1>2, BucketOfRange
  <2>2. ~ DividesByZero(s, e)
    BY <2>1 DEF DividesByZero
  <2>3. ASSUME NEW rand \in Rand
        PROVE  get_random_in_range(s, e, rand) \in s .. e
    <3>1. rand \in Nat /\ rand <= RAND_MAX /\ RAND_MAX \in Nat
      BY RandAssumption DEF Rand
    <3>2. PICK q \in Nat : q = rand \div b /\ b * q <= rand
      BY <3>1, Division
    <3>3. b * q < b * w
      BY <2>1, <3>1, <3>2
    <3>4. q < w
      BY <3>2, <3>3, Cancel
    <3>5. get_random_in_range(s, e, rand) = WrapInt(s + q)
      <4>1. CDiv(rand, b) = q
        BY <3>2 DEF CDiv
      <4>2. s # e
        BY <1>0, <1>2
      <4> QED BY <2>1, <4>1, <4>2 DEF get_random_in_range
    <3>6. s + q \in s .. e
      BY <1>0, <2>1, <3>2, <3>4
    <3>7. s + q \in Int /\ s + q \in CInt
      BY <3>6, RandAssumption DEF CInt
    <3> QED BY <3>5, <3>6, <3>7, Wrapping
  <2> QED BY <2>2, <2>3 DEF InRange
<1> QED BY <1>0, <1>1, <1>2

(* Where nothing is divided by zero, what is drawn is an int.              *)
LEMMA RandomIsInt ==
  ASSUME NEW s \in CInt, NEW e \in CInt, ~ DividesByZero(s, e)
  PROVE  InRange(s, e) \subseteq Int
<1>1. s \in Int /\ e \in Int /\ RAND_MAX \in Nat /\ CInt \subseteq Int
  BY RandAssumption DEF CInt
<1>2. Width(s, e) \in Int
  <2>1. e - s + 1 \in Int
    BY <1>1
  <2> QED BY <1>1, <2>1, Wrapping DEF Width
<1>3. s # e => Bucket(s, e) \in Int \ {0}
  BY <1>1, <1>2 DEF DividesByZero, Bucket, CDiv
<1>4. ASSUME NEW rand \in Rand PROVE get_random_in_range(s, e, rand) \in Int
  <2>1. s # e => s + CDiv(rand, Bucket(s, e)) \in Int
    BY <1>1, <1>3 DEF CDiv, Rand
  <2>2. s # e => WrapInt(s + CDiv(rand, Bucket(s, e))) \in Int
    BY <1>1, <2>1, Wrapping
  <2> QED BY <1>1, <2>2 DEF get_random_in_range
<1> QED BY <1>4 DEF InRange

(* Every value of a range is drawn for some rand(), as long as the range   *)
(* is not wider than about the square root of RAND_MAX.                    *)
THEOREM EveryValueDrawn ==
  ASSUME NEW s \in CInt, NEW e \in CInt, s <= e,
         (e - s + 1) * (e - s) <= RAND_MAX
  PROVE  InRange(s, e) = s .. e
<1>0. s \in Int /\ e \in Int /\ RAND_MAX \in Nat /\ RAND_MAX < IntHalf
      /\ IntHalf \in Nat
  BY RandAssumption DEF CInt
<1>1. CASE s = e
  <2>1. 0 \in Rand
    BY RandAssumption DEF Rand
  <2> QED BY <1>0, <1>1, <2>1 DEF InRange, get_random_in_range
<1>2. CASE s < e
  <2>0. RangeFits(s, e)
    <3>1. PICK m \in Nat \ {0} : m = e - s
      BY <1>0, <1>2
    <3>2. m + 1 <= (m + 1) * m
      BY <3>1
    <3>3. (m + 1) * m <= RAND_MAX
      BY <1>0, <3>1
    <3> QED BY <1>0, <1>2, <3>1, <3>2, <3>3 DEF RangeFits
  <2>1. PICK w \in Nat \ {0}, b \in Nat \ {0} :
          /\ w = Width(s, e) /\ w = e - s + 1 /\ b = Bucket(s, e)
          /\ b = RAND_MAX \div w + 1
    BY <1>2, <2>0, BucketOfRange
  <2>2. ASSUME NEW v \in s .. e PROVE v \in InRange(s, e)
    <3>1. PICK k \in Nat : k = v - s /\ k <= w - 1
      BY <1>0, <2>1
    <3>2. PICK q \in Nat : q = RAND_MAX \div w /\ w * q <= RAND_MAX
                           /\ RAND_MAX < w * (q + 1)
      BY <1>0, Division
    <3>3. w - 1 <= q
      <4>0. w * (w - 1) <= RAND_MAX
        BY <1>0, <2>1
      <4>1. w * (w - 1) < w * (q + 1)
        BY <1>0, <2>1, <3>2, <4>0
      <4> QED BY <3>2, <4>1, Cancel
    <3>4. k * b <= RAND_MAX
      <4>1. (w - 1) * (q + 1) <= w * q
        BY <3>2, <3>3
      <4>2. k * (q + 1) <= (w - 1) * (q + 1)
        BY <3>1, <3>2
      <4>3. b = q + 1
        BY <2>1, <3>2
      <4> QED BY <3>1, <3>2, <4>1, <4>2, <4>3, <1>0
    <3>5. k * b \in Rand
      BY <3>1, <3>4, RandAssumption DEF Rand
    <3>6. (k * b) \div b = k
      <4>1. PICK d \in Nat : d = (k * b) \div b /\ b * d <= k * b
                             /\ k * b < b * (d + 1)
        <5>1. k * b \in Nat
          BY <3>1, <2>1
        <5> QED BY <5>1, Division
      <4>2. k < d + 1 /\ d < k + 1
        BY <3>1, <4>1, Cancel
      <4> QED BY <3>1, <4>1, <4>2
    <3>7. get_random_in_range(s, e, k * b) = v
      <4>1. s + (k * b) \div b = v
        BY <1>0, <3>1, <3>6
      <4>2. get_random_in_range(s, e, k * b) = WrapInt(v)
        <5>1. CDiv(k * b, b) = (k * b) \div b
          BY DEF CDiv
        <5>2. s # e
          BY <1>0, <1>2
        <5>3. get_random_in_range(s, e, k * b) = WrapInt(s + CDiv(k * b, b))
          BY <2>1, <5>2 DEF get_random_in_range
        <5> QED BY <4>1, <5>1, <5>3
      <4>3. v \in Int /\ v \in CInt
        BY <1>0 DEF CInt
      <4> QED BY <4>2, <4>3, Wrapping
    <3> QED BY <3>5, <3>7 DEF InRange
  <2>3. InRange(s, e) \subseteq s .. e
    BY <2>0, RandomInRange
  <2> QED BY <2>2, <2>3
<1> QED BY <1>0, <1>1, <1>2

(* An accepted draw does not leave the range when it is rounded.           *)
LEMMA ExponentialInRange ==
  ASSUME NEW avg \in Int, NEW s \in Int, NEW e \in Int
  PROVE  get_exponential_random(avg, s, e) \subseteq s .. e
<1>1. ASSUME NEW y \in 0 .. 3 * LogReach * avg, ~ Rejected(y, s, e)
      PROVE  round(y) \in s .. e
  BY <1>1 DEF Rejected, round
<1> QED BY <1>1 DEF get_exponential_random
-----------------------------------------------------------------------------
(* The addresses.                                                          *)

(* The low bits of a typed value, as an int.                               *)
LEMMA AsIntValue ==
  ASSUME NEW typed \in 0 .. 2 * IntHalf
  PROVE  /\ AsInt(typed) \in -IntHalf .. IntHalf - 1
         /\ AsInt(typed) = IF typed < IntHalf THEN typed ELSE typed - 2 * IntHalf
<1>1. IntHalf \in Nat \ {0}
  BY RandAssumption
<1>2. CASE typed < IntHalf
  <2>1. (typed + IntHalf) % (2 * IntHalf) = typed + IntHalf
    BY <1>1, <1>2
  <2> QED BY <1>1, <1>2, <2>1 DEF AsInt, WrapInt
<1>3. CASE typed >= IntHalf
  <2>1. PICK m \in Nat : m = typed + IntHalf - 2 * IntHalf /\ m < 2 * IntHalf
    BY <1>1, <1>3
  <2>2. (typed + IntHalf) % (2 * IntHalf) = m
    BY <1>1, <1>3, <2>1
  <2> QED BY <1>1, <1>3, <2>1, <2>2 DEF AsInt, WrapInt
<1> QED BY <1>1, <1>2, <1>3

(* Membership in a region that does not cross the middle survives.         *)
LEMMA PlaceKept ==
  ASSUME NEW r \in TypedRegion, OneHalf(r), NEW a \in Typed
  PROVE  r.base <= a /\ a < r.past_end
           <=> AsInt(r.base) <= AsInt(a) /\ AsInt(a) < AsInt(r.past_end)
<1>1. /\ IntHalf \in Nat \ {0}
      /\ r.base \in 0 .. 2 * IntHalf /\ r.past_end \in 0 .. 2 * IntHalf
      /\ a \in 0 .. 2 * IntHalf /\ a < 2 * IntHalf /\ r.base < 2 * IntHalf
  BY RandAssumption DEF Typed, TypedRegion
<1>2. /\ AsInt(r.base) = IF r.base < IntHalf THEN r.base ELSE r.base - 2 * IntHalf
      /\ AsInt(r.past_end) =
           IF r.past_end < IntHalf THEN r.past_end ELSE r.past_end - 2 * IntHalf
      /\ AsInt(a) = IF a < IntHalf THEN a ELSE a - 2 * IntHalf
  BY <1>1, AsIntValue
<1> QED BY <1>1, <1>2 DEF OneHalf

(* The lists as the scans leave them.                                      *)
RegionsRead ==
  virtual_regions =
    [ i \in DOMAIN input.regions |->
        [ base     |-> AsInt(input.regions[i].base),
          past_end |-> AsInt(input.regions[i].past_end) ] ]

AddressesRead ==
  virtual_addresses = [ i \in DOMAIN input.addresses |-> AsInt(input.addresses[i]) ]

(* Nothing is yielded before the iterator starts.                          *)
BeforeIterating ==
  /\ params_stage \in {"start", "regions", "addresses", "exited"}
       => total_virtual_address_input_length = 0
  /\ params_stage \in {"start", "regions", "addresses", "parsed", "exited"}
       => yielded = <<>>
  /\ params_stage = "start" <=> input_method = "none"

(* The iterator has yielded address_count addresses, drawn from the one    *)
(* region ...                                                              *)
RandomInv ==
  input_method = "random" =>
    /\ input \in RandomInputs
    /\ total_virtual_address_input_length = input.length
    /\ params_stage \notin {"regions", "addresses"}
    /\ params_stage \in {"parsed", "iterating"} =>
         virtual_regions = <<[ base |-> 0, past_end |-> AsInt(input.past_end) ]>>
    /\ params_stage = "iterating" => address_count = Len(yielded)

(* ... or taken from the front of the list.                                *)
FileInv ==
  input_method = "file" =>
    /\ input \in InputFiles
    /\ params_stage \in {"parsed", "iterating", "printed", "freed", "sigfpe", "undefined"}
         => total_virtual_address_input_length = Len(input.addresses)
    /\ params_stage \in {"addresses", "parsed", "iterating", "printed"} => RegionsRead
    /\ params_stage \in {"parsed", "iterating", "printed"} => AddressesRead
    /\ params_stage = "iterating" => next_virtual_address = Len(yielded) + 1
    /\ Len(yielded) <= Len(input.addresses)
    /\ \A i \in DOMAIN yielded : yielded[i] = AsInt(input.addresses[i])

AddressInv ==
  /\ yielded \in Seq(Int) /\ total_virtual_address_input_length \in Int
  /\ input_method \in {"none", "random", "file"}
  /\ BeforeIterating /\ RandomInv /\ FileInv
  /\ LengthAgrees /\ RandomAddressesMapped

LEMMA AddressInvInit == InputInit => AddressInv
BY DEF InputInit, AddressInv, BeforeIterating, RandomInv, FileInv, LengthAgrees,
       RandomAddressesMapped

(* The steps up to the iterator's first.                                   *)
LEMMA AddressInvParse ==
  ASSUME AddressInv,
         InputStart \/ parse_input_virtual_regions
           \/ parse_input_virtual_addresses \/ init_address_iterator
  PROVE  AddressInv'
<1>1. ASSUME NEW r \in RandomInputs, parse_random_input(r) PROVE AddressInv'
  <2>1. /\ yielded = <<>> /\ yielded' = <<>> /\ r.length \in Int
        /\ params_stage' = "parsed" /\ input_method' = "random" /\ input' = r
        /\ total_virtual_address_input_length' = r.length
        /\ virtual_regions' = <<[ base |-> 0, past_end |-> AsInt(r.past_end) ]>>
    BY <1>1, InputAssumption
       DEF parse_random_input, AddressInv, BeforeIterating, addressVars
  <2> QED BY <2>1 DEF AddressInv, BeforeIterating, RandomInv, FileInv, LengthAgrees,
                      RandomAddressesMapped
<1>2. ASSUME NEW f \in InputFiles, open_input_files(f) PROVE AddressInv'
  <2>1. /\ yielded = <<>> /\ yielded' = <<>> /\ Len(f.addresses) \in Nat
        /\ params_stage' \in {"regions", "exited"}
        /\ input_method' = "file" /\ input' = f
        /\ total_virtual_address_input_length' = 0
    BY <1>2, InputAssumption
       DEF open_input_files, AddressInv, BeforeIterating, addressVars, listVars
  <2> QED BY <2>1 DEF AddressInv, BeforeIterating, RandomInv, FileInv, LengthAgrees,
                      RandomAddressesMapped
<1>3. CASE parse_input_virtual_regions
  <2>1. /\ input_method = "file" /\ input_method' = "file" /\ input' = input
        /\ yielded = <<>> /\ yielded' = <<>> /\ RegionsRead'
        /\ total_virtual_address_input_length' = 0
        /\ params_stage' \in {"addresses", "exited"}
    BY <1>3 DEF parse_input_virtual_regions, AddressInv, BeforeIterating, RandomInv,
                addressVars, RegionsRead
  <2> QED BY <2>1 DEF AddressInv, BeforeIterating, RandomInv, FileInv, LengthAgrees,
                      RandomAddressesMapped
<1>4. CASE parse_input_virtual_addresses
  <2>1. /\ input_method = "file" /\ input_method' = "file" /\ input' = input
        /\ yielded = <<>> /\ yielded' = <<>> /\ RegionsRead' /\ AddressesRead'
        /\ total_virtual_address_input_length' = Len(input.addresses)
        /\ params_stage' = "parsed"
    BY <1>4 DEF parse_input_virtual_addresses, AddressInv, BeforeIterating, RandomInv,
                FileInv, addressVars, RegionsRead, AddressesRead
  <2>2. Len(input.addresses) \in Nat
    BY <2>1, InputAssumption DEF AddressInv, FileInv
  <2> QED BY <2>1, <2>2 DEF AddressInv, BeforeIterating, RandomInv, FileInv,
                            LengthAgrees, RandomAddressesMapped
<1>5. CASE init_address_iterator
  <2>1. /\ params_stage = "parsed" /\ params_stage' = "iterating"
        /\ yielded = <<>> /\ yielded' = <<>> /\ address_count' = 0
        /\ next_virtual_address' = 1
        /\ UNCHANGED <<input_method, input, virtual_regions, virtual_addresses,
                       total_virtual_address_input_length>>
    BY <1>5 DEF init_address_iterator, AddressInv, BeforeIterating, listVars
  <2>2. RegionsRead' = RegionsRead /\ AddressesRead' = AddressesRead
    BY <2>1 DEF RegionsRead, AddressesRead
  <2> QED BY <2>1, <2>2 DEF AddressInv, BeforeIterating, RandomInv, FileInv,
                            LengthAgrees, RandomAddressesMapped
<1> QED BY <1>1, <1>2, <1>3, <1>4, <1>5 DEF InputStart

(* A random address lies in the region, if the region has a size.          *)
LEMMA RandomAddress ==
  ASSUME AddressInv, params_stage = "iterating", input_method = "random",
         input.past_end \in 1 .. IntHalf - 1
  PROVE  /\ ~ DividesByZero(0, LastAddress)
         /\ InRange(0, LastAddress) \subseteq 0 .. input.past_end - 1
<1>1. IntHalf \in Nat /\ input.past_end < IntHalf
  BY RandAssumption
<1>2. AsInt(input.past_end) = input.past_end
  BY <1>1, AsIntValue
<1>3. PICK e \in CInt : e = input.past_end - 1 /\ RangeFits(0, e)
  BY <1>1 DEF CInt, RangeFits
<1>4. LastAddress = e
  <2>1. LastAddress = WrapInt(input.past_end - 1)
    BY <1>2 DEF LastAddress, AddressInv, RandomInv
  <2>2. e \in Int
    BY <1>1, <1>3
  <2> QED BY <1>3, <2>1, <2>2, Wrapping
<1>5. 0 \in CInt
  BY <1>1 DEF CInt
<1> QED BY <1>3, <1>4, <1>5, RandomInRange

LEMMA AddressInvRandom ==
  ASSUME AddressInv, get_random_address \/ address_divides_by_zero
  PROVE  AddressInv'
<1>1. CASE get_random_address
  <2>1. PICK address \in InRange(0, LastAddress) : Yield(address)
    BY <1>1 DEF get_random_address
  <2>2. /\ params_stage = "iterating" /\ input_method = "random"
        /\ total_virtual_address_input_length > address_count
        /\ yielded' = Append(yielded, address)
        /\ address_count' = address_count + 1
        /\ UNCHANGED <<params_stage, input_method, input, virtual_regions,
                       total_virtual_address_input_length>>
    BY <1>1, <2>1 DEF get_random_address, Iterates, has_next_virtual_address, Yield,
                      listVars
  <2>3. input \in RandomInputs /\ input.past_end \in Nat /\ input.length \in Int
        /\ input.past_end \in 0 .. 2 * IntHalf /\ IntHalf \in Nat \ {0}
    BY <2>2, InputAssumption, RandAssumption DEF AddressInv, RandomInv, Typed
  <2>4. address \in Int
    <3>1. AsInt(input.past_end) \in Int
      BY <2>3, AsIntValue
    <3>2. LastAddress \in CInt
      <4>1. AsInt(input.past_end) - 1 \in Int
        BY <3>1
      <4>2. LastAddress = WrapInt(AsInt(input.past_end) - 1)
        BY <2>2 DEF LastAddress, AddressInv, RandomInv
      <4> QED BY <4>1, <4>2, Wrapping
    <3>3. 0 \in CInt
      BY <2>3 DEF CInt
    <3>4. ~ DividesByZero(0, LastAddress)
      BY <1>1 DEF get_random_address
    <3> QED BY <3>2, <3>3, <3>4, RandomIsInt
  <2>5. input.past_end \in 1 .. IntHalf - 1 => address \in 0 .. input.past_end - 1
    BY <2>2, RandomAddress
  <2>6. /\ Len(yielded) \in Nat /\ yielded' \in Seq(Int)
        /\ Len(yielded') = Len(yielded) + 1
        /\ \A i \in DOMAIN yielded' :
             \/ yielded'[i] = address
             \/ i \in DOMAIN yielded /\ yielded'[i] = yielded[i]
    <3>1. yielded \in Seq(Int) /\ yielded' = Append(yielded, address)
      BY <2>2 DEF AddressInv
    <3> QED BY <2>4, <3>1
  <2>7. BeforeIterating' /\ RandomInv' /\ FileInv'
    BY <2>2, <2>6 DEF AddressInv, BeforeIterating, RandomInv, FileInv
  <2>8. LengthAgrees'
    BY <2>2, <2>3, <2>6 DEF AddressInv, RandomInv, LengthAgrees
  <2>9. RandomAddressesMapped'
    BY <2>2, <2>5, <2>6 DEF AddressInv, RandomAddressesMapped
  <2> QED BY <2>2, <2>6, <2>7, <2>8, <2>9 DEF AddressInv
<1>2. CASE address_divides_by_zero
  <2>1. /\ params_stage = "iterating" /\ params_stage' = "sigfpe"
        /\ input_method = "random" /\ DividesByZero(0, LastAddress)
        /\ UNCHANGED <<input_method, input, total_virtual_address_input_length, yielded>>
    BY <1>2 DEF address_divides_by_zero, Iterates, listVars, addressVars
  <2>2. input.past_end \notin 1 .. IntHalf - 1
    BY <2>1, RandomAddress
  <2> QED BY <2>1, <2>2 DEF AddressInv, BeforeIterating, RandomInv, FileInv,
                            LengthAgrees, RandomAddressesMapped
<1> QED BY <1>1, <1>2

LEMMA AddressInvListed ==
  ASSUME AddressInv, get_listed_address
  PROVE  AddressInv'
<1>1. /\ params_stage = "iterating" /\ input_method = "file"
      /\ next_virtual_address \in DOMAIN virtual_addresses
      /\ next_virtual_address' = next_virtual_address + 1
      /\ yielded' = Append(yielded, virtual_addresses[next_virtual_address])
      /\ UNCHANGED <<params_stage, input_method, input, virtual_regions,
                     virtual_addresses, total_virtual_address_input_length>>
  BY DEF get_listed_address, Iterates, has_next_virtual_address, Yield, listVars
<1>2. /\ input \in InputFiles /\ input.addresses \in Seq(Typed)
      /\ Len(input.addresses) \in Nat
      /\ DOMAIN input.addresses = 1 .. Len(input.addresses)
  BY <1>1, InputAssumption DEF AddressInv, FileInv
<1>3. /\ next_virtual_address = Len(yielded) + 1
      /\ next_virtual_address \in DOMAIN input.addresses
      /\ virtual_addresses[next_virtual_address]
           = AsInt(input.addresses[next_virtual_address])
  BY <1>1 DEF AddressInv, FileInv, AddressesRead
<1>4. virtual_addresses[next_virtual_address] \in Int
  <2>1. input.addresses[next_virtual_address] \in Typed /\ IntHalf \in Nat
    BY <1>2, <1>3, InputAssumption, RandAssumption
  <2>2. input.addresses[next_virtual_address] \in 0 .. 2 * IntHalf
    BY <2>1 DEF Typed
  <2> QED BY <1>3, <2>1, <2>2, AsIntValue
<1>5. /\ Len(yielded) \in Nat /\ yielded' \in Seq(Int)
      /\ Len(yielded') = Len(yielded) + 1
      /\ \A i \in DOMAIN yielded' :
           \/ i = Len(yielded) + 1
              /\ yielded'[i] = virtual_addresses[next_virtual_address]
           \/ i \in DOMAIN yielded /\ yielded'[i] = yielded[i]
  BY <1>1, <1>4 DEF AddressInv
<1>6. RegionsRead' = RegionsRead /\ AddressesRead' = AddressesRead
  BY <1>1 DEF RegionsRead, AddressesRead
<1>7. FileInv'
  <2>1. Len(yielded') <= Len(input.addresses)
    BY <1>2, <1>3, <1>5
  <2>2. \A i \in DOMAIN yielded' : yielded'[i] = AsInt(input.addresses[i])
    BY <1>1, <1>3, <1>5 DEF AddressInv, FileInv
  <2>3. next_virtual_address' = Len(yielded') + 1
    BY <1>1, <1>3, <1>5
  <2> QED BY <1>1, <1>6, <2>1, <2>2, <2>3 DEF AddressInv, FileInv
<1>8. LengthAgrees'
  BY <1>1, <1>2, <1>7 DEF AddressInv, FileInv, LengthAgrees
<1> QED BY <1>1, <1>5, <1>7, <1>8
        DEF AddressInv, BeforeIterating, RandomInv, RandomAddressesMapped

LEMMA AddressInvEnd ==
  ASSUME AddressInv,
         print_wild_arguments \/ print_results \/ free_param_store \/ UNCHANGED inputVars
  PROVE  AddressInv'
<1>1. CASE print_wild_arguments
  <2>1. /\ params_stage = "parsed" /\ params_stage' = "undefined"
        /\ UNCHANGED <<input_method, input, total_virtual_address_input_length, yielded>>
    BY <1>1 DEF print_wild_arguments, listVars, addressVars
  <2> QED BY <2>1 DEF AddressInv, BeforeIterating, RandomInv, FileInv, LengthAgrees,
                      RandomAddressesMapped
<1>2. CASE print_results
  <2>1. /\ params_stage = "iterating" /\ params_stage' \in {"undefined", "printed", "failed"}
        /\ params_stage' = "printed" => total_virtual_address_input_length >= 0
        /\ ~ has_next_virtual_address
        /\ UNCHANGED <<input_method, input, virtual_regions, virtual_addresses,
                       total_virtual_address_input_length, yielded>>
    BY <1>2 DEF print_results, listVars, addressVars, AddressInv, RandomInv, FileInv
  <2>2. Len(yielded) \in Nat
    BY DEF AddressInv
  <2>3. ASSUME input_method = "random", total_virtual_address_input_length >= 0
        PROVE  Len(yielded) = total_virtual_address_input_length
    <3>1. total_virtual_address_input_length \in Int
      BY <2>3, InputAssumption DEF AddressInv, RandomInv
    <3> QED BY <2>1, <2>2, <2>3, <3>1
            DEF AddressInv, RandomInv, LengthAgrees, has_next_virtual_address
  <2>4. ASSUME input_method = "file"
        PROVE  Len(yielded) = total_virtual_address_input_length
    <3>1. /\ Len(input.addresses) \in Nat
          /\ DOMAIN input.addresses = 1 .. Len(input.addresses)
      BY <2>4, InputAssumption DEF AddressInv, FileInv
    <3>2. DOMAIN virtual_addresses = DOMAIN input.addresses
      BY <2>1, <2>4 DEF AddressInv, FileInv, AddressesRead
    <3> QED BY <2>1, <2>2, <2>4, <3>1, <3>2
            DEF AddressInv, FileInv, has_next_virtual_address
  <2>5. input_method \in {"random", "file"}
    BY <2>1 DEF AddressInv, BeforeIterating
  <2>6. LengthAgrees'
    BY <2>1, <2>2, <2>3, <2>4, <2>5 DEF AddressInv, LengthAgrees
  <2>7. RegionsRead' = RegionsRead /\ AddressesRead' = AddressesRead
    BY <2>1 DEF RegionsRead, AddressesRead
  <2> QED BY <2>1, <2>6, <2>7 DEF AddressInv, BeforeIterating, RandomInv, FileInv,
                                  RandomAddressesMapped
<1>3. CASE free_param_store
  <2>1. /\ params_stage = "printed" /\ params_stage' = "freed"
        /\ UNCHANGED <<input_method, input, total_virtual_address_input_length, yielded>>
    BY <1>3 DEF free_param_store, addressVars
  <2> QED BY <2>1 DEF AddressInv, BeforeIterating, RandomInv, FileInv, LengthAgrees,
                      RandomAddressesMapped
<1>4. CASE UNCHANGED inputVars
  <2>1. RegionsRead' = RegionsRead /\ AddressesRead' = AddressesRead
    BY <1>4 DEF RegionsRead, AddressesRead, inputVars, listVars
  <2> QED BY <1>4, <2>1 DEF AddressInv, BeforeIterating, RandomInv, FileInv,
             LengthAgrees, RandomAddressesMapped, inputVars, listVars, addressVars
<1> QED BY <1>1, <1>2, <1>3, <1>4

THEOREM AddressInvariance == InputSpec => []AddressInv
<1>1. AddressInv /\ [InputNext]_inputVars => AddressInv'
  BY AddressInvParse, AddressInvRandom, AddressInvListed, AddressInvEnd
     DEF InputNext, InputEnded
<1> QED BY <1>1, AddressInvInit, PTL DEF InputSpec

(* Whatever the input, the iterator yields exactly as many addresses as    *)
(* the result store has places.                                            *)
THEOREM LengthsAgree == InputSpec => []LengthAgrees
<1>1. AddressInv => LengthAgrees
  BY DEF AddressInv
<1> QED BY <1>1, AddressInvariance, PTL

(* Random addresses lie in the memory, for every size but 0 that fits in   *)
(* an int and every RAND_MAX that is one.                                  *)
THEOREM RandomInMemory == InputSpec => []RandomAddressesMapped
<1>1. AddressInv => RandomAddressesMapped
  BY DEF AddressInv
<1> QED BY <1>1, AddressInvariance, PTL

(* Parsing keeps every address in or out of the regions it was typed for,  *)
(* unless a region crosses the middle of the address space.                *)
THEOREM PlacesKept == InputSpec => []AddressesKeepTheirPlace
<1>1. AddressInv => AddressesKeepTheirPlace
  <2> SUFFICES ASSUME AddressInv, input_method = "file",
                      params_stage \in {"iterating", "printed"},
                      \A i \in DOMAIN input.regions : OneHalf(input.regions[i]),
                      NEW n \in DOMAIN yielded
               PROVE  Contains(virtual_regions, yielded[n])
                        <=> Contains(input.regions, input.addresses[n])
    BY DEF AddressesKeepTheirPlace
  <2>1. /\ input \in InputFiles /\ RegionsRead
        /\ n \in DOMAIN input.addresses /\ yielded[n] = AsInt(input.addresses[n])
    BY InputAssumption DEF AddressInv, FileInv
  <2>2. /\ input.addresses[n] \in Typed
        /\ \A i \in DOMAIN input.regions : input.regions[i] \in TypedRegion
    BY <2>1, InputAssumption
  <2>3. ASSUME NEW i \in DOMAIN input.regions
        PROVE  virtual_regions[i].base <= yielded[n] /\ yielded[n] < virtual_regions[i].past_end
                 <=> input.regions[i].base <= input.addresses[n]
                     /\ input.addresses[n] < input.regions[i].past_end
    <3>1. /\ virtual_regions[i].base = AsInt(input.regions[i].base)
          /\ virtual_regions[i].past_end = AsInt(input.regions[i].past_end)
      BY <2>1 DEF RegionsRead
    <3> QED BY <2>1, <2>2, <3>1, PlaceKept
  <2>4. DOMAIN virtual_regions = DOMAIN input.regions
    BY <2>1 DEF RegionsRead
  <2> QED BY <2>3, <2>4 DEF Contains
<1> QED BY <1>1, AddressInvariance, PTL

-----------------------------------------------------------------------------
(* The processes.                                                          *)

Drawable(d) == d.method \in {"fixed", "uniform", "exponential"}

DrawInv ==
  /\ param_mode \in {"none", "C", "F"}
  /\ stage = "start" => param_mode = "none"
  /\ stage = "scanning" => param_mode = "F"
  /\ stage \in {"start", "scanning", "parsed", "exited"} => delivered = <<>>
  /\ param_mode = "C" =>
       /\ delivered \in Seq([length : Int, priority : Int, interarrival_time : Int])
       /\ param_store \in CommandLines
       /\ stage # "exited" =>
            Drawable(param_store.length) /\ Drawable(param_store.interarrival)

(* What either distribution yields is in its range, and a whole number.    *)
LEMMA DistributedWithin ==
  ASSUME NEW c \in CommandLines, NEW d \in {c.length, c.interarrival},
         Drawable(d), ~ Crashes(d), NEW n \in Distributed(d)
  PROVE  n \in Int /\ Within(d, n)
<1>1. /\ d.min \in CInt /\ d.max \in CInt
      /\ d.min \in Int /\ d.max \in Int /\ d.average \in Int
  <2>1. CInt \subseteq Int
    BY RandAssumption DEF CInt
  <2> QED BY <2>1, WorkloadAssumption
<1>2. CASE d.method = "fixed"
  BY <1>1, <1>2 DEF Distributed, Within
<1>3. CASE d.method = "uniform"
  <2>1. n \in InRange(d.min, d.max)
    BY <1>3 DEF Distributed
  <2>2. ~ DividesByZero(d.min, d.max)
    BY <1>3 DEF Crashes
  <2>3. n \in Int
    BY <1>1, <2>1, <2>2, RandomIsInt
  <2>4. RangeFits(d.min, d.max) => n \in d.min .. d.max
    BY <1>1, <2>1, RandomInRange
  <2> QED BY <1>3, <2>3, <2>4 DEF Within
<1>4. CASE d.method = "exponential"
  <2>1. n \in get_exponential_random(d.average, d.min, d.max)
    BY <1>4 DEF Distributed
  <2>2. n \in d.min .. d.max
    BY <1>1, <2>1, ExponentialInRange
  <2> QED BY <1>1, <1>4, <2>2 DEF Within
<1> QED BY <1>2, <1>3, <1>4 DEF Drawable

(* Mode C: one round of the iterator.                                      *)
LEMMA DrawInvRandom ==
  ASSUME DrawInv, DrawnInRange, get_random_process
  PROVE  DrawInv' /\ DrawnInRange'
<1>1. /\ stage = "iterating" /\ param_mode = "C" /\ ~ DrawCrashes
      /\ UNCHANGED <<stage, param_mode, param_store>>
  BY DEF get_random_process, Deliver
<1>2. PICK p \in InRange(param_store.min_priority, param_store.max_priority),
           l \in Distributed(param_store.length),
           t \in Distributed(param_store.interarrival) :
        delivered' = Append(delivered, Process(l, p, t))
  BY DEF get_random_process, Deliver
<1>3. PICK c \in CommandLines : c = param_store
  BY <1>1 DEF DrawInv
<1>4. /\ c.min_priority \in CInt /\ c.max_priority \in CInt
      /\ Drawable(c.length) /\ Drawable(c.interarrival)
      /\ ~ DividesByZero(c.min_priority, c.max_priority)
      /\ ~ Crashes(c.length) /\ ~ Crashes(c.interarrival)
  BY <1>1, <1>3, WorkloadAssumption DEF DrawInv, DrawCrashes
<1>5. p \in Int /\ (RangeFits(c.min_priority, c.max_priority) =>
                      p \in c.min_priority .. c.max_priority)
  BY <1>2, <1>3, <1>4, RandomIsInt, RandomInRange
<1>6. /\ l \in Int /\ Within(c.length, l)
      /\ t \in Int /\ Within(c.interarrival, t)
  BY <1>2, <1>3, <1>4, DistributedWithin
<1>7. PICK D : D = [length : Int, priority : Int, interarrival_time : Int]
  OBVIOUS
<1>8. PICK process \in D :
        /\ delivered' = Append(delivered, process) /\ process.length = l
        /\ process.priority = p /\ process.interarrival_time = t
  <2>1. Process(l, p, t) \in D
    BY <1>5, <1>6, <1>7 DEF Process
  <2>2. /\ Process(l, p, t).length = l /\ Process(l, p, t).priority = p
        /\ Process(l, p, t).interarrival_time = t
    BY DEF Process
  <2> QED BY <1>2, <2>1, <2>2
<1>9. delivered \in Seq(D)
  BY <1>1, <1>7 DEF DrawInv
<1>10. /\ delivered' \in Seq(D)
       /\ \A i \in DOMAIN delivered' :
            \/ delivered'[i] = process
            \/ i \in DOMAIN delivered /\ delivered'[i] = delivered[i]
  BY <1>8, <1>9
<1>11. DrawInv'
  BY <1>1, <1>7, <1>10 DEF DrawInv
<1>12. ASSUME NEW i \in DOMAIN delivered'
       PROVE  /\ RangeFits(c.min_priority, c.max_priority) =>
                   delivered'[i].priority \in c.min_priority .. c.max_priority
              /\ Within(c.length, delivered'[i].length)
              /\ Within(c.interarrival, delivered'[i].interarrival_time)
  <2>1. CASE delivered'[i] = process
    BY <2>1, <1>5, <1>6, <1>8
  <2>2. CASE i \in DOMAIN delivered /\ delivered'[i] = delivered[i]
    BY <2>2, <1>1, <1>3 DEF DrawnInRange
  <2> QED BY <1>10, <2>1, <2>2
<1> QED BY <1>1, <1>3, <1>11, <1>12 DEF DrawnInRange

(* A division by zero needs a range that does not fit.                     *)
LEMMA CrashNeedsMisfit ==
  ASSUME NEW c \in CommandLines, param_store = c, DrawCrashes
  PROVE  \/ ~ RangeFits(c.min_priority, c.max_priority)
         \/ \E d \in {c.length, c.interarrival} :
              d.method = "uniform" /\ ~ RangeFits(d.min, d.max)
<1>1. /\ c.min_priority \in CInt /\ c.max_priority \in CInt
      /\ \A d \in {c.length, c.interarrival} : d.min \in CInt /\ d.max \in CInt
  BY WorkloadAssumption
<1>2. CASE DividesByZero(c.min_priority, c.max_priority)
  BY <1>1, <1>2, RandomInRange
<1>3. ASSUME NEW d \in {c.length, c.interarrival}, Crashes(d)
      PROVE  d.method = "uniform" /\ ~ RangeFits(d.min, d.max)
  BY <1>1, <1>3, RandomInRange DEF Crashes
<1> QED BY <1>2, <1>3 DEF DrawCrashes

LEMMA DrawInvStep ==
  ASSUME DrawInv, DrawnInRange, [WorkloadNext]_workloadVars
  PROVE  DrawInv' /\ DrawnInRange'
<1>1. ASSUME NEW c \in CommandLines, parse_commandline_arguments(c)
      PROVE  DrawInv' /\ DrawnInRange'
  <2>1. /\ delivered = <<>> /\ delivered' = <<>>
        /\ param_mode' = "C" /\ param_store' = c
        /\ stage' = IF "other" \in {c.length.method, c.interarrival.method}
                    THEN "exited" ELSE "parsed"
    BY <1>1 DEF parse_commandline_arguments, DrawInv, iteratorVars
  <2>2. c.length.method \in Methods /\ c.interarrival.method \in Methods
    BY WorkloadAssumption
  <2> QED BY <2>1, <2>2 DEF DrawInv, DrawnInRange, Drawable, Methods
<1>2. ASSUME NEW f \in WorkloadFiles, open_workload_file(f)
      PROVE  DrawInv' /\ DrawnInRange'
  BY <1>2 DEF open_workload_file, DrawInv, DrawnInRange, iteratorVars
<1>3. CASE invalid_mode
  BY <1>3 DEF invalid_mode, DrawInv, DrawnInRange, iteratorVars
<1>4. CASE scan_process \/ end_of_scan
  BY <1>4 DEF scan_process, end_of_scan, DrawInv, DrawnInRange, iteratorVars
<1>5. CASE init_params_iterator
  BY <1>5 DEF init_params_iterator, DrawInv, DrawnInRange
<1>6. CASE get_random_process
  BY <1>6, DrawInvRandom
<1>7. CASE draw_divides_by_zero
  <2>1. /\ stage = "iterating" /\ param_mode = "C" /\ DrawCrashes
        /\ stage' = "sigfpe" /\ UNCHANGED <<param_mode, param_store, delivered>>
    BY <1>7 DEF draw_divides_by_zero, iteratorVars
  <2>2. PICK c \in CommandLines : param_store = c
    BY <2>1 DEF DrawInv
  <2>3. \/ ~ RangeFits(c.min_priority, c.max_priority)
        \/ \E d \in {c.length, c.interarrival} :
             d.method = "uniform" /\ ~ RangeFits(d.min, d.max)
    BY <2>1, <2>2, CrashNeedsMisfit
  <2> QED BY <2>1, <2>2, <2>3 DEF DrawInv, DrawnInRange
<1>8. CASE get_listed_process
  <2>1. /\ stage = "iterating" /\ param_mode = "F"
        /\ delivered' = Append(delivered, processes[next_process_params])
        /\ UNCHANGED <<stage, param_mode, param_store>>
    BY <1>8 DEF get_listed_process, Deliver
  <2> QED BY <2>1 DEF DrawInv, DrawnInRange
<1>9. CASE follow_wild_pointer \/ free_arguments
  BY <1>9 DEF follow_wild_pointer, free_arguments, DrawInv, DrawnInRange, iteratorVars
<1>10. CASE UNCHANGED workloadVars
  BY <1>10 DEF workloadVars, iteratorVars, DrawInv, DrawnInRange
<1> QED
  BY <1>1, <1>2, <1>3, <1>4, <1>5, <1>6, <1>7, <1>8, <1>9, <1>10
     DEF WorkloadNext, WorkloadStart, WorkloadEnded, draw_again

(* The processes of a command line are drawn within its ranges, for every  *)
(* exponential range, and for every uniform one in order whose number of   *)
(* values is an int: the wider ones and the exchanged ones may divide by   *)
(* zero or leave the range.                                                *)
THEOREM DrawsStayInRange == WorkloadSpec => []DrawnInRange
<1>1. WorkloadInit => DrawInv /\ DrawnInRange
  BY DEF WorkloadInit, DrawInv, DrawnInRange
<1> QED BY <1>1, DrawInvStep, PTL DEF WorkloadSpec

-----------------------------------------------------------------------------
(* The lines of a workload file.                                           *)

ProcessParams == [length : Int, priority : Int, interarrival_time : Int]

LinesBefore(k) == { j \in Lines : j < k }

(* The tokens consumed so far are whole lines ...                          *)
FrontIsLines ==
  /\ scanned \in 0 .. Len(param_store.tokens)
  /\ \A k \in 1 .. scanned :
       IsNext(k, "PL") \/ (IsNext(k, "IAT") /\ IsNext(k - 1, "PL"))
  /\ IsNext(scanned, "PL") => ~ IsNext(scanned + 1, "IAT")

(* ... each of which gave a process.                                       *)
ListFollowsLines ==
  /\ processes \in Seq(ProcessParams)
  /\ Len(processes) = Cardinality(LinesBefore(scanned + 1))
  /\ \A n \in DOMAIN processes :
       \E j \in Lines : Cardinality(LinesBefore(j)) = n - 1 /\ processes[n] = Node(j)

(* The iterator has yielded the front of the list.                         *)
CursorInList ==
  /\ next_process_params = Len(delivered) + 1 /\ Len(delivered) <= Len(processes)
  /\ \A n \in DOMAIN delivered : delivered[n] = processes[n]

FileListInv ==
  /\ param_store \in WorkloadFiles
  /\ stage \in {"scanning", "parsed", "iterating", "freed", "undefined", "exited"}
  /\ delivered \in Seq(ProcessParams)
  /\ stage \in {"scanning", "parsed"} => delivered = <<>>
  /\ stage \in {"scanning", "parsed", "iterating"} => FrontIsLines /\ ListFollowsLines
  /\ stage \in {"parsed", "iterating"} =>
       /\ LinesBefore(scanned + 1) = Lines
       /\ wild => processes = <<>>
  /\ stage = "iterating" => CursorInList

ListInv ==
  /\ stage = "start" =>
       param_mode = "none" /\ processes = <<>> /\ scanned = 0 /\ delivered = <<>>
  /\ param_mode = "F" => FileListInv
  /\ LinesInOrder

LEMMA TokensAreListed ==
  ASSUME NEW f \in WorkloadFiles, param_store = f
  PROVE  /\ Len(f.tokens) \in Nat /\ DOMAIN f.tokens = 1 .. Len(f.tokens)
         /\ Lines \subseteq 1 .. Len(f.tokens)
         /\ IsFiniteSet(Lines)
         /\ \A k : IsFiniteSet(LinesBefore(k)) /\ Cardinality(LinesBefore(k)) \in Nat
<1>1. f.tokens \in Seq(Token)
  BY WorkloadAssumption
<1>2. Len(f.tokens) \in Nat /\ DOMAIN f.tokens = 1 .. Len(f.tokens)
  BY <1>1
<1>3. Lines \subseteq 1 .. Len(f.tokens)
  BY <1>2 DEF Lines
<1>4. IsFiniteSet(Lines)
  <2>1. \A n \in Nat : IsFiniteSet(1 .. n)
    BY FS_Interval
  <2> QED BY <1>2, <1>3, <2>1, FS_Subset
<1>5. ASSUME NEW k PROVE IsFiniteSet(LinesBefore(k)) /\ Cardinality(LinesBefore(k)) \in Nat
  BY <1>4, FS_Subset, FS_CardinalityType DEF LinesBefore
<1> QED BY <1>2, <1>3, <1>4, <1>5

LEMMA NodeIsProcess ==
  ASSUME NEW f \in WorkloadFiles, param_store = f, NEW k, IsNext(k, "PL")
  PROVE  Node(k) \in ProcessParams
<1>1. f.tokens \in Seq(Token) /\ k \in DOMAIN f.tokens
  BY WorkloadAssumption DEF IsNext
<1>2. f.tokens[k] \in [kind : {"PL"}, length : Int, priority : Int]
  <2>1. f.tokens[k] \in Token /\ f.tokens[k].kind = "PL"
    BY <1>1 DEF IsNext
  <2> QED BY <2>1 DEF Token
<1>3. ASSUME IsNext(k + 1, "IAT") PROVE f.tokens[k + 1].time \in Int
  <2>1. f.tokens[k + 1] \in Token /\ f.tokens[k + 1].kind = "IAT"
    BY <1>1, <1>3 DEF IsNext
  <2> QED BY <2>1 DEF Token
<1> QED BY <1>2, <1>3 DEF Node, Process, ProcessParams

(* Behind whole lines a PL token begins a line ...                         *)
LEMMA NextIsLine ==
  ASSUME NEW f \in WorkloadFiles, param_store = f, FrontIsLines,
         IsNext(scanned + 1, "PL")
  PROVE  scanned + 1 \in Lines
BY TokensAreListed DEF FrontIsLines, Lines, IsNext

(* ... and there is no line behind any other.                              *)
LEMMA NoLineBehind ==
  ASSUME NEW f \in WorkloadFiles, param_store = f, FrontIsLines,
         ~ IsNext(scanned + 1, "PL")
  PROVE  LinesBefore(scanned + 1) = Lines
<1>1. scanned \in Nat
  BY TokensAreListed DEF FrontIsLines
<1>2. ASSUME NEW j \in Lines, ~ (j < scanned + 1) PROVE FALSE
  <2>1. j \in Nat /\ j # scanned + 1
    <3>1. IsNext(j, "PL")
      BY DEF Lines
    <3> QED BY <3>1, TokensAreListed
  <2>2. scanned + 1 \in 1 .. j - 1
    BY <1>1, <1>2, <2>1
  <2>3. IsNext(scanned + 1, "IAT") /\ IsNext((scanned + 1) - 1, "PL")
    BY <2>2 DEF Lines
  <2> QED BY <1>1, <2>3 DEF FrontIsLines
<1> QED BY <1>2 DEF LinesBefore

(* A round of the scan takes one line and gives its process.               *)
LEMMA ScanRound ==
  ASSUME NEW f \in WorkloadFiles, param_store = f, FrontIsLines, ListFollowsLines,
         scan_process
  PROVE  FrontIsLines' /\ ListFollowsLines'
<1> DEFINE k == scanned + 1
<1>1. /\ IsNext(k, "PL") /\ processes' = Append(processes, Node(k))
      /\ scanned' = IF IsNext(k + 1, "IAT") THEN k + 1 ELSE k
      /\ param_store' = f
  <2>1. scanned + 2 = k + 1
    BY TokensAreListed DEF FrontIsLines
  <2> QED BY <2>1 DEF scan_process
<1>2. /\ Lines' = Lines /\ \A n : LinesBefore(n)' = LinesBefore(n)
      /\ \A n : Node(n)' = Node(n)
  BY <1>1 DEF Lines, LinesBefore, IsNext, Node
<1>3. k \in Lines /\ k \in Nat /\ scanned \in Nat
  BY <1>1, NextIsLine, TokensAreListed DEF FrontIsLines
<1>4. FrontIsLines'
  <2>1. \A n \in 1 .. k : IsNext(n, "PL") \/ (IsNext(n, "IAT") /\ IsNext(n - 1, "PL"))
    BY <1>1, <1>3 DEF FrontIsLines
  <2>2. CASE IsNext(k + 1, "IAT")
    <3>1. scanned' = k + 1 /\ k + 1 \in 0 .. Len(f.tokens)
      BY <1>1, <1>3, <2>2, TokensAreListed DEF IsNext
    <3>2. ~ IsNext(k + 1, "PL") /\ (k + 1) - 1 = k
      BY <1>3, <2>2 DEF IsNext
    <3>3. \A n \in 1 .. k + 1 :
            IsNext(n, "PL") \/ (IsNext(n, "IAT") /\ IsNext(n - 1, "PL"))
      BY <1>1, <1>3, <2>1, <2>2, <3>2
    <3> QED BY <1>1, <3>1, <3>2, <3>3 DEF FrontIsLines, IsNext
  <2>3. CASE ~ IsNext(k + 1, "IAT")
    <3>1. scanned' = k /\ k \in 0 .. Len(f.tokens)
      BY <1>1, <1>3, <2>3, TokensAreListed DEF IsNext
    <3> QED BY <1>1, <2>1, <2>3, <3>1 DEF FrontIsLines, IsNext
  <2> QED BY <2>2, <2>3
<1>5. LinesBefore(scanned' + 1) = LinesBefore(k) \cup {k} /\ k \notin LinesBefore(k)
  <2>1. k + 1 \in Lines => ~ IsNext(k + 1, "IAT")
    BY DEF Lines, IsNext
  <2>2. \A j \in Lines : j < scanned' + 1 <=> j < k \/ j = k
    BY <1>1, <1>3, <2>1, TokensAreListed
  <2> QED BY <1>3, <2>2 DEF LinesBefore
<1>6. Cardinality(LinesBefore(scanned' + 1)) = Cardinality(LinesBefore(k)) + 1
  BY <1>5, TokensAreListed, FS_AddElement
<1>7. Len(processes) = Cardinality(LinesBefore(k)) /\ processes \in Seq(ProcessParams)
  BY DEF ListFollowsLines
<1>8. /\ processes' \in Seq(ProcessParams) /\ Len(processes') = Len(processes) + 1
      /\ \A n \in DOMAIN processes' :
           \/ n \in DOMAIN processes /\ processes'[n] = processes[n]
           \/ n = Len(processes) + 1 /\ processes'[n] = Node(k)
  BY <1>1, <1>7, NodeIsProcess
<1>9. ASSUME NEW n \in DOMAIN processes'
      PROVE  \E j \in Lines :
               Cardinality(LinesBefore(j)) = n - 1 /\ processes'[n] = Node(j)
  <2>1. CASE n \in DOMAIN processes /\ processes'[n] = processes[n]
    BY <2>1 DEF ListFollowsLines
  <2>2. CASE n = Len(processes) + 1 /\ processes'[n] = Node(k)
    <3>1. Cardinality(LinesBefore(k)) = n - 1
      BY <1>7, <2>2, TokensAreListed
    <3> QED BY <1>3, <2>2, <3>1
  <2> QED BY <1>8, <2>1, <2>2
<1>10. ListFollowsLines'
  BY <1>1, <1>2, <1>6, <1>7, <1>8, <1>9 DEF ListFollowsLines
<1> QED BY <1>4, <1>10

(* What a step leaves alone of the file and the list.                      *)
LEMMA ListKept ==
  ASSUME UNCHANGED <<param_store, scanned, processes>>
  PROVE  /\ Lines' = Lines /\ LinesBefore(scanned + 1)' = LinesBefore(scanned + 1)
         /\ FrontIsLines => FrontIsLines'
         /\ ListFollowsLines => ListFollowsLines'
<1>1. /\ Lines' = Lines /\ \A k : LinesBefore(k)' = LinesBefore(k)
      /\ \A k : Node(k)' = Node(k)
  BY DEF Lines, LinesBefore, IsNext, Node
<1>2. LinesBefore(scanned + 1)' = LinesBefore(scanned + 1)
  BY <1>1 DEF LinesBefore
<1>3. FrontIsLines => FrontIsLines'
  BY DEF FrontIsLines, IsNext
<1>4. ListFollowsLines => ListFollowsLines'
  BY <1>1, <1>2 DEF ListFollowsLines
<1> QED BY <1>1, <1>2, <1>3, <1>4

LEMMA OrderKept ==
  ASSUME LinesInOrder, UNCHANGED <<param_mode, param_store, delivered>>,
         stage' = "freed" => stage = "freed" \/ Len(delivered) = Cardinality(Lines),
         stage' = "undefined" => stage = "undefined" \/ Lines = {}
  PROVE  LinesInOrder'
<1>1. Lines' = Lines /\ \A k : Node(k)' = Node(k)
  BY DEF Lines, IsNext, Node
<1> QED BY <1>1 DEF LinesInOrder

LEMMA ListInvStep ==
  ASSUME ListInv, [WorkloadNext]_workloadVars
  PROVE  ListInv'
<1>1. ASSUME NEW c \in CommandLines, parse_commandline_arguments(c) PROVE ListInv'
  BY <1>1 DEF parse_commandline_arguments, ListInv, LinesInOrder
<1>2. ASSUME NEW f \in WorkloadFiles, open_workload_file(f) PROVE ListInv'
  <2>1. /\ param_mode' = "F" /\ param_store' = f
        /\ stage' = IF f.opens THEN "scanning" ELSE "exited"
        /\ processes' = <<>> /\ scanned' = 0 /\ delivered' = <<>>
    BY <1>2 DEF open_workload_file, ListInv, iteratorVars
  <2>2. f.tokens \in Seq(Token)
    BY WorkloadAssumption
  <2>3. FrontIsLines'
    BY <2>1, <2>2 DEF FrontIsLines, IsNext
  <2>4. LinesBefore(scanned + 1)' = {}
    BY <2>1, <2>2 DEF LinesBefore, Lines
  <2>5. Cardinality(LinesBefore(scanned + 1)') = 0
    BY <2>4, FS_EmptySet
  <2>6. ListFollowsLines'
    BY <2>1, <2>5 DEF ListFollowsLines
  <2> QED BY <2>1, <2>3, <2>6 DEF ListInv, FileListInv, LinesInOrder
<1>3. CASE invalid_mode
  BY <1>3 DEF invalid_mode, ListInv, LinesInOrder
<1>4. CASE param_mode # "F" /\ param_mode' = param_mode /\ stage' # "start"
  BY <1>4 DEF ListInv, LinesInOrder
<1>5. CASE UNCHANGED workloadVars
  <2>1. /\ UNCHANGED <<stage, param_mode, param_store, scanned, processes, wild>>
        /\ UNCHANGED <<next_process_params, delivered>>
    BY <1>5 DEF workloadVars, iteratorVars
  <2>2. LinesInOrder'
    BY <2>1, OrderKept DEF ListInv
  <2>3. FileListInv => FileListInv'
    BY <2>1, ListKept DEF FileListInv, CursorInList
  <2> QED BY <2>1, <2>2, <2>3 DEF ListInv
<1>6. CASE param_mode = "F" /\ scan_process
  <2>1. PICK f \in WorkloadFiles : param_store = f
    BY <1>6 DEF ListInv, FileListInv
  <2>2. /\ stage = "scanning" /\ stage' = "scanning" /\ param_mode' = "F"
        /\ param_store' = f /\ delivered' = <<>>
    BY <1>6, <2>1 DEF scan_process, ListInv, FileListInv, iteratorVars
  <2>3. FrontIsLines' /\ ListFollowsLines'
    BY <1>6, <2>1, <2>2, ScanRound DEF ListInv, FileListInv
  <2> QED BY <2>2, <2>3 DEF ListInv, FileListInv, LinesInOrder
<1>7. CASE param_mode = "F" /\ end_of_scan
  <2>1. PICK f \in WorkloadFiles : param_store = f
    BY <1>7 DEF ListInv, FileListInv
  <2>2. /\ stage = "scanning" /\ ~ IsNext(scanned + 1, "PL")
        /\ stage' = "parsed" /\ param_mode' = "F"
        /\ wild' \in IF processes = <<>> THEN BOOLEAN ELSE {FALSE}
        /\ delivered = <<>> /\ FrontIsLines /\ ListFollowsLines
        /\ UNCHANGED <<param_store, scanned, processes, delivered>>
    BY <1>7 DEF end_of_scan, ListInv, FileListInv, iteratorVars
  <2>3. LinesBefore(scanned + 1) = Lines
    BY <2>1, <2>2, NoLineBehind
  <2>4. LinesInOrder'
    BY <1>7, <2>2, OrderKept DEF ListInv
  <2>5. FileListInv'
    BY <1>7, <2>2, <2>3, ListKept DEF ListInv, FileListInv
  <2> QED BY <2>2, <2>4, <2>5 DEF ListInv
<1>8. CASE param_mode = "F" /\ init_params_iterator
  <2>1. /\ stage = "parsed" /\ stage' = "iterating" /\ param_mode' = "F"
        /\ next_process_params' = 1 /\ delivered = <<>>
        /\ UNCHANGED <<param_store, scanned, processes, wild, delivered>>
    BY <1>8 DEF init_params_iterator, ListInv, FileListInv
  <2>2. CursorInList'
    BY <2>1 DEF CursorInList, ListInv, FileListInv, ListFollowsLines
  <2>3. LinesInOrder'
    BY <1>8, <2>1, OrderKept DEF ListInv
  <2>4. FileListInv'
    BY <1>8, <2>1, <2>2, ListKept DEF ListInv, FileListInv
  <2> QED BY <2>1, <2>3, <2>4 DEF ListInv
<1>9. CASE param_mode = "F" /\ get_listed_process
  <2>1. /\ stage = "iterating" /\ stage' = "iterating" /\ param_mode' = "F"
        /\ next_process_params \in DOMAIN processes
        /\ next_process_params' = next_process_params + 1
        /\ delivered' = Append(delivered, processes[next_process_params])
        /\ UNCHANGED <<param_store, scanned, processes, wild>>
    BY <1>9 DEF get_listed_process, has_next_process, Deliver
  <2>2. FileListInv /\ CursorInList /\ ListFollowsLines /\ FrontIsLines
    BY <1>9, <2>1 DEF ListInv, FileListInv
  <2>3. delivered' \in Seq(ProcessParams) /\ CursorInList'
    BY <2>1, <2>2 DEF FileListInv, CursorInList, ListFollowsLines
  <2>4. FrontIsLines' /\ ListFollowsLines'
    BY <2>1, <2>2, ListKept
  <2>5. FileListInv'
    BY <2>1, <2>2, <2>3, <2>4, ListKept DEF FileListInv
  <2>6. ASSUME NEW n \in DOMAIN delivered'
        PROVE  \E j \in Lines : Cardinality(LinesBefore(j)) = n - 1
                                 /\ delivered'[n] = Node(j)
    <3>1. n \in DOMAIN processes /\ delivered'[n] = processes[n]
      BY <2>1, <2>2, <2>3 DEF CursorInList, ListFollowsLines
    <3> QED BY <2>2, <3>1 DEF ListFollowsLines
  <2>7. Lines' = Lines /\ \A k : Node(k)' = Node(k)
    BY <2>1 DEF Lines, IsNext, Node
  <2>8. LinesInOrder'
    BY <2>1, <2>6, <2>7 DEF LinesInOrder, LinesBefore
  <2> QED BY <2>1, <2>5, <2>8 DEF ListInv
<1>10. CASE param_mode = "F" /\ follow_wild_pointer
  <2>1. PICK f \in WorkloadFiles : param_store = f
    BY <1>10 DEF ListInv, FileListInv
  <2>2. /\ stage = "iterating" /\ stage' = "undefined" /\ wild /\ param_mode' = "F"
        /\ UNCHANGED <<param_store, delivered>>
    BY <1>10 DEF follow_wild_pointer, iteratorVars
  <2>3. Cardinality(Lines) = 0
    BY <1>10, <2>2 DEF ListInv, FileListInv, ListFollowsLines
  <2>4. Lines = {}
    BY <2>1, <2>3, TokensAreListed, FS_EmptySet
  <2>5. LinesInOrder'
    BY <1>10, <2>2, <2>4, OrderKept DEF ListInv
  <2> QED BY <1>10, <2>2, <2>5 DEF ListInv, FileListInv
<1>11. CASE param_mode = "F" /\ free_arguments
  <2>1. /\ stage = "iterating" /\ stage' = "freed" /\ param_mode' = "F"
        /\ next_process_params \notin DOMAIN processes
        /\ UNCHANGED <<param_store, delivered>>
    BY <1>11 DEF free_arguments, has_next_process, iteratorVars
  <2>2. FileListInv /\ CursorInList /\ ListFollowsLines /\ LinesBefore(scanned + 1) = Lines
    BY <1>11, <2>1 DEF ListInv, FileListInv
  <2>3. Len(delivered) = Len(processes)
    BY <2>1, <2>2 DEF FileListInv, CursorInList, ListFollowsLines
  <2>4. Len(delivered) = Cardinality(Lines)
    BY <2>2, <2>3 DEF ListFollowsLines
  <2>5. LinesInOrder'
    BY <1>11, <2>1, <2>4, OrderKept DEF ListInv
  <2> QED BY <2>1, <2>2, <2>5 DEF ListInv, FileListInv
<1>12. param_mode # "F" =>
         \/ ListInv'
         \/ UNCHANGED workloadVars \/ (param_mode' = param_mode /\ stage' # "start")
  <2> SUFFICES ASSUME param_mode # "F", WorkloadNext, ~ UNCHANGED workloadVars
               PROVE  ListInv' \/ (param_mode' = param_mode /\ stage' # "start")
    OBVIOUS
  <2>1. CASE WorkloadStart
    BY <2>1, <1>1, <1>2, <1>3 DEF WorkloadStart
  <2>2. CASE scan_process \/ end_of_scan \/ init_params_iterator \/ follow_wild_pointer
               \/ free_arguments \/ draw_divides_by_zero
    BY <2>2 DEF scan_process, end_of_scan, init_params_iterator, follow_wild_pointer,
                free_arguments, draw_divides_by_zero
  <2>3. CASE get_random_process \/ get_listed_process
    BY <2>3 DEF get_random_process, get_listed_process, Deliver
  <2> QED BY <2>1, <2>2, <2>3 DEF WorkloadNext, WorkloadEnded, draw_again
<1>13. CASE param_mode = "F"
  BY <1>1, <1>2, <1>3, <1>5, <1>6, <1>7, <1>8, <1>9, <1>10, <1>11, <1>13
     DEF WorkloadNext, WorkloadStart, WorkloadEnded, draw_again, get_random_process,
         draw_divides_by_zero
<1> QED BY <1>4, <1>5, <1>12, <1>13

(* A workload file arrives complete, line by line and in its order,        *)
(* whatever it contains.                                                   *)
THEOREM FileArrivesInOrder == WorkloadSpec => []LinesInOrder
<1>1. WorkloadInit => ListInv
  BY DEF WorkloadInit, ListInv, LinesInOrder
<1>2. ListInv => LinesInOrder
  BY DEF ListInv
<1> QED BY <1>1, <1>2, ListInvStep, PTL DEF WorkloadSpec
=============================================================================
