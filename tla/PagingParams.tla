---------------------------- MODULE PagingParams ----------------------------
(***************************************************************************)
(* proj03/src/params.c: the command line or the two input files of the     *)
(* paging simulation, and the iterator run_paging_simulation takes its     *)
(* addresses from.                                                         *)
(*                                                                         *)
(* strtol reads an address as a long, and the cast to int keeps its low    *)
(* bits: from IntHalf on it is negative.  The lists of regions and of      *)
(* addresses are the sequences of their nodes.                             *)
(***************************************************************************)
EXTENDS Utility, Sequences

CONSTANTS
  RandomInputs,   \* argc = 9: [past_end, length], as typed
  InputFiles      \* otherwise: [regions_open, regions, addresses_open,
                  \* addresses], a region [base, past_end], all as typed

Typed       == 0 .. 2 * IntHalf - 1
TypedRegion == [base : Typed, past_end : 0 .. 2 * IntHalf]

ASSUME InputAssumption ==
  /\ \A r \in RandomInputs : r.past_end \in Typed /\ r.length \in Int
  /\ \A f \in InputFiles :
       /\ f.regions_open \in BOOLEAN /\ f.addresses_open \in BOOLEAN
       /\ f.regions \in Seq(TypedRegion) /\ f.addresses \in Seq(Typed)

VARIABLES
  params_stage,          \* how far the program is with its parameters
  input_method, input,   \* the input as typed
  virtual_regions, virtual_addresses,   \* the lists
  wild_regions, wild_addresses,  \* their pointers are uninitialised, not NULL
  total_virtual_address_input_length,
  next_virtual_address, address_count,  \* the iterator; address_count is its
                                        \* iteration_count
  yielded                \* what get_next_virtual_address has returned so far

addressVars == <<next_virtual_address, address_count, yielded>>
listVars    == <<virtual_regions, virtual_addresses, wild_regions, wild_addresses,
                 total_virtual_address_input_length>>
inputVars   == <<params_stage, input_method, input, listVars, addressVars>>

InputInit ==
  /\ params_stage = "start" /\ input_method = "none" /\ input = <<>>
  /\ virtual_regions = <<>> /\ virtual_addresses = <<>>
  /\ wild_regions = FALSE /\ wild_addresses = FALSE
  /\ total_virtual_address_input_length = 0
  /\ next_virtual_address = 0 /\ address_count = 0 /\ yielded = <<>>

-----------------------------------------------------------------------------
(* Mutant: a value that does not fit becomes the greatest that does.       *)
Saturated(typed) == IF typed < IntHalf THEN typed ELSE IntHalf - 1

(* (int)strtol(typed, NULL, 0).                                            *)
AsInt(typed) == WrapInt(typed)

parse_random_input(r) ==
  /\ params_stage = "start" /\ params_stage' = "parsed"
  /\ input_method' = "random" /\ input' = r
  /\ virtual_regions' = <<[ base |-> 0, past_end |-> AsInt(r.past_end) ]>>
  /\ total_virtual_address_input_length' = r.length
  /\ UNCHANGED <<virtual_addresses, wild_regions, wild_addresses, addressVars>>

open_input_files(f) ==
  /\ params_stage = "start"
  /\ input_method' = "file" /\ input' = f
  /\ params_stage' = IF f.regions_open THEN "regions" ELSE "exited"
  /\ UNCHANGED <<listVars, addressVars>>

(* dummy_node.next_region is only set by a first node.                     *)
parse_input_virtual_regions ==
  /\ params_stage = "regions"
  /\ virtual_regions' =
       [ i \in DOMAIN input.regions |->
           [ base     |-> AsInt(input.regions[i].base),
             past_end |-> AsInt(input.regions[i].past_end) ] ]
  /\ wild_regions' \in IF input.regions = <<>> THEN BOOLEAN ELSE {FALSE}
  /\ params_stage' = IF input.addresses_open THEN "addresses" ELSE "exited"
  /\ UNCHANGED <<input_method, input, virtual_addresses, wild_addresses,
                 total_virtual_address_input_length, addressVars>>

parse_input_virtual_addresses ==
  /\ params_stage = "addresses" /\ params_stage' = "parsed"
  /\ virtual_addresses' =
       [ i \in DOMAIN input.addresses |-> AsInt(input.addresses[i]) ]
  /\ wild_addresses' \in IF input.addresses = <<>> THEN BOOLEAN ELSE {FALSE}
  /\ total_virtual_address_input_length' = Len(input.addresses)
  /\ UNCHANGED <<input_method, input, virtual_regions, wild_regions, addressVars>>

-----------------------------------------------------------------------------
(* print_arguments, compiled in by the DEBUG_LOG of utility.h, walks both  *)
(* lists.  What follows the use of an uninitialised pointer is not         *)
(* modelled.                                                               *)
print_wild_arguments ==
  /\ params_stage = "parsed" /\ (wild_regions \/ wild_addresses)
  /\ params_stage' = "undefined"
  /\ UNCHANGED <<input_method, input, listVars, addressVars>>

(* The iterator.  The nodes are counted from 1.                            *)

init_address_iterator ==
  /\ params_stage = "parsed" /\ ~ wild_regions /\ ~ wild_addresses
  /\ params_stage' = "iterating"
  /\ next_virtual_address' = 1 /\ address_count' = 0
  /\ UNCHANGED <<input_method, input, listVars, yielded>>

(* Mutant: the count is compared with the length itself included.          *)
HasOneMore ==
  \/ /\ input_method = "random"
     /\ total_virtual_address_input_length >= address_count
  \/ /\ input_method = "file"
     /\ next_virtual_address \in DOMAIN virtual_addresses

has_next_virtual_address ==
  \/ /\ input_method = "random"
     /\ total_virtual_address_input_length > address_count
  \/ /\ input_method = "file"
     /\ next_virtual_address \in DOMAIN virtual_addresses

Iterates == params_stage = "iterating" /\ has_next_virtual_address

Yield(address) ==
  /\ yielded' = Append(yielded, address)
  /\ address_count' = address_count + 1
  /\ UNCHANGED <<params_stage, input_method, input, listVars>>

(* Mutant: past_end itself is drawn as well.                               *)
LastAddressIs == virtual_regions[1].past_end

LastAddress == WrapInt(virtual_regions[1].past_end - 1)

get_random_address ==
  /\ Iterates /\ input_method = "random" /\ ~ DividesByZero(0, LastAddress)
  /\ \E address \in InRange(0, LastAddress) : Yield(address)
  /\ UNCHANGED next_virtual_address

address_divides_by_zero ==
  /\ Iterates /\ input_method = "random" /\ DividesByZero(0, LastAddress)
  /\ params_stage' = "sigfpe"
  /\ UNCHANGED <<input_method, input, listVars, addressVars>>

get_listed_address ==
  /\ Iterates /\ input_method = "file"
  /\ next_virtual_address' = next_virtual_address + 1
  /\ Yield(virtual_addresses[next_virtual_address])

(* main prints the result of every round: the index never equals a         *)
(* negative length.  A file that does not open ends the program.           *)
print_results ==
  /\ params_stage = "iterating" /\ ~ has_next_virtual_address
  /\ params_stage' \in {"failed", IF total_virtual_address_input_length < 0
                                 THEN "undefined" ELSE "printed"}
  /\ UNCHANGED <<input_method, input, listVars, addressVars>>

free_param_store ==
  /\ params_stage = "printed" /\ params_stage' = "freed"
  /\ virtual_regions' = <<>> /\ virtual_addresses' = <<>>
  /\ UNCHANGED <<input_method, input, wild_regions, wild_addresses,
                 total_virtual_address_input_length, addressVars>>

InputEnded ==
  /\ params_stage \in {"freed", "exited", "failed", "sigfpe", "undefined"}
  /\ UNCHANGED inputVars

InputStart ==
  \/ \E r \in RandomInputs : parse_random_input(r)
  \/ \E f \in InputFiles : open_input_files(f)

InputNext ==
  \/ InputStart
  \/ parse_input_virtual_regions \/ parse_input_virtual_addresses
  \/ print_wild_arguments \/ init_address_iterator
  \/ get_random_address \/ address_divides_by_zero
  \/ get_listed_address
  \/ print_results \/ free_param_store \/ InputEnded

InputSpec == InputInit /\ [][InputNext]_inputVars

-----------------------------------------------------------------------------
(* Properties.                                                             *)

(* The result store has one place for each address of the input length:    *)
(* the iterator never yields more, and all of them are there when main     *)
(* prints the results.                                                     *)
LengthAgrees ==
  /\ total_virtual_address_input_length >= 0
       => Len(yielded) <= total_virtual_address_input_length
  /\ params_stage \in {"printed", "freed"}
       => Len(yielded) = total_virtual_address_input_length

(* Random addresses all lie in the one region of the memory, unless its    *)
(* size does not fit in an int or is 0, and then nothing crashes either.   *)
RandomAddressesMapped ==
  input_method = "random" /\ input.past_end \in 1 .. IntHalf - 1 =>
    /\ params_stage # "sigfpe"
    /\ \A i \in DOMAIN yielded : yielded[i] \in 0 .. input.past_end - 1

(* Both ends of a region lie on one side of IntHalf.                       *)
OneHalf(r) ==
  \/ r.base < IntHalf /\ r.past_end < IntHalf
  \/ r.base >= IntHalf /\ r.past_end >= IntHalf

Contains(regions, a) ==
  \E i \in DOMAIN regions : regions[i].base <= a /\ a < regions[i].past_end

(* An address of the input lies in a region of the input if and only if    *)
(* the ints the program made of them say so, when no region crosses the    *)
(* middle of the address space.                                            *)
AddressesKeepTheirPlace ==
  /\ input_method = "file" /\ params_stage \in {"iterating", "printed"}
  /\ \A i \in DOMAIN input.regions : OneHalf(input.regions[i])
  => \A i \in DOMAIN yielded :
       Contains(virtual_regions, yielded[i])
         <=> Contains(input.regions, input.addresses[i])
=============================================================================
