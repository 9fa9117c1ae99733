------------------------------ MODULE MCPaging ------------------------------
(* Values of the constants of Paging for TLC.                              *)
EXTENDS Paging

(* Four pages, one of them named by two addresses and one by a negative    *)
(* int, and an address no region contains.                                 *)
SmallAddresses == {16, 17, 4111, 268435456, -4096, 8192}

SmallRegions == { [base |-> 0, past_end |-> 8192],
                  [base |-> 268435456, past_end |-> 281018368],
                  [base |-> -1048576, past_end |-> -1] }

(* Five pages of a memory of 20 KB, as random input makes them.            *)
RandomAddresses == {0, 4096, 8192, 12288, 20479}
RandomRegions   == { [base |-> 0, past_end |-> 20480] }
=============================================================================
