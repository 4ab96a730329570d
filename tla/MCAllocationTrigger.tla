------------------------ MODULE MCAllocationTrigger ------------------------
(* Arrays of which log_array_alloc counts half (8 for 16 bytes) and nearly *)
(* all (5 for 6 bytes): it adds the size of an element to their number.    *)
EXTENDS AllocationTrigger

SmallArrays == {<<4, 4>>, <<2, 3>>}
=============================================================================
