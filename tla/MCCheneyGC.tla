---------------------------- MODULE MCCheneyGC ----------------------------
(***************************************************************************)
(* CheneyGC on a small memory: two root slots, segments that hold two or   *)
(* three objects, an integer whose copy is larger than its allocation, and *)
(* an object of two fields whose allocation is larger than its copy.       *)
(***************************************************************************)
EXTENDS CheneyGC

CONSTANTS INT, UDO

MCKind == {INT, UDO}
MCNFlds == [k \in MCKind |-> IF k = UDO THEN 2 ELSE 0]
MCExtent == [k \in MCKind |-> 2]
MCAllocSize == [k \in MCKind |-> IF k = UDO THEN 3 ELSE 2]
MCCopySize == [k \in MCKind |-> IF k = UDO THEN 2 ELSE 3]
=============================================================================
