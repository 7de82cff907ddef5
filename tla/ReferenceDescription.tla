------------------------ MODULE ReferenceDescription ------------------------
(***************************************************************************)
(* graph::ReferenceDescription owns the strings of a                       *)
(* UA_ReferenceDescription: a copy is deep, a move takes the strings along *)
(* and leaves an empty description behind, the destructor frees them.      *)
(*                                                                         *)
(* The strings of one description are one block of the heap here, and the  *)
(* node id, which is a string, is what is kept in it.  A block is named by *)
(* the order of its allocation and no name comes twice, as if the          *)
(* allocator never used an address again: what points to a block that was  *)
(* freed is seen to do so.                                                 *)
(***************************************************************************)
EXTENDS AddressSpace

NoBlock == 0

(* A flat UA_ReferenceDescription or UA_NodeId: the id and its block.      *)
Description == [id : NodeId \cup {NullId}, block : Nat]

(* UA_ReferenceDescription_init.                                           *)
Empty == [id |-> NullId, block |-> NoBlock]

(* live: allocated and not freed; top: the last block allocated.           *)
Heap == [live : SUBSET (Nat \ {NoBlock}), top : Nat]

Blocks(refs) == {refs[k].block : k \in DOMAIN refs} \ {NoBlock}

(* UA_ReferenceDescription_clear for each of refs.                         *)
Clear(heap, refs) == [heap EXCEPT !.live = @ \ Blocks(refs)]

(* UA_ReferenceDescription_copy for each of refs: what they are copied to, *)
(* and the heap with the new blocks.  Of an empty one there is no string.  *)
Copy(heap, refs) ==
  [k \in DOMAIN refs |->
     IF refs[k].block = NoBlock THEN refs[k]
                                ELSE [refs[k] EXCEPT !.block = heap.top + k]]

CopyHeap(heap, refs) ==
  [live |-> heap.live \cup Blocks(Copy(heap, refs)),
   top  |-> heap.top + Len(refs)]

(* Defect: a description that is moved from is not reset.                  *)
MovedFromKept(ref) == ref

MovedFrom(ref) == Empty
=============================================================================
