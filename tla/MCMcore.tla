------------------------------ MODULE MCMcore ------------------------------
(***************************************************************************)
(* Mcore with a core of five bytes and payloads padded to two: requests of *)
(* 1 byte fit twice in the core, a request of 5 bytes goes to the heap,    *)
(* and the byte left over in the core is never used.                       *)
(***************************************************************************)
EXTENDS Mcore, TLC

MCRequests == {1, 5}
PtrSymmetry == Permutations(Ptr)

(* One frame around the life of an mcore, or two frames in any nesting.    *)
MCMaxFrames == (FALSE :> 1) @@ (TRUE :> 2)
MCMaxPayloads == (FALSE :> 3) @@ (TRUE :> 2)

(* The shortest overlap takes five requests and nested frames.             *)
OverlapPayloads == (FALSE :> 0) @@ (TRUE :> 5)
=============================================================================
