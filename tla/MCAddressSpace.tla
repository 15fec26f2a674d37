--------------------------- MODULE MCAddressSpace ---------------------------
(***************************************************************************)
(* Instances of AddressSpace: two pages, each under a leaf table of its    *)
(* own, and an executable that consists of a text page and the stack page. *)
(***************************************************************************)
EXTENDS AddressSpace

CONSTANTS p1, p2, p3
AnyProcs == Permutations({p1, p2, p3})

TwoRegions == [v \in {1, 2} |-> v]
TextAndStack == <<[v |-> 1, w |-> FALSE, val |-> 1], [v |-> 2, w |-> TRUE, val |-> 0]>>
=============================================================================
