---------------------------- MODULE MCStoreFetch ----------------------------
(***************************************************************************)
(* Pages for StoreFetch: up to two JSON-LD nodes, of a product or of one   *)
(* shown beside it, with and without a price, a word on stock and a name;  *)
(* what a store's selectors match.                                         *)
(***************************************************************************)
EXTENDS StoreFetch, SequencesExt

Node(name, price, token) == [name |-> name, price |-> price, token |-> token]
Nodes == {Node(TRUE, FALSE, "none"), Node(TRUE, FALSE, "outofstock"),
          Node(TRUE, TRUE, "instock"), Node(TRUE, TRUE, "outofstock"),
          Node(TRUE, TRUE, "preorder"), Node(FALSE, FALSE, "instock")}
Meta == {None, Node(TRUE, FALSE, "discontinued"), Node(TRUE, TRUE, "none")}
FewNodes == {Node(TRUE, FALSE, "outofstock"), Node(TRUE, TRUE, "instock"), Node(TRUE, TRUE, "none")}

MCGenericPages ==
    [ld : BoundedSeq(Nodes, 2), meta : Meta, labelled : BOOLEAN]
MCFlipkartPages ==
    [ld : BoundedSeq(FewNodes, 1), soldOut : BOOLEAN, price : BOOLEAN, name : BOOLEAN]
MCAmazonPages ==
    [soldOut : BOOLEAN, wording : SUBSET {"yes", "no"}, price : BOOLEAN, name : BOOLEAN]
=============================================================================
