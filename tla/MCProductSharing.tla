-------------------------- MODULE MCProductSharing --------------------------
(* Small instances of ProductSharing: two accounts, one of them an admin,   *)
(* and URLs of two shops.                                                   *)
EXTENDS ProductSharing, TLC

CONSTANTS u1, u2, p1, p2, p3, amazon, flipkart

TwoShops == p1 :> amazon @@ p2 :> flipkart
OneShop == p1 :> amazon @@ p2 :> amazon
ThreeUrls == p1 :> amazon @@ p2 :> amazon @@ p3 :> flipkart

Symmetry == Permutations({p1, p2})

=============================================================================
