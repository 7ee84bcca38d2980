-------------------------- MODULE MCSellerController --------------------------
(* Small instances of SellerController. Once the flag was used in the window *)
(* nothing is promised any more: BeforeOvertaking stops the search there.    *)
(* The end of the program after that of the subscription, or before it, lets *)
(* nothing happen that one of them does not, as calls of the node may always *)
(* fail: OneEnding leaves it out.                                            *)
EXTENDS SellerController

BeforeOvertaking == ~ overtaken

OneEnding == Cardinality(ending) <= 1
================================================================================
