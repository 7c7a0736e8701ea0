----------------------------- MODULE MCIdentity -----------------------------
(***************************************************************************)
(* Two browsers, two users with neighbouring numeric ids, two keys.        *)
(***************************************************************************)
EXTENDS Identity

MCFlow == {"f1", "f2"}
MCUser == {"ann", "bob"}
MCClaims(sub, mapped, realm, top) ==
  [sub |-> <<"name", sub>>, mapped |-> mapped, realm |-> realm, top |-> top, kind |-> ""]
MCUserClaims ==
  [u \in MCUser |->
     IF u = "ann" THEN { MCClaims("ann", <<"number", 14>>, {"admin"}, {}), MCClaims("ann", <<>>, {}, {"user"}) }
     ELSE { MCClaims("bob", <<"number", 15>>, {"user"}, {"admin"}) }]
MCKeys == <<[kid |-> "k1", form |-> "good"], [kid |-> "k2", form |-> "good"]>>
=============================================================================
