------------------------------- MODULE PooledMC -------------------------------
(***************************************************************************)
(* The schemas, the pools and the pilots the runs of PooledExecutor check. *)
(***************************************************************************)
EXTENDS PooledExecutor, TLC

CONSTANTS t1, t2, t3, t4, root, p1, hp

\* root { t1 ; t2 ; t3 ; t4 }
FlatFather == [n \in {t1, t2, t3, t4} |-> root]

\* t3 and t4 after t1
LateLinks == {<<t1, t3>>, <<t1, t4>>}

\* Two pairs that exchange data: t1 with t2, and t3 with t4
TwoPairs == {<<t1, t2>>, <<t3, t4>>}

\* Three tasks on one pool, t1 beside it, or all four
ThreeOnOne == [n \in {t2, t3, t4} |-> hp]
FourOnOne  == [n \in {t1, t2, t3, t4} |-> hp]

TwoPlaces   == [p \in {hp} |-> 2]
ThreePlaces == [p \in {hp} |-> 3]
=============================================================================
