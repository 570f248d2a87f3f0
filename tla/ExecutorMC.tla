------------------------------ MODULE ExecutorMC ------------------------------
(***************************************************************************)
(* The schemas and the pilots the runs of Executor check.                  *)
(***************************************************************************)
EXTENDS Executor, TLC

CONSTANTS t1, t2, t3, t4, root, sub, p1

\* root { t1 ; sub { t2 ; t3 } ; t4 }
NestedFather == [n \in {t1, sub, t4} |-> root] @@ [n \in {t2, t3} |-> sub]
NestedLinks  == {<<t1, sub>>}

\* root { t1 ; t2 ; t3 } and root { t1 ; t2 ; t3 ; t4 }
FlatFather == [n \in {t1, t2, t3, t4} |-> root]
TrioFather == [n \in {t1, t2, t3} |-> root]
TrioLinks  == {<<t1, t2>>}

\* t1, then t2, which feeds t3 while both run; t4 follows t2
CoupledLinks  == {<<t1, t2>>, <<t2, t4>>}
CoupledStream == {<<t2, t3>>}

=============================================================================
