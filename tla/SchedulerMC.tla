----------------------------- MODULE SchedulerMC -----------------------------
(***************************************************************************)
(* The schemas the runs of Scheduler check: their trees and their links.   *)
(***************************************************************************)
EXTENDS Scheduler, TLC

CONSTANTS t1, t2, t3, t4, t5, t6, root, sub

\* root { t1 ; sub { t2 ; t3 ; t4 ; t6 } ; t5 }
SubFather == [n \in {t1, sub, t5} |-> root] @@ [n \in {t2, t3, t4, t6} |-> sub]
SubLinks  == {<<t1, sub>>, <<t2, t3>>, <<t4, t3>>, <<sub, t5>>}
SubStream == {<<t2, t4>>}

\* root { t1 ; sub { t2 ; t3 } }
SmallFather == [n \in {t1, sub} |-> root] @@ [n \in {t2, t3} |-> sub]
SmallLinks  == {<<t1, sub>>}

\* The schema with streams satisfies the hypotheses of the theorems about
\* failures and dead ends; the other one is a Bloc with no work.
ASSUME HypothesesAssumption == IF StreamLinks # {} THEN CoupledTogether /\ BlocsHaveWork
                                                   ELSE ~ BlocsHaveWork
=============================================================================
