---------------------------- MODULE MCHeavyBall ----------------------------
(***************************************************************************)
(* Heavy-ball choices between a near node and one whose id is not below 10 *)
(***************************************************************************)
EXTENDS HeavyBall

Of(n, rate) == [node |-> n, rate |-> rate]

MCMaxBacklog == [d \in Nodes \cup {Broadcast} |-> IF d = Broadcast THEN 3 ELSE 2]

MCPathlossEvents == {
  <<Of(1, 1), Of(12, 1)>>,
  <<Of(12, 2), Of(1, 1)>>,
  <<Of(1, 0)>>}
=============================================================================
