---------------------------- MODULE MCRetention ----------------------------
(* Ordinary: days of four ticks; local midnight is one tick before midnight *)
(* UTC. LongDay: days of 48 half hours in central Europe; the second local  *)
(* day, that of the change to winter time, begins two hours before midnight *)
(* UTC and ends one hour before it, 50 half hours later.                    *)
EXTENDS Retention, TLC

Ordinary == [t \in 0..MaxTime |-> (t + 1) \div 4]
LongDay == [t \in 0..MaxTime |-> IF t < 44 THEN 0 ELSE IF t < 94 THEN 1 ELSE 2]
Symm == Permutations(Writers)
=============================================================================
