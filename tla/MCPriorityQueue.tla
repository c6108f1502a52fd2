---------------------------- MODULE MCPriorityQueue ----------------------------
(* A small instance of PriorityQueue for TLC: two tasks to a start time.   *)
EXTENDS PriorityQueue

StartTimes == [t \in Task |-> t \div 2]
================================================================================
