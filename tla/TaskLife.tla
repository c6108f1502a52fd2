-------------------------------- MODULE TaskLife --------------------------------
(***************************************************************************)
(* What the schedulers of all cores together promise about each task: the  *)
(* life it leads, one edge at a time.  Scheduler.tla implements this.      *)
(*                                                                         *)
(*   unborn -> new -> waiting -> active -> gone                            *)
(*                      ^          |                                       *)
(*                      +----------+  (periodic: its next period)          *)
(*                      ^          |                                       *)
(*                      +- parked <+  (suspended, then resumed)            *)
(*                                                                         *)
(* A task that is resumed while it waits or is active is in two places at  *)
(* once, "doubled", and nothing more is promised of it.                    *)
(***************************************************************************)
CONSTANT Task
VARIABLE life

Edges == {<<"unborn", "new">>, <<"new", "waiting">>, <<"waiting", "active">>,
          <<"active", "waiting">>, <<"active", "parked">>, <<"parked", "waiting">>,
          <<"active", "gone">>, <<"waiting", "doubled">>, <<"active", "doubled">>}

LifeInit == life = [t \in Task |-> "unborn"]

Move(t) == <<life[t], life'[t]>> \in Edges /\ life' = [life EXCEPT ![t] = life'[t]]

LifeNext == \E t \in Task : Move(t)

LifeSpec == LifeInit /\ [][LifeNext]_life
================================================================================
