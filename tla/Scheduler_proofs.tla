---------------------------- MODULE Scheduler_proofs ---------------------------
(***************************************************************************)
(* Theorems about Scheduler, for every number of cores and tasks: the      *)
(* inductive invariant, the safety properties it contains, and that every  *)
(* step is a step of TaskLife or leaves the lives of all tasks alone.      *)
(***************************************************************************)
EXTENDS Scheduler, TLAPS

(* Facts that the proofs share: what the operators on the active list do,  *)
(* which variables each part of the inductive invariant depends on, and    *)
(* what the invariant says of the thread a core runs.                      *)

\* Popping a task from an active list removes that task and nothing else.
LEMMA PopFromLemma ==
  ASSUME NEW S, NEW s \in Seq(S), IsInjective(s), NEW t \in Range(s)
  PROVE  /\ PopFrom(s, t) \in Seq(S)
         /\ Len(PopFrom(s, t)) = Len(s) - 1
         /\ IsInjective(PopFrom(s, t))
         /\ Range(PopFrom(s, t)) = Range(s) \ {t}
<1> DEFINE n == Len(s)
           k == IndexOf(s, t)
           p == PopFrom(s, t)
<1>1. n \in Nat /\ DOMAIN s = 1 .. n
  OBVIOUS
<1>2. k \in 1 .. n /\ s[k] = t
  BY <1>1 DEF IndexOf, Range
<1>3. n >= 1 /\ n - 1 \in Nat
  BY <1>1, <1>2
<1>4. p = [j \in 1 .. n - 1 |-> IF j < k THEN s[j] ELSE s[j + 1]]
  BY DEF PopFrom
<1>5. p \in Seq(S) /\ Len(p) = n - 1 /\ DOMAIN p = 1 .. n - 1
  <2>1. \A j \in 1 .. n - 1 : p[j] \in S
    BY <1>1, <1>2, <1>3, <1>4
  <2>2. p \in [1 .. n - 1 -> S]
    BY <1>4, <2>1
  <2>. QED
    BY <1>3, <2>2
<1>6. IsInjective(p)
  BY <1>1, <1>2, <1>3, <1>4, <1>5 DEF IsInjective
<1>7. ASSUME NEW u \in Range(p) PROVE u \in Range(s) \ {t}
  BY <1>1, <1>2, <1>3, <1>4, <1>5, <1>7 DEF IsInjective, Range
<1>8. ASSUME NEW u \in Range(s), u # t PROVE u \in Range(p)
  <2>1. PICK i \in 1 .. n : s[i] = u
    BY <1>1 DEF Range
  <2>2. CASE i < k
    BY <1>1, <1>2, <1>4, <1>5, <2>1, <2>2 DEF Range
  <2>3. CASE i > k
    <3>1. i - 1 \in 1 .. n - 1 /\ ~(i - 1 < k) /\ (i - 1) + 1 = i
      BY <1>1, <1>2, <2>3
    <3>2. p[i - 1] = u
      BY <1>4, <2>1, <3>1
    <3>. QED
      BY <1>5, <3>1, <3>2 DEF Range
  <2>4. i # k
    BY <1>2, <1>8, <2>1
  <2>. QED
    BY <1>1, <1>2, <2>1, <2>2, <2>3, <2>4
<1>. QED
  BY <1>5, <1>6, <1>7, <1>8

\* A list that would be empty holds the idle task.
LEMMA OrIdleLemma ==
  ASSUME NEW s \in Seq(Thread), IsInjective(s)
  PROVE  /\ OrIdle(s) \in Seq(Thread) \ {<<>>}
         /\ IsInjective(OrIdle(s))
         /\ s # <<>> => OrIdle(s) = s
         /\ s = <<>> => Range(OrIdle(s)) = {Idle}
  BY DEF OrIdle, IsInjective, Range, Thread

\* Pushing a new task puts it on the list and drops at most the idle task.
LEMMA PushLemma ==
  ASSUME NEW s \in Seq(Thread), IsInjective(s), s # <<>>, NEW t \in Task, t \notin Range(s)
  PROVE  /\ Push(s, t) \in Seq(Thread) \ {<<>>}
         /\ IsInjective(Push(s, t))
         /\ Push(s, t) # <<Idle>>
         /\ s = <<Idle>> => Range(Push(s, t)) = {t} /\ Len(Push(s, t)) = 1
         /\ s # <<Idle>> => /\ Range(Push(s, t)) = Range(s) \cup {t}
                            /\ Len(Push(s, t)) = Len(s) + 1
<1>1. CASE s = <<Idle>>
  BY <1>1, NamesAssumption DEF Push, IsInjective, Range, Thread
<1>2. CASE s # <<Idle>>
  <2> DEFINE n == Len(s)
             p == <<t>> \o s
  <2>1. Push(s, t) = p
    BY <1>2 DEF Push
  <2>2. n \in Nat /\ DOMAIN s = 1 .. n /\ n # 0
    OBVIOUS
  <2>3. p \in Seq(Thread) /\ Len(p) = n + 1 /\ DOMAIN p = 1 .. n + 1
    BY DEF Thread
  <2>4. p[1] = t /\ \A i \in 1 .. n : p[i + 1] = s[i]
    BY <2>2
  <2>5. \A i \in 2 .. n + 1 : p[i] = s[i - 1] /\ i - 1 \in 1 .. n
    BY <2>2, <2>4
  <2>6. IsInjective(p)
    BY <2>2, <2>3, <2>4, <2>5 DEF IsInjective, Range
  <2>7. Range(p) = Range(s) \cup {t}
    <3>1. ASSUME NEW u \in Range(p) PROVE u \in Range(s) \cup {t}
      BY <2>2, <2>3, <2>4, <2>5 DEF Range
    <3>2. ASSUME NEW u \in Range(s) PROVE u \in Range(p)
      <4>1. PICK i \in 1 .. n : s[i] = u
        BY <2>2 DEF Range
      <4>2. i + 1 \in 1 .. n + 1 /\ p[i + 1] = u
        BY <2>2, <2>4, <4>1
      <4>. HIDE DEF p, n
      <4>. QED
        BY <2>3, <4>2 DEF Range
    <3>3. t \in Range(p)
      BY <2>2, <2>3, <2>4 DEF Range
    <3>. QED
      BY <3>1, <3>2, <3>3
  <2>8. p # <<>> /\ p # <<Idle>>
    <3>1. Len(p) # 0 /\ Len(p) # 1
      BY <2>2, <2>3
    <3>2. Len(<<>>) = 0 /\ Len(<<Idle>>) = 1
      OBVIOUS
    <3>. HIDE DEF p
    <3>. QED
      BY <3>1, <3>2, Zenon
  <2>. QED
    BY <1>2, <2>1, <2>3, <2>6, <2>7, <2>8
<1>. QED
  BY <1>1, <1>2

\* An invariant keeps its truth when its variables keep their values.
LEMMA Stable ==
  /\ CoreTypeOK /\ UNCHANGED <<now, lock, current, active, schedule, nTasks, currentTime, tick>> => CoreTypeOK'
  /\ TaskTypeOK /\ UNCHANGED <<born, home, startTime, reschedule, ended, suspended>> => TaskTypeOK'
  /\ ThreadTypeOK /\ UNCHANGED <<pc, frame, early, fault>> => ThreadTypeOK'
  /\ FaultsExplained /\ UNCHANGED <<fault, born, home, pc, frame, early>> => FaultsExplained'
  /\ ActiveListWellFormed /\ UNCHANGED <<active, home>> => ActiveListWellFormed'
  /\ QueueConsistent /\ UNCHANGED <<schedule, home, ended, active, early>> => QueueConsistent'
  /\ CountConsistent /\ UNCHANGED <<nTasks, active>> => CountConsistent'
  /\ CurrentListed /\ UNCHANGED <<tick, active, current>> => CurrentListed'
  /\ OnlyCurrentEnded /\ UNCHANGED <<active, ended, current, tick, early>> => OnlyCurrentEnded'
  /\ ParkedIsSuspended /\ UNCHANGED <<home, schedule, active, ended, suspended>> => ParkedIsSuspended'
  /\ LockOwners /\ UNCHANGED <<lock, pc, frame, home, tick>> => LockOwners'
  /\ CallersListed /\ UNCHANGED <<pc, home, active, ended>> => CallersListed'
  /\ BootNeverEnds /\ UNCHANGED pc => BootNeverEnds'
  /\ FramesShape /\ UNCHANGED <<pc, frame>> => FramesShape'
  /\ NewTasksFresh /\ UNCHANGED <<pc, frame, born, home, ended, early>> => NewTasksFresh'
  /\ ScanCorrect /\ UNCHANGED <<pc, frame, home, born>> => ScanCorrect'
  /\ TargetCorrect /\ UNCHANGED <<pc, frame>> => TargetCorrect'
  /\ FramesDistinct /\ UNCHANGED <<pc, frame>> => FramesDistinct'
  /\ UnbornNowhere /\ UNCHANGED <<born, home, ended, early>> => UnbornNowhere'
  /\ fault = None /\ UNCHANGED fault => FaultsExplained'
<1>1. CoreTypeOK /\ UNCHANGED <<now, lock, current, active, schedule, nTasks, currentTime, tick>> => CoreTypeOK'
  BY DEF CoreTypeOK
<1>2. TaskTypeOK /\ UNCHANGED <<born, home, startTime, reschedule, ended, suspended>> => TaskTypeOK'
  BY DEF TaskTypeOK
<1>3. ThreadTypeOK /\ UNCHANGED <<pc, frame, early, fault>> => ThreadTypeOK'
  BY DEF ThreadTypeOK
<1>4. FaultsExplained /\ UNCHANGED <<fault, born, home, pc, frame, early>> => FaultsExplained'
  BY DEF FaultsExplained, Known, Creating
<1>5. ActiveListWellFormed /\ UNCHANGED <<active, home>> => ActiveListWellFormed'
  BY DEF ActiveListWellFormed
<1>6. QueueConsistent /\ UNCHANGED <<schedule, home, ended, active, early>> => QueueConsistent'
  BY DEF QueueConsistent, Listed
<1>7. CountConsistent /\ UNCHANGED <<nTasks, active>> => CountConsistent'
  BY DEF CountConsistent
<1>8. CurrentListed /\ UNCHANGED <<tick, active, current>> => CurrentListed'
  BY DEF CurrentListed, Listed
<1>9. OnlyCurrentEnded /\ UNCHANGED <<active, ended, current, tick, early>> => OnlyCurrentEnded'
  BY DEF OnlyCurrentEnded, Listed
<1>10. ParkedIsSuspended /\ UNCHANGED <<home, schedule, active, ended, suspended>> => ParkedIsSuspended'
  BY DEF ParkedIsSuspended, Listed, Parked
<1>11. LockOwners /\ UNCHANGED <<lock, pc, frame, home, tick>> => LockOwners'
  BY DEF LockOwners, Holds
<1>12. CallersListed /\ UNCHANGED <<pc, home, active, ended>> => CallersListed'
  BY DEF CallersListed, InCall, Creating, Calling, Listed
<1>13. BootNeverEnds /\ UNCHANGED pc => BootNeverEnds'
  BY DEF BootNeverEnds
<1>14. FramesShape /\ UNCHANGED <<pc, frame>> => FramesShape'
  BY DEF FramesShape, InCall, Creating, Calling
<1>15. NewTasksFresh /\ UNCHANGED <<pc, frame, born, home, ended, early>> => NewTasksFresh'
  BY DEF NewTasksFresh, Creating
<1>16. ScanCorrect /\ UNCHANGED <<pc, frame, home, born>> => ScanCorrect'
  BY DEF ScanCorrect, Calling, Known, Creating
<1>17. TargetCorrect /\ UNCHANGED <<pc, frame>> => TargetCorrect'
  BY DEF TargetCorrect, Resuming, Calling
<1>18. FramesDistinct /\ UNCHANGED <<pc, frame>> => FramesDistinct'
  BY DEF FramesDistinct, Creating
<1>19. UnbornNowhere /\ UNCHANGED <<born, home, ended, early>> => UnbornNowhere'
  BY DEF UnbornNowhere
<1>20. fault = None /\ UNCHANGED fault => FaultsExplained'
  BY DEF FaultsExplained, None, NullFaults, DoubleFaults
<1>. QED
  BY <1>1, <1>2, <1>3, <1>4, <1>5, <1>6, <1>7, <1>8, <1>9, <1>10, <1>11, <1>12,
     <1>13, <1>14, <1>15, <1>16, <1>17, <1>18, <1>19, <1>20

\* What the types say of the members of the structures.
LEMMA TypesLemma ==
  ASSUME IInv
  PROVE  /\ Nowhere \notin Core
         /\ \A t \in Task : home[t] \in Core \cup {Nowhere}
         /\ \A c \in Core : schedule[c] \subseteq Task /\ Range(active[c]) \subseteq Thread
<1>1. Nowhere \notin Core
  BY NCoresAssumption DEF Core, Nowhere
<1>2. \A t \in Task : home[t] \in Core \cup {Nowhere}
  BY NCoresAssumption DEF IInv, TaskTypeOK, Core, Nowhere
<1>3. ASSUME NEW c \in Core PROVE schedule[c] \subseteq Task /\ active[c] \in Seq(Thread)
  BY DEF IInv, CoreTypeOK
<1>4. \A c \in Core : Range(active[c]) \subseteq Thread
  BY <1>3 DEF Range
<1>. QED
  BY <1>1, <1>2, <1>3, <1>4

\* The thread that a core runs is on the active list of that core.
LEMMA RunsLemma ==
  ASSUME IInv, NEW c \in Core, NEW th \in Thread, Runs(c, th)
  PROVE  /\ current[c] = th /\ Listed(c, th) /\ tick[c] = "off"
         /\ th # Idle => th \in Task /\ home[th] = c
  BY DEF IInv, Runs, CurrentListed, ActiveListWellFormed, Listed, Thread

--------------------------------------------------------------------------------
(* The steps of the clock and of the timer interrupt.                      *)

\* The clock moves: no structure of a scheduler changes.
LEMMA AdvanceStep ==
  ASSUME IInv, Advance
  PROVE  IInv'
<1> USE NCoresAssumption, TimeAssumption, NamesAssumption DEF IInv
<1>1. /\ UNCHANGED <<lock, current, active, schedule, nTasks, currentTime, tick,
                     born, home, startTime, reschedule, ended, suspended, pc,
                     frame, early, fault>>
      /\ fault = None
  BY DEF Advance, coreVars, taskVars
<1>2. /\ TaskTypeOK' /\ ThreadTypeOK' /\ FaultsExplained' /\ ActiveListWellFormed'
      /\ QueueConsistent' /\ CountConsistent' /\ CurrentListed'
      /\ OnlyCurrentEnded' /\ ParkedIsSuspended' /\ LockOwners'
      /\ CallersListed' /\ BootNeverEnds' /\ FramesShape' /\ NewTasksFresh'
      /\ ScanCorrect' /\ TargetCorrect' /\ FramesDistinct' /\ UnbornNowhere'
  BY <1>1, Stable
<1>3. CoreTypeOK'
  BY <1>1 DEF Advance, CoreTypeOK, Core, Thread
<1>. QED
  BY <1>2, <1>3

\* A timer interrupt that finds the lock taken changes nothing but
\* currentTime.
LEMMA TickSkipStep ==
  ASSUME IInv, NEW c \in Core, TickSkip(c)
  PROVE  IInv'
<1> USE NCoresAssumption, TimeAssumption, NamesAssumption DEF IInv
<1>1. /\ UNCHANGED <<now, lock, current, active, schedule, nTasks, tick, born,
                     home, startTime, reschedule, ended, suspended, pc, frame,
                     early, fault>>
      /\ fault = None
  BY DEF TickSkip, coreVars, taskVars
<1>2. /\ TaskTypeOK' /\ ThreadTypeOK' /\ FaultsExplained' /\ ActiveListWellFormed'
      /\ QueueConsistent' /\ CountConsistent' /\ CurrentListed'
      /\ OnlyCurrentEnded' /\ ParkedIsSuspended' /\ LockOwners'
      /\ CallersListed' /\ BootNeverEnds' /\ FramesShape' /\ NewTasksFresh'
      /\ ScanCorrect' /\ TargetCorrect' /\ FramesDistinct' /\ UnbornNowhere'
  BY <1>1, Stable
<1>3. CoreTypeOK'
  <2>1. currentTime \in [Core -> Nat] /\ now \in Nat
    BY DEF CoreTypeOK
  <2>2. currentTime' \in [Core -> Nat]
    BY <2>1 DEF TickSkip
  <2> QED  BY <1>1, <2>2 DEF CoreTypeOK, Thread
<1>. QED
  BY <1>2, <1>3

\* A timer interrupt that finds the lock free starts to wait for it.
LEMMA TickStartStep ==
  ASSUME IInv, NEW c \in Core, TickStart(c)
  PROVE  IInv'
<1> USE NCoresAssumption, TimeAssumption, NamesAssumption DEF IInv
<1>1. /\ UNCHANGED <<now, lock, current, active, schedule, nTasks, born, home,
                     startTime, reschedule, ended, suspended, pc, frame, early, fault>>
      /\ fault = None
  BY DEF TickStart, coreVars, taskVars
<1>2. /\ lock[c] = Free
      /\ tick[c] = "off" /\ tick'[c] = "spin"
      /\ \A k \in Core \ {c} : tick'[k] = tick[k]
  BY DEF TickStart, CoreTypeOK
<1>3. /\ TaskTypeOK' /\ ThreadTypeOK' /\ FaultsExplained' /\ ActiveListWellFormed'
      /\ QueueConsistent' /\ CountConsistent' /\ ParkedIsSuspended'
      /\ CallersListed' /\ BootNeverEnds' /\ FramesShape' /\ NewTasksFresh'
      /\ ScanCorrect' /\ TargetCorrect' /\ FramesDistinct' /\ UnbornNowhere'
  BY <1>1, Stable
<1>4. CoreTypeOK'
  <2>1. now \in Nat
    BY DEF CoreTypeOK
  <2>. QED
    BY <1>1, <2>1 DEF TickStart, CoreTypeOK
<1>5. CurrentListed'
  BY <1>1, <1>2 DEF CurrentListed, Listed
<1>6. OnlyCurrentEnded'
  BY <1>1, <1>2 DEF OnlyCurrentEnded, Listed, Thread
<1>7. LockOwners'
  BY <1>1, <1>2 DEF LockOwners, Holds, Thread
<1>. QED
  BY <1>3, <1>4, <1>5, <1>6, <1>7

\* The interrupt takes the lock; the current task has not ended.
LEMMA TickKeepStep ==
  ASSUME IInv, NEW c \in Core, TickKeep(c)
  PROVE  IInv'
<1> USE NCoresAssumption, TimeAssumption, NamesAssumption DEF IInv
<1>1. /\ UNCHANGED <<now, current, active, schedule, nTasks, currentTime, born,
                     home, startTime, reschedule, ended, suspended, pc, frame,
                     early, fault>>
      /\ fault = None
  BY DEF TickKeep, Acquire, coreVars, taskVars
<1>2. /\ TaskTypeOK' /\ ThreadTypeOK' /\ FaultsExplained' /\ ActiveListWellFormed'
      /\ QueueConsistent' /\ CountConsistent' /\ ParkedIsSuspended'
      /\ CallersListed' /\ BootNeverEnds' /\ FramesShape' /\ NewTasksFresh'
      /\ ScanCorrect' /\ TargetCorrect' /\ FramesDistinct' /\ UnbornNowhere'
  BY <1>1, Stable
<1>3. CoreTypeOK'
  BY <1>1 DEF TickKeep, Acquire, CoreTypeOK, Core, Thread
<1>4. CurrentListed'
  BY <1>1 DEF TickKeep, Acquire, CurrentListed, CoreTypeOK, Listed
<1>5. OnlyCurrentEnded'
  BY <1>1 DEF TickKeep, Acquire, OnlyCurrentEnded, CoreTypeOK, TaskTypeOK, Listed
<1>6. LockOwners'
  BY <1>1 DEF TickKeep, Acquire, LockOwners, CoreTypeOK, ThreadTypeOK, Holds,
     Core, Thread, TaskTypeOK
<1>. QED
  BY <1>2, <1>3, <1>4, <1>5, <1>6

\* What every reaping of an ended current task does to the scheduler.
LEMMA TickPopLemma ==
  ASSUME IInv, NEW c \in Core, NEW t \in Task, TickPop(c, t)
  PROVE  /\ UNCHANGED <<now, current, currentTime, born, suspended, frame, early, fault>>
         /\ fault = None
         /\ lock[c] = Free /\ lock'[c] = TickIsr /\ \A k \in Core \ {c} : lock'[k] = lock[k]
         /\ tick[c] = "spin" /\ tick'[c] = "deque" /\ \A k \in Core \ {c} : tick'[k] = tick[k]
         /\ current[c] = t /\ ended[t] /\ Listed(c, t) /\ home[t] = c /\ t \in Thread
         /\ pc[t] \notin {"pick", "insert", "find", "lock", "apply", "end"}
         /\ \A k \in Core : ~Listed(k, t)'
         /\ \A k \in Core \ {c} : t \notin schedule[k]
         /\ t \in schedule[c] => t \in early
         /\ \A k \in Core, u \in Task : u # t => (Listed(k, u)' <=> Listed(k, u))
         /\ \A k \in Core : /\ active'[k] # <<>> /\ IsInjective(active'[k])
                               /\ \A u \in Range(active'[k]) :
                                    IF u = Idle THEN active'[k] = <<Idle>>
                                    ELSE u \in Task \ {t} /\ home[u] = k
         /\ lock' \in [Core -> Thread \cup {Free, TickIsr}]
         /\ active' \in [Core -> Seq(Thread)]
         /\ nTasks' \in [Core -> Nat]
         /\ tick' \in [Core -> {"off", "spin", "deque"}]
         /\ CountConsistent' /\ CurrentListed'
<1> USE NCoresAssumption, TimeAssumption, NamesAssumption DEF IInv
<1> DEFINE p == PopFrom(active[c], t)
<1>1. /\ UNCHANGED <<now, current, currentTime, born, suspended, frame, early, fault>>
      /\ fault = None
      /\ lock[c] = Free /\ lock' = [lock EXCEPT ![c] = TickIsr]
      /\ tick[c] = "spin" /\ tick' = [tick EXCEPT ![c] = "deque"]
      /\ current[c] = t /\ t # Idle /\ ended[t]
      /\ active' = [active EXCEPT ![c] = OrIdle(p)]
      /\ nTasks' = [nTasks EXCEPT ![c] = nTasks[c] - 1]
  BY DEF TickPop, Reaps, Acquire
<1>2. Listed(c, t) /\ home[t] = c
  BY <1>1 DEF CurrentListed, ActiveListWellFormed, Listed
<1>3. pc[t] \notin {"pick", "insert", "find", "lock", "apply", "end"}
  <2>1. ~InCall(t)
    BY <1>1 DEF CallersListed
  <2>2. pc[t] # "end"
    BY <1>1, <1>2 DEF LockOwners, Holds, Thread
  <2>. QED
    BY <2>1, <2>2 DEF InCall, Creating, Calling
<1>4. /\ p \in Seq(Thread) /\ Len(p) = Len(active[c]) - 1
      /\ IsInjective(p) /\ Range(p) = Range(active[c]) \ {t}
  <2>1. active[c] \in Seq(Thread) /\ IsInjective(active[c]) /\ t \in Range(active[c])
    BY <1>2 DEF CoreTypeOK, ActiveListWellFormed, Listed
  <2>. QED
    BY <2>1, PopFromLemma
<1>5. /\ OrIdle(p) \in Seq(Thread) \ {<<>>} /\ IsInjective(OrIdle(p))
      /\ p # <<>> => OrIdle(p) = p
      /\ p = <<>> => OrIdle(p) = <<Idle>> /\ Range(OrIdle(p)) = {Idle}
  BY <1>4, OrIdleLemma DEF OrIdle
<1>6. active[c] # <<Idle>> /\ Idle \notin Range(active[c])
  <2>1. Range(<<Idle>>) = {Idle}
    BY DEF Range
  <2>2. active[c] # <<Idle>>
    BY <1>1, <1>2, <2>1, Zenon DEF Listed
  <2>. QED
    BY <2>2 DEF ActiveListWellFormed
<1>7. active'[c] = OrIdle(p) /\ \A k \in Core \ {c} : active'[k] = active[k]
  BY <1>1 DEF CoreTypeOK
<1>8. \A u \in Task : Listed(c, u)' <=> Listed(c, u) /\ u # t
  <2> HIDE DEF p
  <2>1. CASE p = <<>>
    <3>1. Range(p) = {}
      BY <2>1 DEF Range
    <3>. QED
      BY <1>4, <1>5, <1>7, <2>1, <3>1 DEF Listed
  <2>2. CASE p # <<>>
    BY <1>4, <1>5, <1>7, <2>2 DEF Listed
  <2>. QED
    BY <2>1, <2>2
<1>9. /\ \A k \in Core : ~Listed(k, t)'
      /\ \A k \in Core \ {c} : t \notin schedule[k]
      /\ t \in schedule[c] => t \in early
  BY <1>1, <1>2, <1>7, <1>8 DEF QueueConsistent, ActiveListWellFormed, Listed
<1>10. \A k \in Core : /\ active'[k] # <<>> /\ IsInjective(active'[k])
                       /\ \A u \in Range(active'[k]) :
                            IF u = Idle THEN active'[k] = <<Idle>>
                            ELSE u \in Task \ {t} /\ home[u] = k
  <2>1. \A u \in Range(active[c]) : u \in Task /\ home[u] = c
    BY <1>6, TypesLemma DEF ActiveListWellFormed, Thread
  <2>2. \A k \in Core \ {c} : t \notin Range(active[k])
    BY <1>2 DEF ActiveListWellFormed
  <2>3. \A k \in Core \ {c} : \A u \in Range(active[k]) \ {Idle} : u \in Task \ {t}
    BY <2>2, TypesLemma DEF Thread
  <2> HIDE DEF p
  <2>4. CASE p = <<>>
    BY <1>5, <1>7, <2>3, <2>4 DEF ActiveListWellFormed
  <2>5. CASE p # <<>>
    BY <1>4, <1>5, <1>6, <1>7, <2>1, <2>3, <2>5 DEF ActiveListWellFormed
  <2>. QED
    BY <2>4, <2>5
<1>11. active' \in [Core -> Seq(Thread)]
  BY <1>1, <1>5 DEF CoreTypeOK
<1>12. Len(active[c]) \in Nat /\ Len(active[c]) >= 1
  <2>1. active[c] \in Seq(Thread) /\ active[c] # <<>>
    BY DEF CoreTypeOK, ActiveListWellFormed
  <2>. QED
    BY <2>1
<1>13. nTasks[c] = 1 + Len(active[c]) /\ nTasks[c] - 1 = Len(active[c]) /\ nTasks[c] - 1 \in Nat
  BY <1>6, <1>12 DEF CountConsistent
<1>14. nTasks' \in [Core -> Nat] /\ nTasks'[c] = Len(active[c])
       /\ \A k \in Core \ {c} : nTasks'[k] = nTasks[k]
  BY <1>1, <1>13 DEF CoreTypeOK
<1>15. nTasks'[c] = IF active'[c] = <<Idle>> THEN 1 ELSE 1 + Len(active'[c])
  <2>1. CASE p = <<>>
    <3> HIDE DEF p
    <3>1. Len(p) = 0
      BY <2>1
    <3>2. Len(active[c]) = 1
      BY <1>4, <1>12, <3>1
    <3>. QED
      BY <1>5, <1>7, <1>14, <2>1, <3>2
  <2>2. CASE p # <<>>
    <3>1. p # <<Idle>>
      <4>1. Range(<<Idle>>) = {Idle}
        BY DEF Range
      <4>. HIDE DEF p
      <4>. QED
        BY <1>4, <1>6, <4>1, Zenon
    <3>. HIDE DEF p
    <3>. QED
      BY <1>4, <1>5, <1>7, <1>12, <1>14, <2>2, <3>1
  <2>. QED
    BY <2>1, <2>2
<1>16. CountConsistent'
  BY <1>7, <1>14, <1>15 DEF CountConsistent
<1>17. /\ lock' \in [Core -> Thread \cup {Free, TickIsr}]
       /\ tick' \in [Core -> {"off", "spin", "deque"}]
       /\ lock'[c] = TickIsr /\ \A k \in Core \ {c} : lock'[k] = lock[k]
       /\ tick'[c] = "deque" /\ \A k \in Core \ {c} : tick'[k] = tick[k]
  BY <1>1 DEF CoreTypeOK
<1>18. \A k \in Core, u \in Task : u # t => (Listed(k, u)' <=> Listed(k, u))
  <2>1. \A k \in Core \ {c}, u \in Task : Listed(k, u)' <=> Listed(k, u)
    BY <1>7 DEF Listed
  <2>. QED
    BY <1>8, <2>1
<1>19. CurrentListed'
  <2> SUFFICES ASSUME NEW k \in Core \ {c}, tick[k] # "deque"
               PROVE  Listed(k, current[k])'
    BY <1>17 DEF CurrentListed
  <2>. QED
    BY <1>1, <1>7 DEF CurrentListed, Listed
<1>. QED
  BY <1>1, <1>2, <1>3, <1>9, <1>10, <1>11, <1>14, <1>16, <1>17, <1>18, <1>19 DEF Thread

\* Tick reaps a periodic task: it goes from the active list to the queue.
LEMMA TickRescheduleStep ==
  ASSUME IInv, NEW c \in Core, NEW t \in Task, TickReschedule(c, t)
  PROVE  IInv'
<1> USE NCoresAssumption, TimeAssumption, NamesAssumption DEF IInv
<1>1. /\ UNCHANGED <<now, current, currentTime, born, home, reschedule, suspended, frame, early, fault>>
      /\ fault = None
  BY DEF TickReschedule, TickPop, Reaps, coreVars, taskVars
<1>2. /\ UNCHANGED <<now, current, currentTime, born, suspended, frame>>
      /\ lock[c] = Free /\ lock'[c] = TickIsr /\ \A k \in Core \ {c} : lock'[k] = lock[k]
      /\ tick[c] = "spin" /\ tick'[c] = "deque" /\ \A k \in Core \ {c} : tick'[k] = tick[k]
  BY TickPopLemma DEF TickReschedule
<1>3. /\ current[c] = t /\ ended[t] /\ Listed(c, t) /\ home[t] = c /\ t \in Thread
      /\ pc[t] \notin {"pick", "insert", "find", "lock", "apply", "end"}
      /\ \A k \in Core : t \notin schedule[k] /\ ~Listed(k, t)'
  <2>1. TickPop(c, t) /\ t \notin schedule[c]
    BY DEF TickReschedule
  <2>. QED
    BY <2>1, TickPopLemma
<1>4. \A k \in Core, u \in Task : u # t => (Listed(k, u)' <=> Listed(k, u))
  BY TickPopLemma DEF TickReschedule
<1>5. /\ \A k \in Core : /\ active'[k] # <<>> /\ IsInjective(active'[k])
                            /\ \A u \in Range(active'[k]) :
                                 IF u = Idle THEN active'[k] = <<Idle>>
                                 ELSE u \in Task \ {t} /\ home[u] = k
      /\ lock' \in [Core -> Thread \cup {Free, TickIsr}]
      /\ active' \in [Core -> Seq(Thread)]
      /\ nTasks' \in [Core -> Nat]
      /\ tick' \in [Core -> {"off", "spin", "deque"}]
      /\ CountConsistent' /\ CurrentListed'
  BY TickPopLemma DEF TickReschedule
<1>6. /\ ended'[t] = FALSE /\ \A u \in Task \ {t} : ended'[u] = ended[u]
      /\ schedule'[c] = schedule[c] \cup {t} /\ \A k \in Core \ {c} : schedule'[k] = schedule[k]
      /\ pc'[t] = "run" /\ \A th \in Thread \ {t} : pc'[th] = pc[th]
      /\ schedule' \in [Core -> SUBSET Task] /\ pc' \in [Thread -> PCs]
  BY <1>3 DEF TickReschedule, CoreTypeOK, TaskTypeOK, ThreadTypeOK, PCs
<1>7. CoreTypeOK'
  BY <1>1, <1>2, <1>5, <1>6 DEF CoreTypeOK
<1>8. TaskTypeOK'
  <2>1. NextStart(c, t) \in Nat
    BY DEF NextStart, TaskTypeOK, CoreTypeOK
  <2>. QED
    BY <1>1, <2>1 DEF TickReschedule, TaskTypeOK
<1>9. ThreadTypeOK'
  BY <1>1, <1>3, <1>6 DEF TickReschedule, ThreadTypeOK
<1>10. FaultsExplained'
  BY <1>1, Stable
<1>11. ActiveListWellFormed'
  BY <1>1, <1>5, <1>6 DEF ActiveListWellFormed
<1>12. QueueConsistent'
  <2> SUFFICES ASSUME NEW k \in Core, NEW u \in schedule'[k]
               PROVE  home'[u] = k /\ (u \in early' \/ (~ended'[u] /\ ~Listed(k, u)'))
    BY DEF QueueConsistent
  <2>1. CASE u = t
    BY <1>1, <1>3, <1>6, <2>1
  <2>2. CASE u # t
    <3>1. u \in schedule[k] /\ u \in Task
      BY <1>1, <1>6, <2>2, TypesLemma
    <3>2. home[u] = k /\ (u \in early \/ (~ended[u] /\ ~Listed(k, u)))
      BY <3>1 DEF QueueConsistent
    <3>. QED
      BY <1>1, <1>4, <1>6, <2>2, <3>1, <3>2
  <2>. QED
    BY <2>1, <2>2
<1>13. CountConsistent'
  BY <1>5
<1>14. CurrentListed'
  BY <1>5
<1>15. OnlyCurrentEnded'
  <2> SUFFICES ASSUME NEW k \in Core, NEW u \in Task \ early', Listed(k, u)', ended'[u]
               PROVE  current'[k] = u /\ tick'[k] # "deque"
    BY DEF OnlyCurrentEnded
  <2>1. u # t
    BY <1>3
  <2>2. u \notin early /\ Listed(k, u) /\ ended[u]
    BY <1>1, <1>4, <1>6, <2>1
  <2>3. current[k] = u /\ tick[k] # "deque"
    BY <2>2 DEF OnlyCurrentEnded
  <2>. QED
    BY <1>2, <1>3, <2>1, <2>3
<1>16. ParkedIsSuspended'
  <2> SUFFICES ASSUME NEW u \in Task, Parked(u)'
               PROVE  ended'[u] /\ suspended'[u]
    BY DEF ParkedIsSuspended
  <2>1. CASE u = t
    BY <1>1, <1>3, <1>6, <2>1 DEF Parked
  <2>2. CASE u # t
    <3>1. PICK k \in Core : k = home'[u] /\ k = home[u]
      BY <1>1, <1>6, <2>2, TypesLemma DEF Parked
    <3>2. ~Listed(k, u)' /\ u \notin schedule'[k]
      BY <3>1 DEF Parked, Listed
    <3>3. ~Listed(k, u) /\ u \notin schedule[k]
      BY <1>1, <1>4, <1>6, <2>2, <3>2
    <3>4. Parked(u)
      BY <3>1, <3>3, TypesLemma DEF Parked
    <3>. QED
      BY <1>1, <1>2, <1>6, <2>2, <3>4 DEF ParkedIsSuspended
  <2>. QED
    BY <2>1, <2>2
<1>17. LockOwners'
  <2>1. \A th \in Thread : ~Holds(th, c)
    BY <1>2 DEF LockOwners, Thread
  <2>2. \A th \in Thread, k \in Core : Holds(th, k)' <=> Holds(th, k)
    BY <1>1, <1>2, <1>3, <1>6 DEF Holds, Thread
  <2>3. \A th \in Thread : th # TickIsr
    BY DEF Thread
  <2>. QED
    BY <1>2, <2>1, <2>2, <2>3 DEF LockOwners
<1>18. CallersListed'
  <2> SUFFICES ASSUME NEW u \in Task
               PROVE  /\ InCall(u)' => (home[u] # Nowhere /\ Listed(home[u], u) /\ ~ended[u])'
                      /\ (pc[u] = "end")' => (home[u] # Nowhere /\ Listed(home[u], u))'
    BY DEF CallersListed
  <2>1. CASE u = t
    BY <1>1, <1>3, <1>6, <2>1 DEF InCall, Creating, Calling
  <2>2. CASE u # t
    <3>1. u \in Thread
      BY DEF Thread
    <3>2. /\ InCall(u)' => home[u] # Nowhere /\ Listed(home[u], u) /\ ~ended[u]
          /\ (pc[u] = "end")' => home[u] # Nowhere /\ Listed(home[u], u)
      BY <1>1, <1>6, <2>2, <3>1 DEF CallersListed, InCall, Creating, Calling
    <3>3. ASSUME NEW k \in Core, home[u] = k, Listed(k, u)
          PROVE  home'[u] = k /\ Listed(k, u)'
      BY <1>1, <1>4, <1>6, <2>2, <3>3
    <3>4. home[u] # Nowhere /\ Listed(home[u], u) => (home[u] # Nowhere /\ Listed(home[u], u))'
      BY <3>3, TypesLemma DEF Listed
    <3>. QED
      BY <1>1, <1>6, <2>2, <3>2, <3>4
  <2>. QED
    BY <2>1, <2>2
<1>19. BootNeverEnds'
  BY <1>6 DEF BootNeverEnds, Thread
<1>20. FramesShape'
  <2>1. \A th \in Thread : Creating(th)' = Creating(th) /\ Calling(th)' = Calling(th)
    BY <1>3, <1>6 DEF Creating, Calling
  <2>. QED
    BY <1>2, <2>1 DEF FramesShape, InCall
<1>21. NewTasksFresh'
  <2>1. \A th \in Thread : Creating(th)' = Creating(th)
    BY <1>3, <1>6 DEF Creating
  <2>. QED
    BY <1>1, <1>2, <1>6, <2>1 DEF NewTasksFresh, FramesShape
<1>22. ScanCorrect'
  <2>1. \A th \in Thread : /\ pc'[th] \in {"find", "lock", "apply"} => pc'[th] = pc[th]
                           /\ Creating(th)' => Creating(th)
    BY <1>3, <1>6 DEF Creating
  <2>2. \A th \in Thread : Calling(th)' => Calling(th)
    BY <2>1 DEF Calling
  <2>3. \A u : Known(u) => Known(u)'
    BY <1>1, <2>1 DEF Known
  <2>. QED
    BY <1>1, <2>1, <2>2, <2>3 DEF ScanCorrect, Known, Calling
<1>23. TargetCorrect'
  BY <1>1, <1>2, <1>3, <1>6 DEF TargetCorrect, Resuming, Calling
<1>24. FramesDistinct'
  <2>1. \A th \in Thread : Creating(th)' = Creating(th) /\ Calling(th)' = Calling(th)
    BY <1>3, <1>6 DEF Creating, Calling
  <2>. QED
    BY <1>2, <2>1 DEF FramesDistinct, Resuming
<1>25. UnbornNowhere'
  BY <1>1, <1>2, <1>6 DEF UnbornNowhere
<1>. QED
  BY <1>7, <1>8, <1>9, <1>10, <1>11, <1>12, <1>13, <1>14, <1>15, <1>16, <1>17,
     <1>18, <1>19, <1>20, <1>21, <1>22, <1>23, <1>24, <1>25

\* Tick reaps a suspended task: it leaves the active list and stays in
\* TaskTree.
LEMMA TickParkStep ==
  ASSUME IInv, NEW c \in Core, NEW t \in Task, TickPark(c, t)
  PROVE  IInv'
<1> USE NCoresAssumption, TimeAssumption, NamesAssumption DEF IInv
<1>1. /\ UNCHANGED <<now, current, schedule, currentTime, born, home, startTime,
                     reschedule, ended, suspended, pc, frame, early, fault>>
      /\ fault = None
  BY DEF TickPark, TickPop, Reaps, coreVars, taskVars
<1>2. /\ UNCHANGED <<now, current, currentTime, born, suspended, frame>>
      /\ lock[c] = Free /\ lock'[c] = TickIsr /\ \A k \in Core \ {c} : lock'[k] = lock[k]
      /\ tick[c] = "spin" /\ tick'[c] = "deque" /\ \A k \in Core \ {c} : tick'[k] = tick[k]
  BY TickPopLemma DEF TickPark
<1>3. /\ current[c] = t /\ ended[t] /\ Listed(c, t) /\ home[t] = c /\ t \in Thread
      /\ pc[t] \notin {"pick", "insert", "find", "lock", "apply", "end"}
      /\ \A k \in Core : ~Listed(k, t)'
      /\ \A k \in Core \ {c} : t \notin schedule[k]
      /\ t \in schedule[c] => t \in early
  BY TickPopLemma DEF TickPark
<1>4. \A k \in Core, u \in Task : u # t => (Listed(k, u)' <=> Listed(k, u))
  BY TickPopLemma DEF TickPark
<1>5. /\ \A k \in Core : /\ active'[k] # <<>> /\ IsInjective(active'[k])
                            /\ \A u \in Range(active'[k]) :
                                 IF u = Idle THEN active'[k] = <<Idle>>
                                 ELSE u \in Task \ {t} /\ home[u] = k
      /\ lock' \in [Core -> Thread \cup {Free, TickIsr}]
      /\ active' \in [Core -> Seq(Thread)]
      /\ nTasks' \in [Core -> Nat]
      /\ tick' \in [Core -> {"off", "spin", "deque"}]
      /\ CountConsistent' /\ CurrentListed'
  BY TickPopLemma DEF TickPark
<1>6. /\ TaskTypeOK' /\ ThreadTypeOK' /\ FaultsExplained' /\ BootNeverEnds'
      /\ FramesShape' /\ NewTasksFresh' /\ ScanCorrect' /\ FramesDistinct'
      /\ UnbornNowhere'
  BY <1>1, Stable
<1>7. CoreTypeOK'
  BY <1>1, <1>2, <1>5 DEF CoreTypeOK
<1>8. ActiveListWellFormed'
  BY <1>1, <1>5 DEF ActiveListWellFormed
<1>9. QueueConsistent'
  <2> SUFFICES ASSUME NEW k \in Core, NEW u \in schedule'[k]
               PROVE  home'[u] = k /\ (u \in early' \/ (~ended'[u] /\ ~Listed(k, u)'))
    BY DEF QueueConsistent
  <2>1. CASE u = t
    BY <1>1, <1>3, <2>1
  <2>2. CASE u # t
    <3>1. u \in schedule[k] /\ u \in Task
      BY <1>1, <2>2, TypesLemma
    <3>2. home[u] = k /\ (u \in early \/ (~ended[u] /\ ~Listed(k, u)))
      BY <3>1 DEF QueueConsistent
    <3>. QED
      BY <1>1, <1>4, <2>2, <3>1, <3>2
  <2>. QED
    BY <2>1, <2>2
<1>10. CountConsistent'
  BY <1>5
<1>11. CurrentListed'
  BY <1>5
<1>12. OnlyCurrentEnded'
  <2> SUFFICES ASSUME NEW k \in Core, NEW u \in Task \ early', Listed(k, u)', ended'[u]
               PROVE  current'[k] = u /\ tick'[k] # "deque"
    BY DEF OnlyCurrentEnded
  <2>1. u # t
    BY <1>3
  <2>2. u \notin early /\ Listed(k, u) /\ ended[u]
    BY <1>1, <1>4, <2>1
  <2>3. current[k] = u /\ tick[k] # "deque"
    BY <2>2 DEF OnlyCurrentEnded
  <2>. QED
    BY <1>2, <1>3, <2>1, <2>3
<1>13. ParkedIsSuspended'
  <2> SUFFICES ASSUME NEW u \in Task, Parked(u)'
               PROVE  ended'[u] /\ suspended'[u]
    BY DEF ParkedIsSuspended
  <2>1. CASE u = t
    BY <1>1, <1>3, <2>1 DEF TickPark
  <2>2. CASE u # t
    <3>1. PICK k \in Core : k = home'[u] /\ k = home[u]
      BY <1>1, <2>2, TypesLemma DEF Parked
    <3>2. ~Listed(k, u)' /\ u \notin schedule'[k]
      BY <3>1 DEF Parked, Listed
    <3>3. ~Listed(k, u) /\ u \notin schedule[k]
      BY <1>1, <1>4, <2>2, <3>2
    <3>4. Parked(u)
      BY <3>1, <3>3, TypesLemma DEF Parked
    <3>. QED
      BY <1>1, <1>2, <2>2, <3>4 DEF ParkedIsSuspended
  <2>. QED
    BY <2>1, <2>2
<1>14. LockOwners'
  <2>1. \A th \in Thread : ~Holds(th, c)
    BY <1>2 DEF LockOwners, Thread
  <2>2. \A th \in Thread, k \in Core : Holds(th, k)' <=> Holds(th, k)
    BY <1>1, <1>2, <1>3 DEF Holds, Thread
  <2>3. \A th \in Thread : th # TickIsr
    BY DEF Thread
  <2>. QED
    BY <1>2, <2>1, <2>2, <2>3 DEF LockOwners
<1>15. CallersListed'
  <2> SUFFICES ASSUME NEW u \in Task
               PROVE  /\ InCall(u)' => (home[u] # Nowhere /\ Listed(home[u], u) /\ ~ended[u])'
                      /\ (pc[u] = "end")' => (home[u] # Nowhere /\ Listed(home[u], u))'
    BY DEF CallersListed
  <2>1. CASE u = t
    BY <1>1, <1>3, <2>1 DEF InCall, Creating, Calling
  <2>2. CASE u # t
    <3>1. u \in Thread
      BY DEF Thread
    <3>2. /\ InCall(u)' => home[u] # Nowhere /\ Listed(home[u], u) /\ ~ended[u]
          /\ (pc[u] = "end")' => home[u] # Nowhere /\ Listed(home[u], u)
      BY <1>1, <2>2, <3>1 DEF CallersListed, InCall, Creating, Calling
    <3>3. ASSUME NEW k \in Core, home[u] = k, Listed(k, u)
          PROVE  home'[u] = k /\ Listed(k, u)'
      BY <1>1, <1>4, <2>2, <3>3
    <3>4. home[u] # Nowhere /\ Listed(home[u], u) => (home[u] # Nowhere /\ Listed(home[u], u))'
      BY <3>3, TypesLemma DEF Listed
    <3>. QED
      BY <1>1, <2>2, <3>2, <3>4
  <2>. QED
    BY <2>1, <2>2
<1>16. TargetCorrect'
  BY <1>1, <1>2, <1>3 DEF TargetCorrect, Resuming, Calling
<1>. QED
  BY <1>6, <1>7, <1>8, <1>9, <1>10, <1>11, <1>12, <1>13, <1>14, <1>15, <1>16

\* Tick reaps a finished task: no structure refers to it any more.
LEMMA TickDeleteStep ==
  ASSUME IInv, NEW c \in Core, NEW t \in Task, TickDelete(c, t)
  PROVE  IInv'
<1> USE NCoresAssumption, TimeAssumption, NamesAssumption DEF IInv
<1>1. /\ UNCHANGED <<now, current, schedule, currentTime, born, startTime,
                     reschedule, ended, suspended, pc, frame, early, fault>>
      /\ fault = None
  BY DEF TickDelete, TickPop, Reaps, coreVars, taskVars
<1>2. /\ UNCHANGED <<now, current, currentTime, born, suspended, frame>>
      /\ lock[c] = Free /\ lock'[c] = TickIsr /\ \A k \in Core \ {c} : lock'[k] = lock[k]
      /\ tick[c] = "spin" /\ tick'[c] = "deque" /\ \A k \in Core \ {c} : tick'[k] = tick[k]
  BY TickPopLemma DEF TickDelete
<1>3. /\ current[c] = t /\ ended[t] /\ Listed(c, t) /\ home[t] = c /\ t \in Thread
      /\ pc[t] \notin {"pick", "insert", "find", "lock", "apply", "end"}
      /\ \A k \in Core : t \notin schedule[k] /\ ~Listed(k, t)'
  <2>1. TickPop(c, t) /\ t \notin schedule[c]
    BY DEF TickDelete
  <2>. QED
    BY <2>1, TickPopLemma
<1>4. \A k \in Core, u \in Task : u # t => (Listed(k, u)' <=> Listed(k, u))
  BY TickPopLemma DEF TickDelete
<1>5. /\ \A k \in Core : /\ active'[k] # <<>> /\ IsInjective(active'[k])
                            /\ \A u \in Range(active'[k]) :
                                 IF u = Idle THEN active'[k] = <<Idle>>
                                 ELSE u \in Task \ {t} /\ home[u] = k
      /\ lock' \in [Core -> Thread \cup {Free, TickIsr}]
      /\ active' \in [Core -> Seq(Thread)]
      /\ nTasks' \in [Core -> Nat]
      /\ tick' \in [Core -> {"off", "spin", "deque"}]
      /\ CountConsistent' /\ CurrentListed'
  BY TickPopLemma DEF TickDelete
<1>6. /\ home'[t] = Nowhere /\ \A u \in Task \ {t} : home'[u] = home[u]
  BY DEF TickDelete, TaskTypeOK
<1>7. BootNeverEnds' /\ FramesShape' /\ FramesDistinct'
  BY <1>1, Stable
<1>8. CoreTypeOK'
  BY <1>1, <1>2, <1>5, <1>6 DEF CoreTypeOK
<1>9. TaskTypeOK'
  <2>1. home' = [home EXCEPT ![t] = NCores]
    BY DEF TickDelete, Nowhere
  <2>2. home \in [Task -> 0 .. NCores] /\ NCores \in 0 .. NCores
    BY DEF TaskTypeOK
  <2>3. home' \in [Task -> 0 .. NCores]
    BY <2>1, <2>2
  <2>. QED
    BY <1>1, <2>3 DEF TaskTypeOK
<1>10. ThreadTypeOK'
  BY <1>1 DEF TickDelete, ThreadTypeOK
<1>11. FaultsExplained'
  BY <1>1, Stable
<1>12. ActiveListWellFormed'
  BY <1>1, <1>5, <1>6 DEF ActiveListWellFormed
<1>13. QueueConsistent'
  <2> SUFFICES ASSUME NEW k \in Core, NEW u \in schedule'[k]
               PROVE  home'[u] = k /\ (u \in early' \/ (~ended'[u] /\ ~Listed(k, u)'))
    BY DEF QueueConsistent
  <2>1. CASE u = t
    BY <1>1, <1>3, <1>6, <2>1
  <2>2. CASE u # t
    <3>1. u \in schedule[k] /\ u \in Task
      BY <1>1, <1>6, <2>2, TypesLemma
    <3>2. home[u] = k /\ (u \in early \/ (~ended[u] /\ ~Listed(k, u)))
      BY <3>1 DEF QueueConsistent
    <3>. QED
      BY <1>1, <1>4, <1>6, <2>2, <3>1, <3>2
  <2>. QED
    BY <2>1, <2>2
<1>14. CountConsistent'
  BY <1>5
<1>15. CurrentListed'
  BY <1>5
<1>16. OnlyCurrentEnded'
  <2> SUFFICES ASSUME NEW k \in Core, NEW u \in Task \ early', Listed(k, u)', ended'[u]
               PROVE  current'[k] = u /\ tick'[k] # "deque"
    BY DEF OnlyCurrentEnded
  <2>1. u # t
    BY <1>3
  <2>2. u \notin early /\ Listed(k, u) /\ ended[u]
    BY <1>1, <1>4, <1>6, <2>1
  <2>3. current[k] = u /\ tick[k] # "deque"
    BY <2>2 DEF OnlyCurrentEnded
  <2>. QED
    BY <1>2, <1>3, <2>1, <2>3
<1>17. ParkedIsSuspended'
  <2> SUFFICES ASSUME NEW u \in Task, Parked(u)'
               PROVE  ended'[u] /\ suspended'[u]
    BY DEF ParkedIsSuspended
  <2>1. CASE u = t
    BY <1>6, <2>1 DEF Parked
  <2>2. CASE u # t
    <3>1. PICK k \in Core : k = home'[u] /\ k = home[u]
      BY <1>1, <1>6, <2>2, TypesLemma DEF Parked
    <3>2. ~Listed(k, u)' /\ u \notin schedule'[k]
      BY <3>1 DEF Parked, Listed
    <3>3. ~Listed(k, u) /\ u \notin schedule[k]
      BY <1>1, <1>4, <1>6, <2>2, <3>2
    <3>4. Parked(u)
      BY <3>1, <3>3, TypesLemma DEF Parked
    <3>. QED
      BY <1>1, <1>2, <1>6, <2>2, <3>4 DEF ParkedIsSuspended
  <2>. QED
    BY <2>1, <2>2
<1>18. LockOwners'
  <2>1. \A th \in Thread : ~Holds(th, c)
    BY <1>2 DEF LockOwners, Thread
  <2>2. \A th \in Thread, k \in Core : Holds(th, k)' <=> Holds(th, k)
    BY <1>1, <1>2, <1>3, <1>6 DEF Holds, Thread
  <2>3. \A th \in Thread : th # TickIsr
    BY DEF Thread
  <2>. QED
    BY <1>2, <2>1, <2>2, <2>3 DEF LockOwners
<1>19. CallersListed'
  <2> SUFFICES ASSUME NEW u \in Task
               PROVE  /\ InCall(u)' => (home[u] # Nowhere /\ Listed(home[u], u) /\ ~ended[u])'
                      /\ (pc[u] = "end")' => (home[u] # Nowhere /\ Listed(home[u], u))'
    BY DEF CallersListed
  <2>1. CASE u = t
    BY <1>1, <1>3, <1>6, <2>1 DEF InCall, Creating, Calling
  <2>2. CASE u # t
    <3>1. u \in Thread
      BY DEF Thread
    <3>2. /\ InCall(u)' => home[u] # Nowhere /\ Listed(home[u], u) /\ ~ended[u]
          /\ (pc[u] = "end")' => home[u] # Nowhere /\ Listed(home[u], u)
      BY <1>1, <1>6, <2>2, <3>1 DEF CallersListed, InCall, Creating, Calling
    <3>3. ASSUME NEW k \in Core, home[u] = k, Listed(k, u)
          PROVE  home'[u] = k /\ Listed(k, u)'
      BY <1>1, <1>4, <1>6, <2>2, <3>3
    <3>4. home[u] # Nowhere /\ Listed(home[u], u) => (home[u] # Nowhere /\ Listed(home[u], u))'
      BY <3>3, TypesLemma DEF Listed
    <3>. QED
      BY <1>1, <1>6, <2>2, <3>2, <3>4
  <2>. QED
    BY <2>1, <2>2
<1>20. NewTasksFresh'
  BY <1>1, <1>6 DEF NewTasksFresh, Creating, FramesShape
<1>21. ScanCorrect'
  <2>1. \A u \in Task : home'[u] = Nowhere \/ home'[u] = home[u]
    BY <1>6
  <2>2. \A i \in Core : i <= Nowhere
    BY DEF Core, Nowhere
  <2>3. \A th \in Thread : Calling(th) => frame[th].task \in Task
    BY DEF FramesShape
  <2>. QED
    BY <1>1, <2>1, <2>2, <2>3 DEF ScanCorrect, Calling, Known, Creating
<1>22. TargetCorrect'
  BY <1>1, <1>2, <1>3 DEF TargetCorrect, Resuming, Calling
<1>23. UnbornNowhere'
  BY <1>1, <1>6 DEF UnbornNowhere
<1>. QED
  BY <1>7, <1>8, <1>9, <1>10, <1>11, <1>12, <1>13, <1>14, <1>15, <1>16, <1>17,
     <1>18, <1>19, <1>20, <1>21, <1>22, <1>23

\* Tick moves a due task from the queue to the active list.
LEMMA TickDequeStep ==
  ASSUME IInv, NEW c \in Core, NEW t \in Task, TickDeque(c, t)
  PROVE  IInv'
<1> USE NCoresAssumption, TimeAssumption, NamesAssumption DEF IInv
<1>1. /\ UNCHANGED <<now, lock, current, currentTime, tick, born, home, startTime,
                     reschedule, ended, suspended, pc, frame, early, fault>>
      /\ fault = None
  BY DEF TickDeque, coreVars, taskVars
<1>2. /\ tick[c] = "deque" /\ t \in schedule[c]
      /\ active' = [active EXCEPT ![c] = Push(active[c], t)]
      /\ schedule' = [schedule EXCEPT ![c] = schedule[c] \ {t}]
      /\ nTasks' = [nTasks EXCEPT ![c] = nTasks[c] + 1]
  BY DEF TickDeque, Due
<1>3. home[t] = c /\ ~Listed(c, t) /\ t # Idle /\ (t \in early \/ ~ended[t])
  BY <1>2 DEF TickDeque, QueueConsistent
<1>4. /\ Push(active[c], t) \in Seq(Thread) \ {<<>>} /\ IsInjective(Push(active[c], t)) /\ Push(active[c], t) # <<Idle>>
      /\ active[c] = <<Idle>> => Range(Push(active[c], t)) = {t} /\ Len(Push(active[c], t)) = 1
      /\ active[c] # <<Idle>> => /\ Range(Push(active[c], t)) = Range(active[c]) \cup {t}
                              /\ Len(Push(active[c], t)) = Len(active[c]) + 1
  <2>1. active[c] \in Seq(Thread) /\ active[c] # <<>> /\ IsInjective(active[c]) /\ t \notin Range(active[c])
    BY <1>3 DEF CoreTypeOK, ActiveListWellFormed, Listed
  <2>. QED
    BY <2>1, PushLemma
<1>5. /\ active'[c] = Push(active[c], t) /\ \A k \in Core \ {c} : active'[k] = active[k]
      /\ schedule'[c] = schedule[c] \ {t} /\ \A k \in Core \ {c} : schedule'[k] = schedule[k]
      /\ nTasks'[c] = nTasks[c] + 1 /\ \A k \in Core \ {c} : nTasks'[k] = nTasks[k]
  BY <1>2 DEF CoreTypeOK
<1>6. /\ \A k \in Core, u \in Task : Listed(k, u)' <=> Listed(k, u) \/ (k = c /\ u = t)
      /\ \A u \in Range(active[c]) : active[c] = <<Idle>> \/ u # Idle
      /\ Range(<<Idle>>) = {Idle}
  <2>1. Range(<<Idle>>) = {Idle}
    BY DEF Range
  <2>2. \A u \in Task : Listed(c, u)' <=> Listed(c, u) \/ u = t
    BY <1>4, <1>5, <2>1 DEF Listed
  <2>3. \A k \in Core \ {c}, u \in Task : Listed(k, u)' <=> Listed(k, u)
    BY <1>5 DEF Listed
  <2>4. \A k \in Core \ {c} : k # c
    OBVIOUS
  <2>. QED
    BY <1>3, <2>1, <2>2, <2>3, <2>4 DEF ActiveListWellFormed
<1>7. /\ TaskTypeOK' /\ LockOwners' /\ BootNeverEnds' /\ FramesShape'
      /\ NewTasksFresh' /\ ScanCorrect' /\ FramesDistinct' /\ UnbornNowhere'
  BY <1>1, Stable
<1>8. CoreTypeOK'
  BY <1>1, <1>2, <1>4 DEF CoreTypeOK
<1>9. ThreadTypeOK'
  BY <1>1, <1>3 DEF TickDeque, ThreadTypeOK
<1>10. FaultsExplained'
  BY <1>1, Stable
<1>11. ActiveListWellFormed'
  <2>1. CASE active[c] = <<Idle>>
    BY <1>1, <1>3, <1>4, <1>5, <2>1 DEF ActiveListWellFormed
  <2>2. CASE active[c] # <<Idle>>
    BY <1>1, <1>3, <1>4, <1>5, <1>6, <2>2 DEF ActiveListWellFormed
  <2>. QED
    BY <2>1, <2>2
<1>12. QueueConsistent'
  <2> SUFFICES ASSUME NEW k \in Core, NEW u \in schedule'[k]
               PROVE  home'[u] = k /\ (u \in early' \/ (~ended'[u] /\ ~Listed(k, u)'))
    BY DEF QueueConsistent
  <2>1. u \in schedule[k] /\ u \in Task /\ ~(k = c /\ u = t)
    BY <1>5, TypesLemma
  <2>. QED
    BY <1>1, <1>6, <2>1 DEF QueueConsistent
<1>13. CountConsistent'
  <2>1. Len(active[c]) \in Nat
    BY DEF CoreTypeOK
  <2>2. nTasks[c] \in Nat
    BY DEF CoreTypeOK
  <2>3. nTasks'[c] = 1 + Len(active'[c]) /\ active'[c] # <<Idle>>
    <3>1. CASE active[c] = <<Idle>>
      BY <1>4, <1>5, <3>1 DEF CountConsistent
    <3>2. CASE active[c] # <<Idle>>
      BY <1>4, <1>5, <2>1, <3>2 DEF CountConsistent
    <3>. QED
      BY <3>1, <3>2
  <2>. QED
    BY <1>5, <2>3 DEF CountConsistent
<1>14. CurrentListed'
  <2> SUFFICES ASSUME NEW k \in Core, tick[k] # "deque"
               PROVE  Listed(k, current[k])'
    BY <1>1 DEF CurrentListed
  <2>. QED
    BY <1>1, <1>2, <1>5 DEF CurrentListed, Listed
<1>15. OnlyCurrentEnded'
  BY <1>1, <1>3, <1>6 DEF OnlyCurrentEnded
<1>16. ParkedIsSuspended'
  <2> SUFFICES ASSUME NEW u \in Task, Parked(u)'
               PROVE  ended'[u] /\ suspended'[u]
    BY DEF ParkedIsSuspended
  <2>1. u # t
    BY <1>1, <1>3, <1>6 DEF Parked
  <2>2. Parked(u)
    <3>1. PICK k \in Core : k = home[u]
      BY <1>1, TypesLemma DEF Parked
    <3>2. ~Listed(k, u)' /\ u \notin schedule'[k]
      BY <1>1, <3>1 DEF Parked, Listed
    <3>. QED
      BY <1>5, <1>6, <2>1, <3>1, <3>2, TypesLemma DEF Parked
  <2>. QED
    BY <1>1, <2>2 DEF ParkedIsSuspended
<1>17. CallersListed'
  <2> SUFFICES ASSUME NEW u \in Task
               PROVE  /\ InCall(u)' => (home[u] # Nowhere /\ Listed(home[u], u) /\ ~ended[u])'
                      /\ (pc[u] = "end")' => (home[u] # Nowhere /\ Listed(home[u], u))'
    BY DEF CallersListed
  <2>1. CASE home[u] = Nowhere
    BY <1>1, <2>1 DEF CallersListed, InCall, Creating, Calling
  <2>2. CASE home[u] # Nowhere
    <3>1. PICK k \in Core : k = home[u]
      BY <2>2, TypesLemma
    <3>2. Listed(k, u) => Listed(k, u)'
      BY <1>6
    <3>. QED
      BY <1>1, <3>1, <3>2 DEF CallersListed, InCall, Creating, Calling, Listed
  <2>. QED
    BY <2>1, <2>2
<1>18. TargetCorrect'
  BY <1>1 DEF TargetCorrect, Resuming, Calling
<1>. QED
  BY <1>7, <1>8, <1>9, <1>10, <1>11, <1>12, <1>13, <1>14, <1>15, <1>16, <1>17, <1>18

\* Tick selects the next task and releases the lock.
LEMMA TickSelectStep ==
  ASSUME IInv, NEW c \in Core, TickSelect(c)
  PROVE  IInv'
<1> USE NCoresAssumption, TimeAssumption, NamesAssumption DEF IInv
<1>1. /\ UNCHANGED <<now, active, schedule, nTasks, currentTime, born, home,
                     startTime, reschedule, ended, suspended, pc, frame, early, fault>>
      /\ fault = None
  BY DEF TickSelect, coreVars, taskVars
<1>2. /\ tick[c] = "deque" /\ tick'[c] = "off" /\ \A k \in Core \ {c} : tick'[k] = tick[k]
      /\ lock'[c] = Free /\ \A k \in Core \ {c} : lock'[k] = lock[k]
      /\ current'[c] = Selected(active[c]) /\ \A k \in Core \ {c} : current'[k] = current[k]
  BY DEF TickSelect, Release, CoreTypeOK
<1>3. /\ Selected(active[c]) \in Range(active[c]) /\ Selected(active[c]) \in Thread
  <2>1. active[c] \in Seq(Thread) /\ active[c] # <<>>
    BY DEF CoreTypeOK, ActiveListWellFormed
  <2>2. Len(active[c]) \in Nat \ {0} /\ DOMAIN active[c] = 1 .. Len(active[c])
    BY <2>1
  <2>3. PICK n \in Nat \ {0} : n = Len(active[c])
    BY <2>2
  <2>4. PICK i \in 1 .. n : i = IF n = 1 THEN 1 ELSE 2
    OBVIOUS
  <2>5. Selected(active[c]) = active[c][i]
    BY <2>3, <2>4 DEF Selected
  <2>. QED
    BY <2>1, <2>2, <2>3, <2>5 DEF Range
<1>4. /\ TaskTypeOK' /\ ThreadTypeOK' /\ FaultsExplained' /\ ActiveListWellFormed'
      /\ QueueConsistent' /\ CountConsistent' /\ ParkedIsSuspended'
      /\ CallersListed' /\ BootNeverEnds' /\ FramesShape' /\ NewTasksFresh'
      /\ ScanCorrect' /\ TargetCorrect' /\ FramesDistinct' /\ UnbornNowhere'
  BY <1>1, Stable
<1>5. CoreTypeOK'
  BY <1>1, <1>3 DEF TickSelect, Release, CoreTypeOK
<1>6. CurrentListed'
  BY <1>1, <1>2, <1>3 DEF CurrentListed, Listed
<1>7. OnlyCurrentEnded'
  BY <1>1, <1>2, <1>3 DEF OnlyCurrentEnded, Listed, Thread
<1>8. LockOwners'
  BY <1>1, <1>2, <1>3 DEF LockOwners, Holds, Thread
<1>. QED
  BY <1>4, <1>5, <1>6, <1>7, <1>8

--------------------------------------------------------------------------------
(* The steps of the kernel calls and of the return handler.                *)

\* A constructed task is fresh: in no structure, and under one call only.
LEMMA NewTaskStep ==
  ASSUME IInv, NEW c \in Core, NEW th \in Thread, NEW t \in Task, th # Idle => ~ended[th], NewTask(c, th, t)
  PROVE  IInv'
<1> USE NCoresAssumption, TimeAssumption, NamesAssumption DEF IInv
<1>1. /\ UNCHANGED <<now, lock, current, active, schedule, nTasks, currentTime,
                     tick, home, ended, suspended, early, fault>>
      /\ fault = None
  BY DEF NewTask, Runs, coreVars, taskVars
<1>2. /\ current[c] = th /\ Listed(c, th) /\ tick[c] = "off"
      /\ th # Idle => th \in Task /\ home[th] = c
      /\ Nowhere \notin Core /\ \A u \in Task : home[u] \in Core \cup {Nowhere}
      /\ \A k \in Core : schedule[k] \subseteq Task /\ Range(active[k]) \subseteq Thread
  BY RunsLemma, TypesLemma DEF NewTask
<1>3. /\ pc[th] = "run" /\ pc'[th] = "pick"
      /\ \A x \in Thread \ {th} : pc'[x] = pc[x]
      /\ t \notin born /\ born' = born \cup {t}
      /\ frame'[th] = [call |-> "ScheduleTask", task |-> t, i |-> 1, core |-> 0]
      /\ \A x \in Thread \ {th} : frame'[x] = frame[x]
      /\ th # Idle => ~ended[th]
  BY <1>2 DEF NewTask, Runs, TaskTypeOK, ThreadTypeOK, CoreTypeOK, Thread, Core
<1>4. /\ CoreTypeOK' /\ FaultsExplained' /\ ActiveListWellFormed' /\ QueueConsistent'
      /\ CountConsistent' /\ CurrentListed' /\ OnlyCurrentEnded'
      /\ ParkedIsSuspended'
  BY <1>1, Stable
<1>5. TaskTypeOK'
  BY <1>1, <1>2, <1>3 DEF NewTask, Runs, TaskTypeOK, Core, Nowhere
<1>6. ThreadTypeOK'
  BY <1>1, <1>2, <1>3 DEF NewTask, Runs, ThreadTypeOK, Core, Thread, PCs, Calls,
     NoFrame
<1>7. LockOwners'
  BY <1>1, <1>2, <1>3 DEF LockOwners, Holds, Thread
<1>8. CallersListed'
  BY <1>1, <1>2, <1>3 DEF CallersListed, InCall, Creating, Calling, Listed,
     Thread, Nowhere
<1>9. BootNeverEnds'
  BY <1>1, <1>2, <1>3 DEF BootNeverEnds, Thread
<1>10. FramesShape'
  BY <1>1, <1>2, <1>3 DEF FramesShape, InCall, Creating, Calling, Calls
<1>11. NewTasksFresh'
  BY <1>1, <1>2, <1>3 DEF NewTasksFresh, Creating, UnbornNowhere
<1>12. ScanCorrect'
  BY <1>1, <1>2, <1>3 DEF ScanCorrect, Calling, Known, Creating
<1>13. TargetCorrect'
  BY <1>1, <1>2, <1>3 DEF TargetCorrect, Resuming, Calling
<1>14. FramesDistinct'
  BY <1>1, <1>2, <1>3 DEF FramesDistinct, Creating, Calling, Resuming, NewTasksFresh
<1>15. UnbornNowhere'
  BY <1>1, <1>2, <1>3 DEF UnbornNowhere
<1>. QED
  BY <1>4, <1>5, <1>6, <1>7, <1>8, <1>9, <1>10, <1>11, <1>12, <1>13, <1>14, <1>15

\* The search for the least loaded scheduler changes a local of the caller.
LEMMA PickSchedulerStep ==
  ASSUME IInv, NEW c \in Core, NEW th \in Thread, PickScheduler(c, th)
  PROVE  IInv'
<1> USE NCoresAssumption, TimeAssumption, NamesAssumption DEF IInv
<1>1. /\ UNCHANGED <<now, lock, current, active, schedule, nTasks, currentTime,
                     tick, born, home, startTime, reschedule, ended, suspended, pc,
                     early, fault>>
      /\ fault = None
  BY DEF PickScheduler, Runs, coreVars, taskVars
<1>2. /\ current[c] = th /\ Listed(c, th) /\ tick[c] = "off"
      /\ th # Idle => th \in Task /\ home[th] = c
      /\ Nowhere \notin Core /\ \A u \in Task : home[u] \in Core \cup {Nowhere}
      /\ \A k \in Core : schedule[k] \subseteq Task /\ Range(active[k]) \subseteq Thread
  BY RunsLemma, TypesLemma DEF PickScheduler
<1>3. /\ pc[th] = "pick"
      /\ frame'[th].call = frame[th].call /\ frame'[th].task = frame[th].task
      /\ \A x \in Thread \ {th} : frame'[x] = frame[x]
  BY <1>2 DEF PickScheduler, Runs, TaskTypeOK, ThreadTypeOK, CoreTypeOK, Thread, Core
<1>4. /\ CoreTypeOK' /\ TaskTypeOK' /\ FaultsExplained' /\ ActiveListWellFormed'
      /\ QueueConsistent' /\ CountConsistent' /\ CurrentListed'
      /\ OnlyCurrentEnded' /\ ParkedIsSuspended' /\ CallersListed'
      /\ BootNeverEnds' /\ UnbornNowhere'
  BY <1>1, Stable
<1>5. ThreadTypeOK'
  <2> DEFINE f == frame[th]
             best == IF nTasks[f.core] > nTasks[f.i] THEN f.i ELSE f.core
  <2>1. f \in [call : Calls \cup {"none"}, task : Thread, i : 0 .. NCores, core : Core] /\ f.i < NCores
    BY DEF PickScheduler, ThreadTypeOK
  <2>2. f.i + 1 \in 0 .. NCores /\ best \in Core
    BY <2>1 DEF Core
  <2>3. frame' = [frame EXCEPT ![th] = [f EXCEPT !.i = f.i + 1, !.core = best]]
    BY DEF PickScheduler
  <2>. QED
    BY <1>1, <2>1, <2>2, <2>3 DEF ThreadTypeOK
<1>6. LockOwners'
  BY <1>1, <1>2, <1>3 DEF LockOwners, Holds, Thread
<1>7. FramesShape'
  BY <1>1, <1>2, <1>3 DEF FramesShape, InCall, Creating, Calling, Calls
<1>8. NewTasksFresh'
  BY <1>1, <1>2, <1>3 DEF NewTasksFresh, Creating
<1>9. ScanCorrect'
  BY <1>1, <1>2, <1>3 DEF ScanCorrect, Calling, Known, Creating
<1>10. TargetCorrect'
  BY <1>1, <1>2, <1>3 DEF TargetCorrect, Resuming, Calling
<1>11. FramesDistinct'
  BY <1>1, <1>2, <1>3 DEF FramesDistinct, Creating
<1>. QED
  BY <1>4, <1>5, <1>6, <1>7, <1>8, <1>9, <1>10, <1>11

\* KeScheduleTask takes the lock of the scheduler it has picked.
LEMMA LockToInsertStep ==
  ASSUME IInv, NEW c \in Core, NEW th \in Thread, LockToInsert(c, th)
  PROVE  IInv'
<1> USE NCoresAssumption, TimeAssumption, NamesAssumption DEF IInv
<1>1. /\ UNCHANGED <<now, current, active, schedule, nTasks, currentTime, tick,
                     born, home, startTime, reschedule, ended, suspended, frame,
                     early, fault>>
      /\ fault = None
  BY DEF LockToInsert, Runs, Acquire, coreVars, taskVars
<1>2. /\ current[c] = th /\ Listed(c, th) /\ tick[c] = "off"
      /\ th # Idle => th \in Task /\ home[th] = c
      /\ Nowhere \notin Core /\ \A u \in Task : home[u] \in Core \cup {Nowhere}
      /\ \A k \in Core : schedule[k] \subseteq Task /\ Range(active[k]) \subseteq Thread
  BY RunsLemma, TypesLemma DEF LockToInsert
<1>3. /\ pc[th] = "pick" /\ pc'[th] = "insert"
      /\ \A x \in Thread \ {th} : pc'[x] = pc[x]
      /\ frame[th].core \in Core /\ lock[frame[th].core] = Free
      /\ lock'[frame[th].core] = th
      /\ \A k \in Core \ {frame[th].core} : lock'[k] = lock[k]
  BY <1>2 DEF LockToInsert, Runs, Acquire, TaskTypeOK, ThreadTypeOK, CoreTypeOK,
     Thread, Core
<1>4. /\ TaskTypeOK' /\ FaultsExplained' /\ ActiveListWellFormed' /\ QueueConsistent'
      /\ CountConsistent' /\ CurrentListed' /\ OnlyCurrentEnded'
      /\ ParkedIsSuspended' /\ UnbornNowhere'
  BY <1>1, Stable
<1>5. CoreTypeOK'
  BY <1>1, <1>2, <1>3 DEF LockToInsert, Runs, Acquire, CoreTypeOK, Core, Thread
<1>6. ThreadTypeOK'
  BY <1>1, <1>2, <1>3 DEF LockToInsert, Runs, Acquire, ThreadTypeOK, Core,
     Thread, PCs, Calls, NoFrame
<1>7. LockOwners'
  BY <1>1, <1>2, <1>3 DEF LockOwners, Holds, Thread
<1>8. CallersListed'
  BY <1>1, <1>2, <1>3 DEF CallersListed, InCall, Creating, Calling, Listed, Thread
<1>9. BootNeverEnds'
  BY <1>1, <1>2, <1>3 DEF BootNeverEnds, Thread
<1>10. FramesShape'
  BY <1>1, <1>2, <1>3 DEF FramesShape, InCall, Creating, Calling, Calls
<1>11. NewTasksFresh'
  BY <1>1, <1>2, <1>3 DEF NewTasksFresh, Creating
<1>12. ScanCorrect'
  BY <1>1, <1>2, <1>3 DEF ScanCorrect, Calling, Known, Creating
<1>13. TargetCorrect'
  BY <1>1, <1>2, <1>3 DEF TargetCorrect, Resuming, Calling
<1>14. FramesDistinct'
  BY <1>1, <1>2, <1>3 DEF FramesDistinct, Creating
<1>. QED
  BY <1>4, <1>5, <1>6, <1>7, <1>8, <1>9, <1>10, <1>11, <1>12, <1>13, <1>14

\* KeScheduleTask puts the new task in TaskTree and the queue, and releases.
LEMMA InsertTaskStep ==
  ASSUME IInv, NEW c \in Core, NEW th \in Thread, InsertTask(c, th)
  PROVE  IInv'
<1> USE NCoresAssumption, TimeAssumption, NamesAssumption DEF IInv
<1>1. /\ UNCHANGED <<now, current, active, nTasks, currentTime, tick, born,
                     startTime, reschedule, ended, suspended, early, fault>>
      /\ fault = None
  BY DEF InsertTask, Runs, Release, coreVars, taskVars
<1>2. /\ current[c] = th /\ Listed(c, th) /\ tick[c] = "off"
      /\ th # Idle => th \in Task /\ home[th] = c
      /\ Nowhere \notin Core /\ \A u \in Task : home[u] \in Core \cup {Nowhere}
      /\ \A k \in Core : schedule[k] \subseteq Task /\ Range(active[k]) \subseteq Thread
  BY RunsLemma, TypesLemma DEF InsertTask
<1>3. /\ pc[th] = "insert" /\ pc'[th] = "run"
      /\ \A x \in Thread \ {th} : pc'[x] = pc[x]
      /\ frame'[th] = NoFrame
      /\ \A x \in Thread \ {th} : frame'[x] = frame[x]
      /\ frame[th].core \in Core /\ frame[th].task \in Task
      /\ lock'[frame[th].core] = Free
      /\ \A k \in Core \ {frame[th].core} : lock'[k] = lock[k]
      /\ home'[frame[th].task] = frame[th].core
      /\ \A u \in Task \ {frame[th].task} : home'[u] = home[u]
      /\ schedule'[frame[th].core] = schedule[frame[th].core] \cup {frame[th].task}
      /\ \A k \in Core \ {frame[th].core} : schedule'[k] = schedule[k]
  BY <1>2 DEF InsertTask, Runs, Release, TaskTypeOK, ThreadTypeOK, CoreTypeOK,
     Thread, Core, FramesShape, Creating
<1>4. /\ home[frame[th].task] = Nowhere /\ ~ended[frame[th].task] /\ frame[th].task \in born
      /\ \A k \in Core : k # Nowhere /\ ~Listed(k, frame[th].task) /\ frame[th].task \notin schedule[k]
  BY <1>2, <1>3 DEF NewTasksFresh, Creating, ActiveListWellFormed,
     QueueConsistent, Listed, Nowhere, Core, Thread
<1>5. FaultsExplained' /\ CountConsistent' /\ CurrentListed' /\ OnlyCurrentEnded'
  BY <1>1, Stable
<1>6. CoreTypeOK'
  <2>1. schedule' = [schedule EXCEPT ![frame[th].core] = schedule[frame[th].core] \cup {frame[th].task}]
    BY DEF InsertTask
  <2>2. lock' = [lock EXCEPT ![frame[th].core] = Free]
    BY DEF InsertTask, Release
  <2>. QED
    BY <1>1, <1>3, <2>1, <2>2 DEF CoreTypeOK
<1>7. TaskTypeOK'
  BY <1>1, <1>2, <1>3, <1>4 DEF InsertTask, Runs, Release, TaskTypeOK, Core, Nowhere
<1>8. ThreadTypeOK'
  BY <1>1, <1>2, <1>3, <1>4 DEF InsertTask, Runs, Release, ThreadTypeOK, Core,
     Thread, PCs, Calls, NoFrame
<1>9. ActiveListWellFormed'
  <2> SUFFICES ASSUME NEW k \in Core, NEW u \in Range(active[k]), u # Idle
               PROVE  home'[u] = k
    BY <1>1 DEF ActiveListWellFormed
  <2>1. u \in Task /\ u # frame[th].task
    BY <1>2, <1>4 DEF Thread, Listed
  <2>. QED
    BY <1>3, <2>1 DEF ActiveListWellFormed
<1>10. QueueConsistent'
  BY <1>1, <1>2, <1>3, <1>4 DEF QueueConsistent, Listed
<1>11. ParkedIsSuspended'
  BY <1>1, <1>2, <1>3, <1>4 DEF ParkedIsSuspended, Parked, Listed
<1>12. LockOwners'
  BY <1>1, <1>2, <1>3, <1>4 DEF LockOwners, Holds, Thread, CallersListed
<1>13. CallersListed'
  BY <1>1, <1>2, <1>3, <1>4 DEF CallersListed, InCall, Creating, Calling, Listed, Thread
<1>14. BootNeverEnds'
  BY <1>1, <1>2, <1>3, <1>4 DEF BootNeverEnds, Thread
<1>15. FramesShape'
  BY <1>1, <1>2, <1>3, <1>4 DEF FramesShape, InCall, Creating, Calling, Calls
<1>16. NewTasksFresh'
  BY <1>1, <1>2, <1>3, <1>4 DEF NewTasksFresh, Creating, FramesDistinct, FramesShape
<1>17. ScanCorrect'
  BY <1>1, <1>2, <1>3, <1>4 DEF ScanCorrect, Calling, Known, Creating, FramesShape
<1>18. TargetCorrect'
  BY <1>1, <1>2, <1>3, <1>4 DEF TargetCorrect, Resuming, Calling
<1>19. FramesDistinct'
  BY <1>1, <1>2, <1>3, <1>4 DEF FramesDistinct, Creating
<1>20. UnbornNowhere'
  BY <1>1, <1>2, <1>3, <1>4 DEF UnbornNowhere
<1>. QED
  BY <1>5, <1>6, <1>7, <1>8, <1>9, <1>10, <1>11, <1>12, <1>13, <1>14, <1>15,
     <1>16, <1>17, <1>18, <1>19, <1>20

\* A task enters KeSuspendTask with its own handle.
LEMMA SuspendTaskStep ==
  ASSUME IInv, NEW c \in Core, NEW th \in Thread, th # Idle, ~ended[th], SuspendTask(c, th, th)
  PROVE  IInv'
<1> USE NCoresAssumption, TimeAssumption, NamesAssumption DEF IInv
<1>1. /\ UNCHANGED <<now, lock, current, active, schedule, nTasks, currentTime,
                     tick, born, home, startTime, reschedule, ended, suspended,
                     early, fault>>
      /\ fault = None
  BY DEF SuspendTask, Runs, Enter, coreVars, taskVars
<1>2. /\ current[c] = th /\ Listed(c, th) /\ tick[c] = "off"
      /\ th # Idle => th \in Task /\ home[th] = c
      /\ Nowhere \notin Core /\ \A u \in Task : home[u] \in Core \cup {Nowhere}
      /\ \A k \in Core : schedule[k] \subseteq Task /\ Range(active[k]) \subseteq Thread
  BY RunsLemma, TypesLemma DEF SuspendTask, Enter
<1>3. /\ pc[th] = "run" /\ pc'[th] = "find"
      /\ \A x \in Thread \ {th} : pc'[x] = pc[x]
      /\ home[th] # Nowhere
      /\ frame'[th] = [call |-> "SuspendTask", task |-> th, i |-> 0, core |-> 0]
      /\ \A x \in Thread \ {th} : frame'[x] = frame[x]
      /\ th \in Task /\ ~ended[th]
  BY <1>2 DEF SuspendTask, Runs, Enter, TaskTypeOK, ThreadTypeOK, CoreTypeOK,
     Thread, Core
<1>4. /\ CoreTypeOK' /\ TaskTypeOK' /\ FaultsExplained' /\ ActiveListWellFormed'
      /\ QueueConsistent' /\ CountConsistent' /\ CurrentListed'
      /\ OnlyCurrentEnded' /\ ParkedIsSuspended' /\ UnbornNowhere'
  BY <1>1, Stable
<1>5. ThreadTypeOK'
  BY <1>1, <1>2, <1>3 DEF SuspendTask, Runs, Enter, ThreadTypeOK, Core, Thread,
     PCs, Calls, NoFrame
<1>6. LockOwners'
  BY <1>1, <1>2, <1>3 DEF LockOwners, Holds, Thread
<1>7. CallersListed'
  BY <1>1, <1>2, <1>3 DEF CallersListed, InCall, Creating, Calling, Listed, Thread
<1>8. BootNeverEnds'
  BY <1>1, <1>2, <1>3 DEF BootNeverEnds, Thread
<1>9. FramesShape'
  BY <1>1, <1>2, <1>3 DEF FramesShape, InCall, Creating, Calling, Calls
<1>10. NewTasksFresh'
  BY <1>1, <1>2, <1>3 DEF NewTasksFresh, Creating
<1>11. ScanCorrect'
  <2>1. Known(th)
    BY <1>2, <1>3 DEF Known, UnbornNowhere, NewTasksFresh
  <2>2. 0 \in Core /\ home[th] \in 0 .. NCores
    BY <1>3 DEF Core, TaskTypeOK
  <2>. QED
    BY <1>1, <1>3, <2>1, <2>2 DEF ScanCorrect, Calling, Known, Creating
<1>12. TargetCorrect'
  BY <1>1, <1>2, <1>3 DEF TargetCorrect, Resuming, Calling
<1>13. FramesDistinct'
  BY <1>1, <1>2, <1>3 DEF FramesDistinct, Creating
<1>. QED
  BY <1>4, <1>5, <1>6, <1>7, <1>8, <1>9, <1>10, <1>11, <1>12, <1>13

\* A task enters KeSuspendCurrentTask.
LEMMA SuspendCurrentTaskStep ==
  ASSUME IInv, NEW c \in Core, NEW th \in Thread, th # Idle => ~ended[th], SuspendCurrentTask(c, th)
  PROVE  IInv'
<1> USE NCoresAssumption, TimeAssumption, NamesAssumption DEF IInv
<1>1. /\ UNCHANGED <<now, lock, current, active, schedule, nTasks, currentTime,
                     tick, born, home, startTime, reschedule, ended, suspended,
                     early, fault>>
      /\ fault = None
  BY DEF SuspendCurrentTask, Runs, Enter, coreVars, taskVars
<1>2. /\ current[c] = th /\ Listed(c, th) /\ tick[c] = "off"
      /\ th # Idle => th \in Task /\ home[th] = c
      /\ Nowhere \notin Core /\ \A u \in Task : home[u] \in Core \cup {Nowhere}
      /\ \A k \in Core : schedule[k] \subseteq Task /\ Range(active[k]) \subseteq Thread
  BY RunsLemma, TypesLemma DEF SuspendCurrentTask, Enter
<1>3. /\ pc[th] = "run" /\ pc'[th] = "find"
      /\ \A x \in Thread \ {th} : pc'[x] = pc[x]
      /\ home[th] # Nowhere
      /\ frame'[th] = [call |-> "SuspendCurrentTask", task |-> th, i |-> 0, core |-> 0]
      /\ \A x \in Thread \ {th} : frame'[x] = frame[x]
      /\ th \in Task /\ ~ended[th]
  BY <1>2 DEF SuspendCurrentTask, Runs, Enter, TaskTypeOK, ThreadTypeOK,
     CoreTypeOK, Thread, Core
<1>4. /\ CoreTypeOK' /\ TaskTypeOK' /\ FaultsExplained' /\ ActiveListWellFormed'
      /\ QueueConsistent' /\ CountConsistent' /\ CurrentListed'
      /\ OnlyCurrentEnded' /\ ParkedIsSuspended' /\ UnbornNowhere'
  BY <1>1, Stable
<1>5. ThreadTypeOK'
  BY <1>1, <1>2, <1>3 DEF SuspendCurrentTask, Runs, Enter, ThreadTypeOK, Core,
     Thread, PCs, Calls, NoFrame
<1>6. LockOwners'
  BY <1>1, <1>2, <1>3 DEF LockOwners, Holds, Thread
<1>7. CallersListed'
  BY <1>1, <1>2, <1>3 DEF CallersListed, InCall, Creating, Calling, Listed, Thread
<1>8. BootNeverEnds'
  BY <1>1, <1>2, <1>3 DEF BootNeverEnds, Thread
<1>9. FramesShape'
  BY <1>1, <1>2, <1>3 DEF FramesShape, InCall, Creating, Calling, Calls
<1>10. NewTasksFresh'
  BY <1>1, <1>2, <1>3 DEF NewTasksFresh, Creating
<1>11. ScanCorrect'
  <2>1. Known(th)
    BY <1>2, <1>3 DEF Known, UnbornNowhere, NewTasksFresh
  <2>2. 0 \in Core /\ home[th] \in 0 .. NCores
    BY <1>3 DEF Core, TaskTypeOK
  <2>. QED
    BY <1>1, <1>3, <2>1, <2>2 DEF ScanCorrect, Calling, Known, Creating
<1>12. TargetCorrect'
  BY <1>1, <1>2, <1>3 DEF TargetCorrect, Resuming, Calling
<1>13. FramesDistinct'
  BY <1>1, <1>2, <1>3 DEF FramesDistinct, Creating
<1>. QED
  BY <1>4, <1>5, <1>6, <1>7, <1>8, <1>9, <1>10, <1>11, <1>12, <1>13

\* A task enters KeResumeTask with the handle of any task.
LEMMA ResumeTaskStep ==
  ASSUME IInv, NEW c \in Core, NEW th \in Thread, NEW t \in Task, th # Idle => ~ended[th], th # Idle, Known(t), ResumeTask(c, th, t)
  PROVE  IInv'
<1> USE NCoresAssumption, TimeAssumption, NamesAssumption DEF IInv
<1>1. /\ UNCHANGED <<now, lock, current, active, schedule, nTasks, currentTime,
                     tick, born, home, startTime, reschedule, ended, suspended,
                     early, fault>>
      /\ fault = None
  BY DEF ResumeTask, Runs, Enter, coreVars, taskVars
<1>2. /\ current[c] = th /\ Listed(c, th) /\ tick[c] = "off"
      /\ th # Idle => th \in Task /\ home[th] = c
      /\ Nowhere \notin Core /\ \A u \in Task : home[u] \in Core \cup {Nowhere}
      /\ \A k \in Core : schedule[k] \subseteq Task /\ Range(active[k]) \subseteq Thread
  BY RunsLemma, TypesLemma DEF ResumeTask, Enter
<1>3. /\ pc[th] = "run" /\ pc'[th] = "find"
      /\ \A x \in Thread \ {th} : pc'[x] = pc[x]
      /\ frame'[th] = [call |-> "ResumeTask", task |-> t, i |-> 0, core |-> 0]
      /\ \A x \in Thread \ {th} : frame'[x] = frame[x]
      /\ th # Idle => ~ended[th]
      /\ Known(t)
  BY <1>2 DEF ResumeTask, Runs, Enter, TaskTypeOK, ThreadTypeOK, CoreTypeOK,
     Thread, Core
<1>4. /\ CoreTypeOK' /\ TaskTypeOK' /\ FaultsExplained' /\ ActiveListWellFormed'
      /\ QueueConsistent' /\ CountConsistent' /\ CurrentListed'
      /\ OnlyCurrentEnded' /\ ParkedIsSuspended' /\ UnbornNowhere'
  BY <1>1, Stable
<1>5. ThreadTypeOK'
  BY <1>1, <1>2, <1>3 DEF ResumeTask, Runs, Enter, ThreadTypeOK, Core, Thread,
     PCs, Calls, NoFrame
<1>6. LockOwners'
  BY <1>1, <1>2, <1>3 DEF LockOwners, Holds, Thread
<1>7. CallersListed'
  BY <1>1, <1>2, <1>3 DEF CallersListed, InCall, Creating, Calling, Listed,
     Thread, Nowhere
<1>8. BootNeverEnds'
  BY <1>1, <1>2, <1>3 DEF BootNeverEnds, Thread
<1>9. FramesShape'
  BY <1>1, <1>2, <1>3 DEF FramesShape, InCall, Creating, Calling, Calls
<1>10. NewTasksFresh'
  BY <1>1, <1>2, <1>3 DEF NewTasksFresh, Creating
<1>11. ScanCorrect'
  <2>1. Known(t)
    BY <1>2, <1>3 DEF Known, UnbornNowhere, NewTasksFresh
  <2>2. 0 \in Core /\ home[t] \in 0 .. NCores
    BY <1>3 DEF Core, TaskTypeOK
  <2>. QED
    BY <1>1, <1>3, <2>1, <2>2 DEF ScanCorrect, Calling, Known, Creating
<1>12. TargetCorrect'
  BY <1>1, <1>2, <1>3 DEF TargetCorrect, Resuming, Calling
<1>13. FramesDistinct'
  BY <1>1, <1>2, <1>3 DEF FramesDistinct, Creating
<1>. QED
  BY <1>4, <1>5, <1>6, <1>7, <1>8, <1>9, <1>10, <1>11, <1>12, <1>13

\* KeQueryScheduler does not pass the scheduler that has the task.
LEMMA FindSchedulerStep ==
  ASSUME IInv, NEW c \in Core, NEW th \in Thread, FindScheduler(c, th)
  PROVE  IInv'
<1> USE NCoresAssumption, TimeAssumption, NamesAssumption DEF IInv
<1>1. /\ UNCHANGED <<now, lock, current, active, schedule, nTasks, currentTime,
                     tick, born, home, startTime, reschedule, ended, suspended, early, fault>>
      /\ fault = None
  BY DEF FindScheduler, Runs, coreVars, taskVars
<1>2. /\ current[c] = th /\ Listed(c, th) /\ tick[c] = "off"
      /\ th # Idle => th \in Task /\ home[th] = c
      /\ Nowhere \notin Core /\ \A u \in Task : home[u] \in Core \cup {Nowhere}
      /\ \A k \in Core : schedule[k] \subseteq Task /\ Range(active[k]) \subseteq Thread
  BY RunsLemma, TypesLemma DEF FindScheduler
<1>3. /\ pc[th] = "find" /\ frame[th].task \in Task
      /\ frame[th].i \in Core /\ frame[th].i <= home[frame[th].task]
  BY <1>2 DEF FindScheduler, Runs, ScanCorrect, FramesShape, Calling
<1>4. home[frame[th].task] # frame[th].i => frame[th].i + 1 \in Core
  BY <1>3 DEF FindScheduler, Core
<1>5. /\ frame' = [frame EXCEPT ![th].i = IF home[frame[th].task] = frame[th].i THEN @ ELSE frame[th].i + 1,
                                ![th].core = IF home[frame[th].task] = frame[th].i THEN frame[th].i ELSE @]
  BY DEF FindScheduler
<1>6. /\ \A x \in Thread \ {th} : frame'[x] = frame[x]
      /\ frame'[th].call = frame[th].call /\ frame'[th].task = frame[th].task
      /\ home[frame[th].task] = frame[th].i => frame'[th].core = frame[th].i
      /\ home[frame[th].task] # frame[th].i => frame'[th].i = frame[th].i + 1
  BY <1>4, <1>5 DEF ThreadTypeOK
<1>7. /\ \A x \in Thread \ {th} : pc'[x] = pc[x]
      /\ home[frame[th].task] = frame[th].i => pc'[th] = "lock"
      /\ home[frame[th].task] # frame[th].i => pc'[th] = "find"
  BY <1>3 DEF FindScheduler, ThreadTypeOK
<1>8. home[frame[th].task] # frame[th].i =>
        frame'[th].i \in Core /\ frame'[th].i <= home[frame[th].task]
  BY <1>2, <1>3, <1>4, <1>6 DEF Core, Nowhere
<1>9. /\ CoreTypeOK' /\ TaskTypeOK' /\ ActiveListWellFormed' /\ QueueConsistent'
      /\ CountConsistent' /\ CurrentListed' /\ OnlyCurrentEnded'
      /\ ParkedIsSuspended' /\ UnbornNowhere'
  BY <1>1, Stable
<1>10. ThreadTypeOK'
  <2> DEFINE f == frame[th]
             found == home[f.task] = f.i
             next == IF found THEN f.i ELSE f.i + 1
             core == IF found THEN f.i ELSE f.core
  <2>1. f \in [call : Calls \cup {"none"}, task : Thread, i : 0 .. NCores, core : Core]
    BY DEF ThreadTypeOK
  <2>2. next \in 0 .. NCores
    BY <1>3, <1>4 DEF Core
  <2>3. core \in Core
    BY <1>3, <2>1
  <2>4. frame' = [frame EXCEPT ![th] = [f EXCEPT !.i = next, !.core = core]]
    BY DEF FindScheduler
  <2>5. frame' \in [Thread -> [call : Calls \cup {"none"}, task : Thread, i : 0 .. NCores, core : Core]]
    <3>. HIDE DEF next, core
    <3>. QED
      BY <2>1, <2>2, <2>3, <2>4 DEF ThreadTypeOK
  <2>6. pc' \in [Thread -> PCs]
    BY DEF FindScheduler, ThreadTypeOK, PCs
  <2>. QED
    BY <1>1, <2>5, <2>6 DEF ThreadTypeOK
<1>11. FaultsExplained'
  BY <1>1, Stable
<1>12. LockOwners'
  BY <1>1, <1>2, <1>3, <1>4, <1>6, <1>7, <1>8 DEF LockOwners, Holds, Thread
<1>13. CallersListed'
  BY <1>1, <1>2, <1>3, <1>4, <1>6, <1>7, <1>8 DEF CallersListed, InCall,
     Creating, Calling, Listed, Thread
<1>14. BootNeverEnds'
  BY <1>1, <1>2, <1>3, <1>4, <1>6, <1>7, <1>8 DEF BootNeverEnds, Thread
<1>15. FramesShape'
  BY <1>1, <1>2, <1>3, <1>4, <1>6, <1>7, <1>8 DEF FramesShape, InCall, Creating,
     Calling, Calls
<1>16. NewTasksFresh'
  BY <1>1, <1>2, <1>3, <1>4, <1>6, <1>7, <1>8 DEF NewTasksFresh, Creating
<1>17. ScanCorrect'
  BY <1>1, <1>2, <1>3, <1>4, <1>6, <1>7, <1>8 DEF ScanCorrect, Calling, Known, Creating
<1>18. TargetCorrect'
  BY <1>1, <1>2, <1>3, <1>4, <1>6, <1>7, <1>8 DEF TargetCorrect, Resuming, Calling
<1>19. FramesDistinct'
  BY <1>1, <1>2, <1>3, <1>4, <1>6, <1>7, <1>8 DEF FramesDistinct, Creating,
     Calling, Resuming
<1>. QED
  BY <1>9, <1>10, <1>11, <1>12, <1>13, <1>14, <1>15, <1>16, <1>17, <1>18, <1>19

\* KeSuspendTask or KeResumeTask takes the lock of that scheduler.
LEMMA LockToApplyStep ==
  ASSUME IInv, NEW c \in Core, NEW th \in Thread, LockToApply(c, th)
  PROVE  IInv'
<1> USE NCoresAssumption, TimeAssumption, NamesAssumption DEF IInv
<1>1. /\ UNCHANGED <<now, current, active, schedule, nTasks, currentTime, tick,
                     born, home, startTime, reschedule, ended, suspended, frame,
                     early, fault>>
      /\ fault = None
  BY DEF LockToApply, Runs, Acquire, coreVars, taskVars
<1>2. /\ current[c] = th /\ Listed(c, th) /\ tick[c] = "off"
      /\ th # Idle => th \in Task /\ home[th] = c
      /\ Nowhere \notin Core /\ \A u \in Task : home[u] \in Core \cup {Nowhere}
      /\ \A k \in Core : schedule[k] \subseteq Task /\ Range(active[k]) \subseteq Thread
  BY RunsLemma, TypesLemma DEF LockToApply
<1>3. /\ pc[th] = "lock" /\ pc'[th] = "apply"
      /\ \A x \in Thread \ {th} : pc'[x] = pc[x]
      /\ frame[th].core \in Core /\ lock[frame[th].core] = Free
      /\ lock'[frame[th].core] = th
      /\ \A k \in Core \ {frame[th].core} : lock'[k] = lock[k]
  BY <1>2 DEF LockToApply, Runs, Acquire, TaskTypeOK, ThreadTypeOK, CoreTypeOK,
     Thread, Core
<1>4. /\ TaskTypeOK' /\ FaultsExplained' /\ ActiveListWellFormed' /\ QueueConsistent'
      /\ CountConsistent' /\ CurrentListed' /\ OnlyCurrentEnded'
      /\ ParkedIsSuspended' /\ UnbornNowhere'
  BY <1>1, Stable
<1>5. CoreTypeOK'
  BY <1>1, <1>2, <1>3 DEF LockToApply, Runs, Acquire, CoreTypeOK, Core, Thread
<1>6. ThreadTypeOK'
  BY <1>1, <1>2, <1>3 DEF LockToApply, Runs, Acquire, ThreadTypeOK, Core,
     Thread, PCs, Calls, NoFrame
<1>7. LockOwners'
  BY <1>1, <1>2, <1>3 DEF LockOwners, Holds, Thread
<1>8. CallersListed'
  BY <1>1, <1>2, <1>3 DEF CallersListed, InCall, Creating, Calling, Listed, Thread
<1>9. BootNeverEnds'
  BY <1>1, <1>2, <1>3 DEF BootNeverEnds, Thread
<1>10. FramesShape'
  BY <1>1, <1>2, <1>3 DEF FramesShape, InCall, Creating, Calling, Calls
<1>11. NewTasksFresh'
  BY <1>1, <1>2, <1>3 DEF NewTasksFresh, Creating
<1>12. ScanCorrect'
  BY <1>1, <1>2, <1>3 DEF ScanCorrect, Calling, Known, Creating
<1>13. TargetCorrect'
  BY <1>1, <1>2, <1>3 DEF TargetCorrect, Resuming, Calling
<1>14. FramesDistinct'
  BY <1>1, <1>2, <1>3 DEF FramesDistinct, Creating
<1>. QED
  BY <1>4, <1>5, <1>6, <1>7, <1>8, <1>9, <1>10, <1>11, <1>12, <1>13, <1>14

\* The critical section of KeSuspendTask marks the caller itself.
LEMMA ApplySuspendStep ==
  ASSUME IInv, NEW c \in Core, NEW th \in Thread, ApplySuspend(c, th)
  PROVE  IInv'
<1> USE NCoresAssumption, TimeAssumption, NamesAssumption DEF IInv
<1>1. /\ UNCHANGED <<now, current, active, schedule, nTasks, currentTime, tick,
                     born, home, startTime, reschedule, early, fault>>
      /\ fault = None
  BY DEF ApplySuspend, Runs, Release, coreVars, taskVars
<1>2. /\ current[c] = th /\ Listed(c, th) /\ tick[c] = "off"
      /\ th # Idle => th \in Task /\ home[th] = c
      /\ Nowhere \notin Core /\ \A u \in Task : home[u] \in Core \cup {Nowhere}
      /\ \A k \in Core : schedule[k] \subseteq Task /\ Range(active[k]) \subseteq Thread
  BY RunsLemma, TypesLemma DEF ApplySuspend
<1>3. /\ pc[th] = "apply" /\ frame[th].task = th /\ frame[th].core = home[th]
  BY DEF ApplySuspend, TargetCorrect, Calling, Resuming
<1>4. /\ th \in Task /\ th # Idle /\ ~ended[th]
      /\ home[th] = c /\ frame[th].core = c
  BY <1>2, <1>3 DEF ApplySuspend, Runs, Release, FramesShape, CallersListed,
     InCall, Calling
<1>5. /\ pc'[th] \in {"run", "park"}
      /\ \A x \in Thread \ {th} : pc'[x] = pc[x]
      /\ frame'[th] = NoFrame
      /\ \A x \in Thread \ {th} : frame'[x] = frame[x]
      /\ lock'[c] = Free
      /\ \A k \in Core \ {c} : lock'[k] = lock[k]
      /\ ended'[th] = TRUE /\ suspended'[th] = TRUE
      /\ \A u \in Task \ {th} : ended'[u] = ended[u] /\ suspended'[u] = suspended[u]
  BY <1>2, <1>3, <1>4 DEF ApplySuspend, Runs, Release, TaskTypeOK, ThreadTypeOK,
     CoreTypeOK, Thread, Core
<1>6. ActiveListWellFormed' /\ CountConsistent' /\ CurrentListed'
  BY <1>1, Stable
<1>7. CoreTypeOK'
  BY <1>1, <1>2, <1>3, <1>4, <1>5 DEF ApplySuspend, Runs, Release, CoreTypeOK,
     Core, Thread
<1>8. TaskTypeOK'
  BY <1>1, <1>2, <1>3, <1>4, <1>5 DEF ApplySuspend, Runs, Release, TaskTypeOK,
     Core, Nowhere
<1>9. ThreadTypeOK'
  BY <1>1, <1>2, <1>3, <1>4, <1>5 DEF ApplySuspend, Runs, Release, ThreadTypeOK,
     Core, Thread, PCs, Calls, NoFrame
<1>10. FaultsExplained'
  BY <1>1, Stable
<1>11. QueueConsistent'
  BY <1>1, <1>2, <1>3, <1>4, <1>5 DEF QueueConsistent, Listed
<1>12. OnlyCurrentEnded'
  BY <1>1, <1>2, <1>3, <1>4, <1>5 DEF OnlyCurrentEnded, Listed, Thread,
     ActiveListWellFormed
<1>13. ParkedIsSuspended'
  BY <1>1, <1>2, <1>3, <1>4, <1>5 DEF ParkedIsSuspended, Parked, Listed
<1>14. LockOwners'
  BY <1>1, <1>2, <1>3, <1>4, <1>5 DEF LockOwners, Holds, Thread
<1>15. CallersListed'
  BY <1>1, <1>2, <1>3, <1>4, <1>5 DEF CallersListed, InCall, Creating, Calling,
     Listed, Thread
<1>16. BootNeverEnds'
  BY <1>1, <1>2, <1>3, <1>4, <1>5 DEF BootNeverEnds, Thread
<1>17. FramesShape'
  BY <1>1, <1>2, <1>3, <1>4, <1>5 DEF FramesShape, InCall, Creating, Calling, Calls
<1>18. NewTasksFresh'
  BY <1>1, <1>2, <1>3, <1>4, <1>5 DEF NewTasksFresh, Creating, Nowhere, Core,
     FramesShape
<1>19. ScanCorrect'
  BY <1>1, <1>2, <1>3, <1>4, <1>5 DEF ScanCorrect, Calling, Known, Creating
<1>20. TargetCorrect'
  BY <1>1, <1>2, <1>3, <1>4, <1>5 DEF TargetCorrect, Resuming, Calling
<1>21. FramesDistinct'
  BY <1>1, <1>2, <1>3, <1>4, <1>5 DEF FramesDistinct, Creating
<1>22. UnbornNowhere'
  BY <1>1, <1>2, <1>3, <1>4, <1>5 DEF UnbornNowhere, Nowhere, Core
<1>. QED
  BY <1>6, <1>7, <1>8, <1>9, <1>10, <1>11, <1>12, <1>13, <1>14, <1>15, <1>16,
     <1>17, <1>18, <1>19, <1>20, <1>21, <1>22

\* The critical section of KeResumeTask queues its task, which may be active as well.
LEMMA ApplyResumeStep ==
  ASSUME IInv, NEW c \in Core, NEW th \in Thread, ApplyResume(c, th)
  PROVE  IInv'
<1> USE NCoresAssumption, TimeAssumption, NamesAssumption DEF IInv
<1>1. /\ UNCHANGED <<now, current, active, nTasks, currentTime, tick, born, home,
                     reschedule, fault>>
      /\ fault = None
  BY DEF ApplyResume, Runs, Release, coreVars, taskVars
<1>2. /\ current[c] = th /\ Listed(c, th) /\ tick[c] = "off"
      /\ th # Idle => th \in Task /\ home[th] = c
      /\ Nowhere \notin Core /\ \A u \in Task : home[u] \in Core \cup {Nowhere}
      /\ \A k \in Core : schedule[k] \subseteq Task /\ Range(active[k]) \subseteq Thread
  BY RunsLemma, TypesLemma DEF ApplyResume
<1>3. /\ pc[th] = "apply" /\ Resuming(th) /\ frame[th].task \in Task /\ frame[th].core \in Core /\ home[frame[th].task] = frame[th].core
      /\ frame[th].task \notin schedule[frame[th].core] /\ Known(frame[th].task)
      /\ early' = IF Listed(frame[th].core, frame[th].task) THEN early \cup {frame[th].task} ELSE early
  BY DEF ApplyResume, ScanCorrect, FramesShape, Calling, Resuming, ThreadTypeOK
<1>4. /\ pc'[th] = "run"
      /\ \A x \in Thread \ {th} : pc'[x] = pc[x]
      /\ frame'[th] = NoFrame
      /\ \A x \in Thread \ {th} : frame'[x] = frame[x]
      /\ lock'[frame[th].core] = Free
      /\ \A k \in Core \ {frame[th].core} : lock'[k] = lock[k]
      /\ ended'[frame[th].task] = FALSE /\ suspended'[frame[th].task] = FALSE
      /\ \A u \in Task \ {frame[th].task} : ended'[u] = ended[u] /\ suspended'[u] = suspended[u]
      /\ schedule'[frame[th].core] = schedule[frame[th].core] \cup {frame[th].task}
      /\ \A k \in Core \ {frame[th].core} : schedule'[k] = schedule[k]
  BY <1>2, <1>3 DEF ApplyResume, Runs, Release, TaskTypeOK, ThreadTypeOK,
     CoreTypeOK, Thread, Core
<1>5. ActiveListWellFormed' /\ CountConsistent' /\ CurrentListed'
  BY <1>1, Stable
<1>6. CoreTypeOK'
  <2>1. schedule' = [schedule EXCEPT ![frame[th].core] = schedule[frame[th].core] \cup {frame[th].task}]
    BY DEF ApplyResume
  <2>2. lock' = [lock EXCEPT ![frame[th].core] = Free]
    BY DEF ApplyResume, Release
  <2>. QED
    BY <1>1, <1>3, <2>1, <2>2 DEF CoreTypeOK
<1>7. TaskTypeOK'
  BY <1>1, <1>2, <1>3, <1>4 DEF ApplyResume, Runs, Release, TaskTypeOK, Core, Nowhere
<1>8. ThreadTypeOK'
  BY <1>1, <1>2, <1>3, <1>4 DEF ApplyResume, Runs, Release, ThreadTypeOK, Core,
     Thread, PCs, Calls, NoFrame
<1>9. FaultsExplained'
  BY <1>1, Stable
<1>10. QueueConsistent'
  BY <1>1, <1>2, <1>3, <1>4 DEF QueueConsistent, Listed
<1>11. OnlyCurrentEnded'
  BY <1>1, <1>2, <1>3, <1>4 DEF OnlyCurrentEnded, Listed, Thread
<1>12. ParkedIsSuspended'
  BY <1>1, <1>2, <1>3, <1>4 DEF ParkedIsSuspended, Parked, Listed
<1>13. LockOwners'
  BY <1>1, <1>2, <1>3, <1>4 DEF LockOwners, Holds, Thread
<1>14. CallersListed'
  BY <1>1, <1>2, <1>3, <1>4 DEF CallersListed, InCall, Creating, Calling, Listed, Thread
<1>15. BootNeverEnds'
  BY <1>1, <1>2, <1>3, <1>4 DEF BootNeverEnds, Thread
<1>16. FramesShape'
  BY <1>1, <1>2, <1>3, <1>4 DEF FramesShape, InCall, Creating, Calling, Calls
<1>17. NewTasksFresh'
  BY <1>1, <1>2, <1>3, <1>4 DEF NewTasksFresh, Creating, FramesShape, Known
<1>18. ScanCorrect'
  BY <1>1, <1>2, <1>3, <1>4 DEF ScanCorrect, Calling, Known, Creating
<1>19. TargetCorrect'
  BY <1>1, <1>2, <1>3, <1>4 DEF TargetCorrect, Resuming, Calling, FramesDistinct, FramesShape
<1>20. FramesDistinct'
  BY <1>1, <1>2, <1>3, <1>4 DEF FramesDistinct, Creating
<1>21. UnbornNowhere'
  BY <1>1, <1>2, <1>3, <1>4 DEF UnbornNowhere, Known
<1>. QED
  BY <1>5, <1>6, <1>7, <1>8, <1>9, <1>10, <1>11, <1>12, <1>13, <1>14, <1>15,
     <1>16, <1>17, <1>18, <1>19, <1>20, <1>21

\* The loop of KeSuspendCurrentTask is left.
LEMMA ResumedStep ==
  ASSUME IInv, NEW c \in Core, NEW th \in Thread, Resumed(c, th)
  PROVE  IInv'
<1> USE NCoresAssumption, TimeAssumption, NamesAssumption DEF IInv
<1>1. /\ UNCHANGED <<now, lock, current, active, schedule, nTasks, currentTime,
                     tick, born, home, startTime, reschedule, ended, suspended,
                     frame, early, fault>>
      /\ fault = None
  BY DEF Resumed, Runs, coreVars, taskVars
<1>2. /\ current[c] = th /\ Listed(c, th) /\ tick[c] = "off"
      /\ th # Idle => th \in Task /\ home[th] = c
      /\ Nowhere \notin Core /\ \A u \in Task : home[u] \in Core \cup {Nowhere}
      /\ \A k \in Core : schedule[k] \subseteq Task /\ Range(active[k]) \subseteq Thread
  BY RunsLemma, TypesLemma DEF Resumed
<1>3. /\ pc[th] = "park" /\ pc'[th] = "run"
      /\ \A x \in Thread \ {th} : pc'[x] = pc[x]
  BY <1>2 DEF Resumed, Runs, TaskTypeOK, ThreadTypeOK, CoreTypeOK, Thread, Core
<1>4. /\ CoreTypeOK' /\ TaskTypeOK' /\ FaultsExplained' /\ ActiveListWellFormed'
      /\ QueueConsistent' /\ CountConsistent' /\ CurrentListed'
      /\ OnlyCurrentEnded' /\ ParkedIsSuspended' /\ UnbornNowhere'
  BY <1>1, Stable
<1>5. ThreadTypeOK'
  BY <1>1, <1>2, <1>3 DEF Resumed, Runs, ThreadTypeOK, Core, Thread, PCs, Calls,
     NoFrame
<1>6. LockOwners'
  BY <1>1, <1>2, <1>3 DEF LockOwners, Holds, Thread
<1>7. CallersListed'
  BY <1>1, <1>2, <1>3 DEF CallersListed, InCall, Creating, Calling, Listed, Thread
<1>8. BootNeverEnds'
  BY <1>1, <1>2, <1>3 DEF BootNeverEnds, Thread
<1>9. FramesShape'
  BY <1>1, <1>2, <1>3 DEF FramesShape, InCall, Creating, Calling, Calls
<1>10. NewTasksFresh'
  BY <1>1, <1>2, <1>3 DEF NewTasksFresh, Creating
<1>11. ScanCorrect'
  BY <1>1, <1>2, <1>3 DEF ScanCorrect, Calling, Known, Creating
<1>12. TargetCorrect'
  BY <1>1, <1>2, <1>3 DEF TargetCorrect, Resuming, Calling
<1>13. FramesDistinct'
  BY <1>1, <1>2, <1>3 DEF FramesDistinct, Creating
<1>. QED
  BY <1>4, <1>5, <1>6, <1>7, <1>8, <1>9, <1>10, <1>11, <1>12, <1>13

\* The entry point of a task returns.
LEMMA ReturnStep ==
  ASSUME IInv, NEW c \in Core, NEW th \in Thread, Return(c, th)
  PROVE  IInv'
<1> USE NCoresAssumption, TimeAssumption, NamesAssumption DEF IInv
<1>1. /\ UNCHANGED <<now, lock, current, active, schedule, nTasks, currentTime,
                     tick, born, home, startTime, reschedule, ended, suspended,
                     frame, early, fault>>
      /\ fault = None
  BY DEF Return, Runs, coreVars, taskVars
<1>2. /\ current[c] = th /\ Listed(c, th) /\ tick[c] = "off"
      /\ th # Idle => th \in Task /\ home[th] = c
      /\ Nowhere \notin Core /\ \A u \in Task : home[u] \in Core \cup {Nowhere}
      /\ \A k \in Core : schedule[k] \subseteq Task /\ Range(active[k]) \subseteq Thread
  BY RunsLemma, TypesLemma DEF Return
<1>3. /\ pc[th] = "run" /\ pc'[th] = "return"
      /\ \A x \in Thread \ {th} : pc'[x] = pc[x]
      /\ th \in Task
  BY <1>2 DEF Return, Runs, TaskTypeOK, ThreadTypeOK, CoreTypeOK, Thread, Core
<1>4. /\ CoreTypeOK' /\ TaskTypeOK' /\ FaultsExplained' /\ ActiveListWellFormed'
      /\ QueueConsistent' /\ CountConsistent' /\ CurrentListed'
      /\ OnlyCurrentEnded' /\ ParkedIsSuspended' /\ UnbornNowhere'
  BY <1>1, Stable
<1>5. ThreadTypeOK'
  BY <1>1, <1>2, <1>3 DEF Return, Runs, ThreadTypeOK, Core, Thread, PCs, Calls,
     NoFrame
<1>6. LockOwners'
  BY <1>1, <1>2, <1>3 DEF LockOwners, Holds, Thread
<1>7. CallersListed'
  BY <1>1, <1>2, <1>3 DEF CallersListed, InCall, Creating, Calling, Listed, Thread
<1>8. BootNeverEnds'
  BY <1>1, <1>2, <1>3 DEF BootNeverEnds, Thread
<1>9. FramesShape'
  BY <1>1, <1>2, <1>3 DEF FramesShape, InCall, Creating, Calling, Calls
<1>10. NewTasksFresh'
  BY <1>1, <1>2, <1>3 DEF NewTasksFresh, Creating
<1>11. ScanCorrect'
  BY <1>1, <1>2, <1>3 DEF ScanCorrect, Calling, Known, Creating
<1>12. TargetCorrect'
  BY <1>1, <1>2, <1>3 DEF TargetCorrect, Resuming, Calling
<1>13. FramesDistinct'
  BY <1>1, <1>2, <1>3 DEF FramesDistinct, Creating
<1>. QED
  BY <1>4, <1>5, <1>6, <1>7, <1>8, <1>9, <1>10, <1>11, <1>12, <1>13

\* ReturnHandler takes the lock of the core it runs on.
LEMMA LockToEndStep ==
  ASSUME IInv, NEW c \in Core, NEW th \in Thread, LockToEnd(c, th)
  PROVE  IInv'
<1> USE NCoresAssumption, TimeAssumption, NamesAssumption DEF IInv
<1>1. /\ UNCHANGED <<now, current, active, schedule, nTasks, currentTime, tick,
                     born, home, startTime, reschedule, ended, suspended, frame,
                     early, fault>>
      /\ fault = None
  BY DEF LockToEnd, Runs, Acquire, coreVars, taskVars
<1>2. /\ current[c] = th /\ Listed(c, th) /\ tick[c] = "off"
      /\ th # Idle => th \in Task /\ home[th] = c
      /\ Nowhere \notin Core /\ \A u \in Task : home[u] \in Core \cup {Nowhere}
      /\ \A k \in Core : schedule[k] \subseteq Task /\ Range(active[k]) \subseteq Thread
  BY RunsLemma, TypesLemma DEF LockToEnd
<1>3. /\ pc[th] = "return" /\ pc'[th] = "end"
      /\ \A x \in Thread \ {th} : pc'[x] = pc[x]
      /\ th \in Task /\ lock[c] = Free
      /\ lock'[c] = th
      /\ \A k \in Core \ {c} : lock'[k] = lock[k]
  BY <1>2 DEF LockToEnd, Runs, Acquire, TaskTypeOK, ThreadTypeOK, CoreTypeOK,
     Thread, Core, BootNeverEnds
<1>4. /\ TaskTypeOK' /\ FaultsExplained' /\ ActiveListWellFormed' /\ QueueConsistent'
      /\ CountConsistent' /\ CurrentListed' /\ OnlyCurrentEnded'
      /\ ParkedIsSuspended' /\ UnbornNowhere'
  BY <1>1, Stable
<1>5. CoreTypeOK'
  BY <1>1, <1>2, <1>3 DEF LockToEnd, Runs, Acquire, CoreTypeOK, Core, Thread
<1>6. ThreadTypeOK'
  BY <1>1, <1>2, <1>3 DEF LockToEnd, Runs, Acquire, ThreadTypeOK, Core, Thread,
     PCs, Calls, NoFrame
<1>7. LockOwners'
  BY <1>1, <1>2, <1>3 DEF LockOwners, Holds, Thread
<1>8. CallersListed'
  BY <1>1, <1>2, <1>3 DEF CallersListed, InCall, Creating, Calling, Listed,
     Thread, Nowhere
<1>9. BootNeverEnds'
  BY <1>1, <1>2, <1>3 DEF BootNeverEnds, Thread
<1>10. FramesShape'
  BY <1>1, <1>2, <1>3 DEF FramesShape, InCall, Creating, Calling, Calls
<1>11. NewTasksFresh'
  BY <1>1, <1>2, <1>3 DEF NewTasksFresh, Creating
<1>12. ScanCorrect'
  BY <1>1, <1>2, <1>3 DEF ScanCorrect, Calling, Known, Creating
<1>13. TargetCorrect'
  BY <1>1, <1>2, <1>3 DEF TargetCorrect, Resuming, Calling
<1>14. FramesDistinct'
  BY <1>1, <1>2, <1>3 DEF FramesDistinct, Creating
<1>. QED
  BY <1>4, <1>5, <1>6, <1>7, <1>8, <1>9, <1>10, <1>11, <1>12, <1>13, <1>14

\* ReturnHandler marks the current task as ended.
LEMMA EndTaskStep ==
  ASSUME IInv, NEW c \in Core, NEW th \in Thread, EndTask(c, th)
  PROVE  IInv'
<1> USE NCoresAssumption, TimeAssumption, NamesAssumption DEF IInv
<1>1. /\ UNCHANGED <<now, current, active, schedule, nTasks, currentTime, tick,
                     born, home, startTime, reschedule, suspended, frame, early, fault>>
      /\ fault = None
  BY DEF EndTask, Runs, Release, coreVars, taskVars
<1>2. /\ current[c] = th /\ Listed(c, th) /\ tick[c] = "off"
      /\ th # Idle => th \in Task /\ home[th] = c
      /\ Nowhere \notin Core /\ \A u \in Task : home[u] \in Core \cup {Nowhere}
      /\ \A k \in Core : schedule[k] \subseteq Task /\ Range(active[k]) \subseteq Thread
  BY RunsLemma, TypesLemma DEF EndTask
<1>3. /\ pc[th] = "end" /\ pc'[th] = "done"
      /\ \A x \in Thread \ {th} : pc'[x] = pc[x]
      /\ th \in Task
      /\ lock'[c] = Free
      /\ \A k \in Core \ {c} : lock'[k] = lock[k]
      /\ ended'[th] = TRUE
      /\ \A u \in Task \ {th} : ended'[u] = ended[u]
  BY <1>2 DEF EndTask, Runs, Release, TaskTypeOK, ThreadTypeOK, CoreTypeOK,
     Thread, Core, BootNeverEnds
<1>4. FaultsExplained' /\ ActiveListWellFormed' /\ CountConsistent' /\ CurrentListed'
  BY <1>1, Stable
<1>5. CoreTypeOK'
  BY <1>1, <1>2, <1>3 DEF EndTask, Runs, Release, CoreTypeOK, Core, Thread
<1>6. TaskTypeOK'
  BY <1>1, <1>2, <1>3 DEF EndTask, Runs, Release, TaskTypeOK, Core, Nowhere
<1>7. ThreadTypeOK'
  BY <1>1, <1>2, <1>3 DEF EndTask, Runs, Release, ThreadTypeOK, Core, Thread,
     PCs, Calls, NoFrame
<1>8. QueueConsistent'
  BY <1>1, <1>2, <1>3 DEF QueueConsistent, Listed
<1>9. OnlyCurrentEnded'
  BY <1>1, <1>2, <1>3 DEF OnlyCurrentEnded, Listed, Thread, ActiveListWellFormed
<1>10. ParkedIsSuspended'
  BY <1>1, <1>2, <1>3 DEF ParkedIsSuspended, Parked, Listed
<1>11. LockOwners'
  BY <1>1, <1>2, <1>3 DEF LockOwners, Holds, Thread
<1>12. CallersListed'
  BY <1>1, <1>2, <1>3 DEF CallersListed, InCall, Creating, Calling, Listed, Thread
<1>13. BootNeverEnds'
  BY <1>1, <1>2, <1>3 DEF BootNeverEnds, Thread
<1>14. FramesShape'
  BY <1>1, <1>2, <1>3 DEF FramesShape, InCall, Creating, Calling, Calls
<1>15. NewTasksFresh'
  BY <1>1, <1>2, <1>3 DEF NewTasksFresh, Creating, Nowhere, Core, FramesShape
<1>16. ScanCorrect'
  BY <1>1, <1>2, <1>3 DEF ScanCorrect, Calling, Known, Creating
<1>17. TargetCorrect'
  BY <1>1, <1>2, <1>3 DEF TargetCorrect, Resuming, Calling
<1>18. FramesDistinct'
  BY <1>1, <1>2, <1>3 DEF FramesDistinct, Creating
<1>19. UnbornNowhere'
  BY <1>1, <1>2, <1>3 DEF UnbornNowhere, Nowhere, Core
<1>. QED
  BY <1>4, <1>5, <1>6, <1>7, <1>8, <1>9, <1>10, <1>11, <1>12, <1>13, <1>14,
     <1>15, <1>16, <1>17, <1>18, <1>19

\* A step that fails changes no structure, and its reason satisfies FaultsExplained.
LEMMA FailsLemma ==
  ASSUME IInv, NEW kind \in NullFaults \cup DoubleFaults, NEW t \in Task, Fails(kind, t),
         kind \in NullFaults => Known(t) /\ home[t] = Nowhere,
         kind \in DoubleFaults => t \in early',
         Known(t), early' \in {early, early \cup {t}}
  PROVE  IInv'
<1> USE DEF IInv
<1>1. /\ UNCHANGED <<now, lock, current, active, schedule, nTasks, currentTime, tick,
                     born, home, startTime, reschedule, ended, suspended, pc, frame>>
      /\ fault' = [kind |-> kind, task |-> t]
  BY DEF Fails, coreVars, taskVars
<1>2. /\ CoreTypeOK' /\ TaskTypeOK' /\ ActiveListWellFormed' /\ CountConsistent'
      /\ CurrentListed' /\ ParkedIsSuspended' /\ LockOwners' /\ CallersListed'
      /\ BootNeverEnds' /\ FramesShape' /\ ScanCorrect' /\ TargetCorrect' /\ FramesDistinct'
  BY <1>1, Stable
<1>3. ThreadTypeOK'
  BY <1>1 DEF ThreadTypeOK, Thread
<1>4. FaultsExplained'
  BY <1>1 DEF FaultsExplained, Known, Creating
<1>5. QueueConsistent'
  BY <1>1 DEF QueueConsistent, Listed
<1>6. OnlyCurrentEnded'
  BY <1>1 DEF OnlyCurrentEnded, Listed
<1>7. NewTasksFresh'
  BY <1>1 DEF NewTasksFresh, Creating, Known
<1>8. UnbornNowhere'
  BY <1>1 DEF UnbornNowhere, Known
<1>. QED
  BY <1>2, <1>3, <1>4, <1>5, <1>6, <1>7, <1>8

\* Tick puts a task into a structure twice, or leaves it in one, only if that task was
\* resumed too early.
LEMMA TickFaultStep ==
  ASSUME IInv, NEW c \in Core, NEW t \in Task,
         TickRequeue(c, t) \/ TickDangle(c, t) \/ TickRelist(c, t)
  PROVE  IInv'
<1>1. /\ early' = early
      /\ \E kind \in DoubleFaults : Fails(kind, t)
  BY DEF TickRequeue, TickDangle, TickRelist, DoubleFaults
<1>2. t \in schedule[c]
  BY DEF TickRequeue, TickDangle, TickRelist, Due
<1>3. t \in early
  <2>1. CASE Reaps(c, t)
    BY <1>2, <2>1 DEF IInv, QueueConsistent, Reaps
  <2>2. CASE Listed(c, t)
    BY <1>2, <2>2 DEF IInv, QueueConsistent
  <2>. QED
    BY <2>1, <2>2 DEF TickRequeue, TickDangle, TickRelist
<1>4. Known(t)
  BY <1>3 DEF IInv, UnbornNowhere, NewTasksFresh, Known
<1>5. PICK kind \in DoubleFaults : Fails(kind, t)
  BY <1>1
<1>6. kind \notin NullFaults
  BY DEF NullFaults, DoubleFaults
<1>. QED
  BY <1>1, <1>3, <1>4, <1>5, <1>6, FailsLemma

\* A call follows a null pointer only if its task has been destroyed, and resumes a task
\* that is queued only if that is too early.
LEMMA CallFaultStep ==
  ASSUME IInv, NEW c \in Core, NEW th \in Thread,
         FindNothing(c, th) \/ ApplyToNothing(c, th) \/ ResumeQueued(c, th)
  PROVE  IInv'
<1>1. /\ Runs(c, th) /\ Calling(th) /\ frame[th].task \in Task /\ Known(frame[th].task)
  BY DEF IInv, FindNothing, ApplyToNothing, ResumeQueued, Calling, FramesShape, ScanCorrect
<1>2. CASE FindNothing(c, th) \/ ApplyToNothing(c, th)
  <2>1. home[frame[th].task] = Nowhere
    <3>1. home[frame[th].task] \in 0 .. NCores
      BY <1>1 DEF IInv, TaskTypeOK
    <3>2. CASE FindNothing(c, th)
      <4>1. /\ frame[th].i \in Core /\ frame[th].i <= home[frame[th].task]
            /\ home[frame[th].task] # frame[th].i /\ frame[th].i + 1 = NCores
        BY <1>1, <3>2 DEF IInv, FindNothing, ScanCorrect
      <4>. QED
        BY <3>1, <4>1, NCoresAssumption DEF Core, Nowhere
    <3>3. CASE ApplyToNothing(c, th)
      BY <1>1, <3>3 DEF IInv, ApplyToNothing, Calling, ScanCorrect
    <3>. QED
      BY <1>2, <3>2, <3>3
  <2>2. early' = early /\ \E kind \in NullFaults : Fails(kind, frame[th].task)
    BY <1>2 DEF FindNothing, ApplyToNothing, NullFaults
  <2>3. PICK kind \in NullFaults : Fails(kind, frame[th].task)
    BY <2>2
  <2>4. kind \notin DoubleFaults
    BY DEF NullFaults, DoubleFaults
  <2>. QED
    BY <1>1, <2>1, <2>2, <2>3, <2>4, FailsLemma
<1>3. CASE ResumeQueued(c, th)
  <2>1. Fails("queued twice", frame[th].task) /\ early' = early \cup {frame[th].task}
    BY <1>3 DEF ResumeQueued
  <2>2. "queued twice" \in DoubleFaults /\ "queued twice" \notin NullFaults
    BY DEF NullFaults, DoubleFaults
  <2>. QED
    BY <1>1, <2>1, <2>2, FailsLemma
<1>. QED
  BY <1>2, <1>3

--------------------------------------------------------------------------------

\* The boot state satisfies the invariant: every core idles, and no task exists.
LEMMA InitLemma == Init => IInv
<1> SUFFICES ASSUME Init PROVE IInv
  OBVIOUS
<1> USE NCoresAssumption, TimeAssumption, NamesAssumption DEF Init
<1>1. CoreTypeOK
  BY DEF CoreTypeOK, Thread
<1>2. TaskTypeOK
  BY DEF TaskTypeOK, Nowhere
<1>3. ThreadTypeOK
  BY DEF ThreadTypeOK, NoFrame, None, PCs, Calls, Core, Thread
<1>4. Range(<<Idle>>) = {Idle} /\ IsInjective(<<Idle>>) /\ <<Idle>> # <<>>
  BY DEF Range, IsInjective
<1>5. FaultsExplained /\ CountConsistent
  BY DEF FaultsExplained, None, NullFaults, DoubleFaults, CountConsistent
<1>6. \A c \in Core : Range(active[c]) = {Idle} /\ schedule[c] = {}
  BY <1>4
<1>7. ActiveListWellFormed /\ QueueConsistent
  BY <1>4, <1>6 DEF ActiveListWellFormed, QueueConsistent
<1>8. CurrentListed /\ OnlyCurrentEnded
  BY <1>6 DEF CurrentListed, OnlyCurrentEnded, Listed
<1>9. ParkedIsSuspended /\ UnbornNowhere
  BY DEF ParkedIsSuspended, Parked, UnbornNowhere
<1>10. LockOwners
  BY DEF LockOwners, Holds, Thread
<1>11. \A th \in Thread : ~Creating(th) /\ ~Calling(th) /\ pc[th] = "run"
  BY DEF Creating, Calling
<1>12. CallersListed /\ BootNeverEnds /\ FramesShape
  BY <1>11 DEF CallersListed, BootNeverEnds, FramesShape, InCall, Thread
<1>13. NewTasksFresh /\ ScanCorrect /\ TargetCorrect /\ FramesDistinct
  BY <1>11 DEF NewTasksFresh, ScanCorrect, TargetCorrect, FramesDistinct, Resuming
<1>. QED
  BY <1>1, <1>2, <1>3, <1>5, <1>7, <1>8, <1>9, <1>10, <1>12, <1>13 DEF IInv

\* A step of the system, or none, keeps the inductive invariant.
LEMMA NextLemma == IInv /\ [Next]_vars => IInv'
<1> SUFFICES ASSUME IInv, [Next]_vars PROVE IInv'
  OBVIOUS
<1>1. CASE UNCHANGED vars \/ Halt
  <2>1. UNCHANGED vars
    BY <1>1 DEF Halt
  <2>. QED
    BY <2>1, Stable DEF IInv, vars, coreVars, taskVars
<1>2. CASE Advance
  BY <1>2, AdvanceStep
<1>3. ASSUME NEW c \in Core, TickSkip(c) \/ Tick(c) PROVE IInv'
  BY <1>3, TickSkipStep, TickStartStep, TickKeepStep, TickRescheduleStep, TickParkStep,
     TickDeleteStep, TickDequeStep, TickSelectStep, TickFaultStep DEF Tick
<1>4. ASSUME NEW c \in Core, NEW th \in Thread, KernelStep(c, th) \/ Return(c, th) PROVE IInv'
  BY <1>4, PickSchedulerStep, LockToInsertStep, InsertTaskStep, FindSchedulerStep,
     LockToApplyStep, ApplySuspendStep, ApplyResumeStep, ResumedStep, LockToEndStep,
     EndTaskStep, ReturnStep, CallFaultStep DEF KernelStep
<1>5. CASE Call
  <2>1. PICK c \in Core, th \in Thread :
          /\ th # Idle => ~ended[th]
          /\ \/ SuspendCurrentTask(c, th)
             \/ th # Idle /\ SuspendTask(c, th, th)
             \/ \E t \in Task : NewTask(c, th, t) \/ (th # Idle /\ Known(t) /\ ResumeTask(c, th, t))
    BY <1>5 DEF Call
  <2>2. CASE SuspendCurrentTask(c, th)
    BY <2>1, <2>2, SuspendCurrentTaskStep
  <2>3. CASE th # Idle /\ SuspendTask(c, th, th)
    BY <2>1, <2>3, SuspendTaskStep
  <2>4. ASSUME NEW t \in Task, NewTask(c, th, t) PROVE IInv'
    BY <2>1, <2>4, NewTaskStep
  <2>5. ASSUME NEW t \in Task, th # Idle, Known(t), ResumeTask(c, th, t) PROVE IInv'
    BY <2>1, <2>5, ResumeTaskStep
  <2>. QED
    BY <2>1, <2>2, <2>3, <2>4, <2>5
<1>. QED
  BY <1>1, <1>2, <1>3, <1>4, <1>5 DEF Next, Common

\* The inductive invariant holds in every state: resumes of any task at any time and
\* timer interrupts, in any interleaving, leave the schedulers consistent, except for
\* the tasks that were resumed too early.
THEOREM Invariant == Spec => []IInv
<1>1. Init => IInv
  BY InitLemma
<1>2. IInv /\ [Next]_vars => IInv'
  BY NextLemma
<1>. QED
  BY <1>1, <1>2, PTL DEF Spec

\* The variables keep their types.
THEOREM TypeCorrect == Spec => []TypeOK
<1>1. IInv => TypeOK
  BY DEF IInv, TypeOK
<1>. QED
  BY <1>1, Invariant, PTL

\* What can go wrong has one of two reasons, whatever the tasks resume and when: a
\* resume names a task that has been destroyed, or the task concerned was resumed itself
\* while it was active or queued.  A suspension never follows a null pointer, and no
\* task suffers from what is done to another.
THEOREM FaultsAreExplained == Spec => []FaultsExplained
<1>1. IInv => FaultsExplained
  BY DEF IInv
<1>. QED
  BY <1>1, Invariant, PTL

\* The active list stays well formed through every reaping and activation.
THEOREM ActiveListCorrect == Spec => []ActiveListWellFormed
<1>1. IInv => ActiveListWellFormed
  BY DEF IInv
<1>. QED
  BY <1>1, Invariant, PTL

\* What is queued belongs to the scheduler, and it is alive and not on the active list
\* as well, unless this very task was resumed too early.
THEOREM QueueCorrect == Spec => []QueueConsistent
<1>1. IInv => QueueConsistent
  BY DEF IInv
<1>. QED
  BY <1>1, Invariant, PTL

\* An ended task that is still listed is the current one, which is the only
\* one that Tick looks at.
THEOREM EndedIsCurrent == Spec => []OnlyCurrentEnded
<1>1. IInv => OnlyCurrentEnded
  BY DEF IInv
<1>. QED
  BY <1>1, Invariant, PTL

\* No task is lost: one that is in no list and no queue is suspended.
THEOREM NoTaskLost == Spec => []ParkedIsSuspended
<1>1. IInv => ParkedIsSuspended
  BY DEF IInv
<1>. QED
  BY <1>1, Invariant, PTL

\* nTasks, by which KeScheduleTask balances the load, counts the active tasks.
THEOREM CountCorrect == Spec => []CountConsistent
<1>1. IInv => CountConsistent
  BY DEF IInv
<1>. QED
  BY <1>1, Invariant, PTL

--------------------------------------------------------------------------------
(* Scheduler implements TaskLife                                           *)

UnderConstruction(t) == \E th \in Thread : Creating(th) /\ frame[th].task = t
Waiting(t) == home[t] # Nowhere /\ t \in schedule[home[t]]
Active(t) == home[t] # Nowhere /\ Listed(home[t], t)

\* Stage, in terms of the above.
LEMMA StageLemma ==
  ASSUME NEW t
  PROVE  /\ t \in early => Stage(t) = "doubled"
         /\ t \notin early /\ t \notin born => Stage(t) = "unborn"
         /\ t \notin early /\ t \in born /\ home[t] = Nowhere =>
              Stage(t) = IF UnderConstruction(t) THEN "new" ELSE "gone"
         /\ t \notin early /\ t \in born /\ home[t] # Nowhere =>
              Stage(t) = IF Waiting(t) THEN "waiting" ELSE IF Active(t) THEN "active" ELSE "parked"
BY DEF Stage, UnderConstruction, Creating, Waiting, Active

LEMMA NextStageLemma ==
  ASSUME NEW t
  PROVE  /\ t \in early' => Stage(t)' = "doubled"
         /\ t \notin early' /\ t \notin born' => Stage(t)' = "unborn"
         /\ t \notin early' /\ t \in born' /\ home'[t] = Nowhere =>
              Stage(t)' = IF UnderConstruction(t)' THEN "new" ELSE "gone"
         /\ t \notin early' /\ t \in born' /\ home'[t] # Nowhere =>
              Stage(t)' = IF Waiting(t)' THEN "waiting" ELSE IF Active(t)' THEN "active" ELSE "parked"
BY DEF Stage, UnderConstruction, Creating, Waiting, Active, Nowhere

\* A task moves only if something that its stage depends on changes.
Same(t) ==
  /\ t \in early' <=> t \in early
  /\ t \notin early =>
       /\ t \in born' <=> t \in born
       /\ home'[t] = home[t]
       /\ UnderConstruction(t)' <=> UnderConstruction(t)
       /\ Waiting(t)' <=> Waiting(t)
       /\ Active(t)' <=> Active(t)

LEMMA SameLemma == ASSUME NEW t, Same(t) PROVE Stage(t)' = Stage(t)
BY StageLemma, NextStageLemma, Zenon DEF Same

LifeVar == [t \in Task |-> Stage(t)]

\* What a step may be: a move of one task, or none of any.
Lives == Life!LifeNext \/ LifeVar' = LifeVar

LEMMA StutterLemma ==
  ASSUME \A t \in Task : Same(t)
  PROVE  Lives
BY SameLemma DEF LifeVar, Lives

\* The step may do what it likes to a doubled task.
LEMMA MoveLemma ==
  ASSUME NEW t \in Task, \A u \in Task \ {t} : Same(u),
         t \in early => t \in early',
         t \notin early => <<Stage(t), Stage(t)'>> \in Life!Edges
  PROVE  Lives
<1>1. \A u \in Task \ {t} : Stage(u)' = Stage(u)
  BY SameLemma
<1>2. CASE t \in early
  <2>1. Stage(t)' = Stage(t)
    BY <1>2, StageLemma, NextStageLemma
  <2> QED  BY <1>1, <2>1 DEF LifeVar, Lives
<1>3. CASE t \notin early
  <2>1. LifeVar' = [LifeVar EXCEPT ![t] = Stage(t)']
    BY <1>1 DEF LifeVar
  <2>2. LifeVar[t] = Stage(t) /\ LifeVar'[t] = Stage(t)'
    BY DEF LifeVar
  <2> QED  BY <1>3, <2>1, <2>2 DEF Lives, LifeVar, Life!LifeNext, Life!Move
<1> QED  BY <1>2, <1>3

\* Steps that construct nothing and leave lists and queues alone.
LEMMA QuietLemma ==
  ASSUME UNCHANGED <<born, home, schedule, active, early>>,
         \A th \in Thread : (Creating(th)' <=> Creating(th))
                            /\ (Creating(th) => frame'[th].task = frame[th].task)
  PROVE  \A t \in Task : Same(t)
BY DEF Same, UnderConstruction, Waiting, Active, Listed, Thread, Nowhere

\* A step of th that is in no stage of a construction before and after it.
LEMMA ThreadLemma ==
  ASSUME NEW th \in Thread, ~Creating(th), ~Creating(th)',
         \A x \in Thread \ {th} : pc'[x] = pc[x] /\ frame'[x] = frame[x]
  PROVE  \A t \in Task : UnderConstruction(t)' <=> UnderConstruction(t)
BY DEF UnderConstruction, Creating, Thread

LEMMA QuietTickLemma ==
  ASSUME NEW c \in Core, TickSkip(c) \/ TickStart(c) \/ TickKeep(c) \/ TickSelect(c)
  PROVE  \A t \in Task : Same(t)
<1>1. UNCHANGED <<born, home, schedule, active, pc, frame, early>>
  BY DEF TickSkip, TickStart, TickKeep, TickSelect, taskVars
<1> QED  BY <1>1, QuietLemma DEF Creating

LEMMA QuietCallLemma ==
  ASSUME IInv, NEW c \in Core, NEW th \in Thread,
         \/ FindScheduler(c, th) \/ LockToApply(c, th) \/ ApplySuspend(c, th)
         \/ Resumed(c, th) \/ LockToEnd(c, th) \/ EndTask(c, th) \/ Return(c, th)
         \/ \E call \in Calls, t \in Task : Enter(c, th, call, t)
  PROVE  \A t \in Task : Same(t)
<1>1. UNCHANGED <<born, home, schedule, active, early>>
  BY DEF FindScheduler, LockToApply, ApplySuspend, Resumed, LockToEnd, EndTask, Return, Enter,
         coreVars, taskVars
<1>2. pc \in [Thread -> PCs] /\ DOMAIN frame = Thread
  BY DEF IInv, ThreadTypeOK
<1>3. ~Creating(th) /\ ~Creating(th)'
  BY <1>2 DEF FindScheduler, LockToApply, ApplySuspend, Resumed, LockToEnd, EndTask, Return, Enter,
              Creating
<1>4. \A x \in Thread \ {th} : pc'[x] = pc[x] /\ frame'[x] = frame[x]
  BY <1>2 DEF FindScheduler, LockToApply, ApplySuspend, Resumed, LockToEnd, EndTask, Return, Enter
<1> QED  BY <1>1, <1>3, <1>4, ThreadLemma DEF Same, Waiting, Active, Listed, Nowhere

LEMMA QuietCreationLemma ==
  ASSUME IInv, NEW c \in Core, NEW th \in Thread, PickScheduler(c, th) \/ LockToInsert(c, th)
  PROVE  \A t \in Task : Same(t)
<1>1. UNCHANGED <<born, home, schedule, active, early>>
  BY DEF PickScheduler, LockToInsert, coreVars, taskVars
<1>2. pc \in [Thread -> PCs]
      /\ frame \in [Thread -> [call : Calls \cup {"none"}, task : Thread, i : 0 .. NCores, core : Core]]
  BY DEF IInv, ThreadTypeOK
<1>3. \A x \in Thread : (Creating(x)' <=> Creating(x)) /\ frame'[x].task = frame[x].task
  <2>1. CASE PickScheduler(c, th)
    BY <1>2, <2>1 DEF PickScheduler, Creating
  <2>2. CASE LockToInsert(c, th)
    BY <1>2, <2>2 DEF LockToInsert, Creating
  <2> QED  BY <2>1, <2>2
<1> QED  BY <1>1, <1>3, QuietLemma

\* A constructed task is new.
LEMMA NewTaskMove ==
  ASSUME IInv, NEW c \in Core, NEW th \in Thread, NEW t \in Task, NewTask(c, th, t)
  PROVE  Lives
<1>1. /\ UNCHANGED <<home, schedule, active, early>> /\ t \notin born /\ born' = born \cup {t}
      /\ pc[th] = "run" /\ pc' = [pc EXCEPT ![th] = "pick"]
      /\ frame' = [frame EXCEPT ![th] = [call |-> "ScheduleTask", task |-> t, i |-> 1, core |-> 0]]
  BY DEF NewTask, coreVars
<1>2. /\ pc'[th] = "pick" /\ frame'[th].task = t
      /\ \A x \in Thread \ {th} : pc'[x] = pc[x] /\ frame'[x] = frame[x]
  BY <1>1 DEF IInv, ThreadTypeOK
<1>3. home[t] = Nowhere /\ t \notin early
  BY <1>1 DEF IInv, UnbornNowhere
<1>4. Stage(t) = "unborn"
  BY <1>1, <1>3, StageLemma
<1>5. Stage(t)' = "new"
  <2>1. UnderConstruction(t)'
    BY <1>2 DEF UnderConstruction, Creating
  <2> QED  BY <1>1, <1>3, <2>1, NextStageLemma
<1>6. ASSUME NEW u \in Task \ {t} PROVE Same(u)
  <2>1. UnderConstruction(u)' <=> UnderConstruction(u)
    BY <1>1, <1>2 DEF UnderConstruction, Creating
  <2> QED  BY <1>1, <2>1 DEF Same, Waiting, Active, Listed, Nowhere
<1> QED  BY <1>3, <1>4, <1>5, <1>6, MoveLemma DEF Life!Edges

\* An inserted task waits.
LEMMA InsertTaskMove ==
  ASSUME IInv, NEW c \in Core, NEW th \in Thread, InsertTask(c, th)
  PROVE  Lives
<1>0. PICK t, k : t = frame[th].task /\ k = frame[th].core
  OBVIOUS
<1>1. /\ UNCHANGED <<born, active, early>> /\ pc[th] = "insert"
      /\ home' = [home EXCEPT ![t] = k]
      /\ schedule' = [schedule EXCEPT ![k] = schedule[k] \cup {t}]
      /\ pc' = [pc EXCEPT ![th] = "run"] /\ frame' = [frame EXCEPT ![th] = NoFrame]
  BY <1>0 DEF InsertTask
<1>2. t \in Task /\ t \in born \ early /\ home[t] = Nowhere /\ k \in Core /\ k # Nowhere
  BY <1>0, <1>1, TypesLemma DEF IInv, FramesShape, NewTasksFresh, Creating, ThreadTypeOK
<1>3. /\ pc'[th] = "run" /\ \A x \in Thread \ {th} : pc'[x] = pc[x] /\ frame'[x] = frame[x]
  BY <1>1 DEF IInv, ThreadTypeOK
<1>4. /\ home'[t] = k /\ t \in schedule'[k] /\ \A u \in Task \ {t} : home'[u] = home[u]
      /\ \A j \in Core, u \in Task \ {t} : u \in schedule'[j] <=> u \in schedule[j]
  BY <1>1, <1>2 DEF IInv, TaskTypeOK, CoreTypeOK
<1>5. Stage(t) = "new"
  BY <1>0, <1>1, <1>2, StageLemma DEF UnderConstruction, Creating
<1>6. Stage(t)' = "waiting"
  BY <1>1, <1>2, <1>4, NextStageLemma DEF Waiting, Nowhere
<1>7. ASSUME NEW u \in Task \ {t} PROVE Same(u)
  <2>1. UnderConstruction(u)' <=> UnderConstruction(u)
    BY <1>0, <1>1, <1>3 DEF UnderConstruction, Creating
  <2>2. home[u] \in Core \cup {Nowhere}
    BY TypesLemma
  <2> QED  BY <1>1, <1>4, <2>1, <2>2 DEF Same, Waiting, Active, Listed, Nowhere
<1> QED  BY <1>2, <1>5, <1>6, <1>7, MoveLemma DEF Life!Edges

\* A resumed task that was parked waits, and one that was active is doubled.
LEMMA ApplyResumeMove ==
  ASSUME IInv, NEW c \in Core, NEW th \in Thread, ApplyResume(c, th)
  PROVE  Lives
<1>0. PICK t, k : t = frame[th].task /\ k = frame[th].core
  OBVIOUS
<1>1. /\ UNCHANGED <<born, home, active>> /\ Calling(th)
      /\ home[t] = k /\ t \notin schedule[k]
      /\ schedule' = [schedule EXCEPT ![k] = schedule[k] \cup {t}]
      /\ early' = IF Listed(k, t) THEN early \cup {t} ELSE early
      /\ pc' = [pc EXCEPT ![th] = "run"] /\ frame' = [frame EXCEPT ![th] = NoFrame]
  BY <1>0 DEF ApplyResume, Calling
<1>2. t \in Task /\ t \in born /\ k \in Core /\ k # Nowhere
  BY <1>0, <1>1, TypesLemma DEF IInv, FramesShape, ScanCorrect, Known, ThreadTypeOK
<1>3. /\ ~Creating(th) /\ ~Creating(th)'
      /\ \A x \in Thread \ {th} : pc'[x] = pc[x] /\ frame'[x] = frame[x]
  BY <1>1 DEF IInv, ThreadTypeOK, Calling, Creating
<1>4. /\ t \in schedule'[k]
      /\ \A j \in Core, u \in Task \ {t} : u \in schedule'[j] <=> u \in schedule[j]
  BY <1>1, <1>2 DEF IInv, CoreTypeOK
<1>5. ASSUME t \notin early PROVE <<Stage(t), Stage(t)'>> \in Life!Edges
  <2>1. CASE Listed(k, t)
    <3>1. Stage(t) = "active"
      BY <1>1, <1>2, <1>5, <2>1, StageLemma DEF Waiting, Active
    <3>2. Stage(t)' = "doubled"
      BY <1>1, <2>1, NextStageLemma
    <3> QED  BY <3>1, <3>2 DEF Life!Edges
  <2>2. CASE ~Listed(k, t)
    <3>1. Stage(t) = "parked"
      BY <1>1, <1>2, <1>5, <2>2, StageLemma DEF Waiting, Active
    <3>2. Stage(t)' = "waiting"
      BY <1>1, <1>2, <1>4, <1>5, <2>2, NextStageLemma DEF Waiting, Nowhere
    <3> QED  BY <3>1, <3>2 DEF Life!Edges
  <2> QED  BY <2>1, <2>2
<1>6. ASSUME NEW u \in Task \ {t} PROVE Same(u)
  <2>1. UnderConstruction(u)' <=> UnderConstruction(u)
    BY <1>3, ThreadLemma
  <2>2. home[u] \in Core \cup {Nowhere}
    BY TypesLemma
  <2> QED  BY <1>1, <1>4, <2>1, <2>2 DEF Same, Waiting, Active, Listed, Nowhere
<1>7. t \in early => t \in early'
  BY <1>1
<1> QED  BY <1>2, <1>5, <1>6, <1>7, MoveLemma

\* A waiting task that is resumed is doubled.
LEMMA ResumeQueuedMove ==
  ASSUME IInv, NEW c \in Core, NEW th \in Thread, ResumeQueued(c, th)
  PROVE  Lives
<1>0. PICK t, k : t = frame[th].task /\ k = frame[th].core
  OBVIOUS
<1>1. /\ UNCHANGED <<born, home, schedule, active, pc, frame>> /\ Calling(th)
      /\ home[t] = k /\ t \in schedule[k] /\ early' = early \cup {t}
  BY <1>0 DEF ResumeQueued, Fails, Calling, coreVars, taskVars
<1>2. t \in Task /\ t \in born /\ k # Nowhere
  BY <1>0, <1>1, TypesLemma DEF IInv, FramesShape, ScanCorrect, Known, ThreadTypeOK
<1>3. t \notin early => Stage(t) = "waiting"
  BY <1>1, <1>2, StageLemma DEF Waiting
<1>4. Stage(t)' = "doubled" /\ t \in early'
  BY <1>1, NextStageLemma
<1>5. ASSUME NEW u \in Task \ {t} PROVE Same(u)
  BY <1>1 DEF Same, UnderConstruction, Creating, Waiting, Active, Listed, Thread, Nowhere
<1> QED  BY <1>2, <1>3, <1>4, <1>5, MoveLemma DEF Life!Edges

\* A periodic task waits again.
LEMMA TickRescheduleMove ==
  ASSUME IInv, NEW c \in Core, NEW t \in Task, TickReschedule(c, t)
  PROVE  Lives
<1>1. /\ UNCHANGED <<born, home, frame, early>> /\ t \notin schedule[c]
      /\ schedule' = [schedule EXCEPT ![c] = schedule[c] \cup {t}]
      /\ pc' = [pc EXCEPT ![t] = "run"]
  BY DEF TickReschedule, TickPop
<1>2. /\ home[t] = c /\ Listed(c, t) /\ t \in Thread /\ ~Creating(t)
      /\ \A j \in Core, u \in Task \ {t} : Listed(j, u)' <=> Listed(j, u)
  BY TickPopLemma DEF TickReschedule, Creating
<1>3. t \in born /\ c # Nowhere /\ \A u \in Task : home[u] \in Core \cup {Nowhere}
  BY <1>2, TypesLemma DEF IInv, UnbornNowhere
<1>4. /\ t \in schedule'[c] /\ pc'[t] = "run" /\ \A x \in Thread \ {t} : pc'[x] = pc[x]
      /\ \A j \in Core, u \in Task \ {t} : u \in schedule'[j] <=> u \in schedule[j]
  BY <1>1, <1>2 DEF IInv, CoreTypeOK, ThreadTypeOK
<1>5. t \notin early => Stage(t) = "active"
  BY <1>1, <1>2, <1>3, StageLemma DEF Waiting, Active
<1>6. t \notin early => Stage(t)' = "waiting"
  BY <1>1, <1>2, <1>3, <1>4, NextStageLemma DEF Waiting, Nowhere
<1>7. ASSUME NEW u \in Task \ {t} PROVE Same(u)
  <2>1. UnderConstruction(u)' <=> UnderConstruction(u)
    BY <1>1, <1>2, <1>4, ThreadLemma DEF Creating
  <2> QED  BY <1>1, <1>2, <1>3, <1>4, <2>1 DEF Same, Waiting, Active, Nowhere
<1> QED  BY <1>1, <1>5, <1>6, <1>7, MoveLemma DEF Life!Edges

\* A suspended task is parked.
LEMMA TickParkMove ==
  ASSUME IInv, NEW c \in Core, NEW t \in Task, TickPark(c, t)
  PROVE  Lives
<1>1. UNCHANGED <<born, home, schedule, pc, frame, early>>
  BY DEF TickPark, TickPop
<1>2. /\ home[t] = c /\ Listed(c, t) /\ (t \in early \/ t \notin schedule[c]) /\ ~Listed(c, t)'
      /\ \A j \in Core, u \in Task \ {t} : Listed(j, u)' <=> Listed(j, u)
  BY TickPopLemma DEF TickPark
<1>3. t \in born /\ c # Nowhere /\ \A u \in Task : home[u] \in Core \cup {Nowhere}
  BY <1>2, TypesLemma DEF IInv, UnbornNowhere
<1>4. t \notin early => Stage(t) = "active"
  BY <1>1, <1>2, <1>3, StageLemma DEF Waiting, Active
<1>5. t \notin early => Stage(t)' = "parked"
  BY <1>1, <1>2, <1>3, NextStageLemma DEF Waiting, Active, Nowhere
<1>6. ASSUME NEW u \in Task \ {t} PROVE Same(u)
  BY <1>1, <1>2, <1>3 DEF Same, UnderConstruction, Creating, Waiting, Active, Thread, Nowhere
<1> QED  BY <1>1, <1>4, <1>5, <1>6, MoveLemma DEF Life!Edges

\* A finished task is gone.
LEMMA TickDeleteMove ==
  ASSUME IInv, NEW c \in Core, NEW t \in Task, TickDelete(c, t)
  PROVE  Lives
<1>1. UNCHANGED <<born, schedule, pc, frame, early>> /\ t \notin schedule[c]
      /\ home' = [home EXCEPT ![t] = Nowhere]
  BY DEF TickDelete, TickPop
<1>2. /\ home[t] = c /\ Listed(c, t)
      /\ \A j \in Core, u \in Task \ {t} : Listed(j, u)' <=> Listed(j, u)
  BY TickPopLemma DEF TickDelete
<1>3. t \in born /\ c # Nowhere /\ \A u \in Task : home[u] \in Core \cup {Nowhere}
  BY <1>2, TypesLemma DEF IInv, UnbornNowhere
<1>4. home'[t] = Nowhere /\ \A u \in Task \ {t} : home'[u] = home[u]
  BY <1>1 DEF IInv, TaskTypeOK
<1>5. t \notin early => Stage(t) = "active"
  BY <1>1, <1>2, <1>3, StageLemma DEF Waiting, Active
<1>6. t \notin early => Stage(t)' = "gone"
  <2>1. ~UnderConstruction(t)
    BY <1>2, <1>3 DEF IInv, NewTasksFresh, UnderConstruction
  <2>2. ~UnderConstruction(t)'
    BY <1>1, <2>1 DEF UnderConstruction, Creating, Thread
  <2> QED  BY <1>1, <1>3, <1>4, <2>2, NextStageLemma
<1>7. ASSUME NEW u \in Task \ {t} PROVE Same(u)
  BY <1>1, <1>2, <1>3, <1>4 DEF Same, UnderConstruction, Creating, Waiting, Active, Thread, Nowhere
<1> QED  BY <1>1, <1>5, <1>6, <1>7, MoveLemma DEF Life!Edges

\* A task whose time has come is active.
LEMMA TickDequeMove ==
  ASSUME IInv, NEW c \in Core, NEW t \in Task, TickDeque(c, t)
  PROVE  Lives
<1>1. /\ UNCHANGED <<born, home, pc, frame, early>> /\ t \in schedule[c] /\ ~Listed(c, t)
      /\ schedule' = [schedule EXCEPT ![c] = schedule[c] \ {t}]
      /\ active' = [active EXCEPT ![c] = Push(active[c], t)]
  BY DEF TickDeque, Due, taskVars
<1>2. home[t] = c /\ ~Listed(c, t) /\ t # Idle
  BY <1>1, NamesAssumption DEF IInv, QueueConsistent
<1>3. t \in born /\ c # Nowhere /\ \A u \in Task : home[u] \in Core \cup {Nowhere}
  BY <1>2, TypesLemma DEF IInv, UnbornNowhere
<1>4. /\ t \notin schedule'[c]
      /\ \A j \in Core, u \in Task \ {t} : u \in schedule'[j] <=> u \in schedule[j]
  BY <1>1 DEF IInv, CoreTypeOK
<1>5. Listed(c, t)' /\ \A j \in Core, u \in Task \ {t} : Listed(j, u)' <=> Listed(j, u)
  <2>1. active[c] \in Seq(Thread) /\ active[c] # <<>> /\ IsInjective(active[c])
    BY DEF IInv, CoreTypeOK, ActiveListWellFormed
  <2>2. /\ active[c] = <<Idle>> => Range(Push(active[c], t)) = {t}
        /\ active[c] # <<Idle>> => Range(Push(active[c], t)) = Range(active[c]) \cup {t}
    BY <1>2, <2>1, PushLemma DEF Listed
  <2>3. /\ active'[c] = Push(active[c], t)
        /\ \A j \in Core \ {c} : active'[j] = active[j]
    BY <1>1 DEF IInv, CoreTypeOK
  <2>4. Range(<<Idle>>) = {Idle} /\ Idle \notin Task
    BY NamesAssumption DEF Range
  <2>5. \A u \in Task : Listed(c, u)' <=> Listed(c, u) \/ u = t
    BY <2>2, <2>3, <2>4 DEF Listed
  <2> QED  BY <2>3, <2>5 DEF Listed
<1>6. t \notin early => Stage(t) = "waiting"
  BY <1>1, <1>2, <1>3, StageLemma DEF Waiting
<1>7. t \notin early => Stage(t)' = "active"
  BY <1>1, <1>2, <1>3, <1>4, <1>5, NextStageLemma DEF Waiting, Active, Nowhere
<1>8. ASSUME NEW u \in Task \ {t} PROVE Same(u)
  BY <1>1, <1>3, <1>4, <1>5 DEF Same, UnderConstruction, Creating, Waiting, Active, Thread, Nowhere
<1> QED  BY <1>1, <1>6, <1>7, <1>8, MoveLemma DEF Life!Edges

\* Steps that fail move no task, but the resume of a waiting one.
LEMMA QuietFaultLemma ==
  ASSUME NEW c \in Core, NEW t \in Thread,
         \/ TickRequeue(c, t) \/ TickDangle(c, t) \/ TickRelist(c, t)
         \/ FindNothing(c, t) \/ ApplyToNothing(c, t)
  PROVE  \A u \in Task : Same(u)
<1>1. UNCHANGED <<born, home, schedule, active, pc, frame, early>>
  BY DEF TickRequeue, TickDangle, TickRelist, FindNothing, ApplyToNothing, Fails, coreVars, taskVars
<1> QED  BY <1>1, QuietLemma DEF Creating

LEMMA LifeStep == IInv /\ [Next]_vars => [Life!LifeNext]_LifeVar
<1> SUFFICES ASSUME IInv, [Next]_vars PROVE Lives
  BY DEF Lives
<1>1. CASE UNCHANGED vars \/ Advance \/ Halt
  <2>1. UNCHANGED <<born, home, schedule, active, pc, frame, early>>
    BY <1>1 DEF vars, Advance, Halt, coreVars, taskVars
  <2> QED  BY <2>1, QuietLemma, StutterLemma DEF Creating
<1>2. ASSUME NEW c \in Core, TickSkip(c) \/ Tick(c) PROVE Lives
  <2>1. CASE TickSkip(c) \/ TickStart(c) \/ TickKeep(c) \/ TickSelect(c)
    BY <2>1, QuietTickLemma, StutterLemma
  <2>2. ASSUME NEW t \in Task, TickReschedule(c, t) \/ TickPark(c, t) \/ TickDelete(c, t) \/ TickDeque(c, t)
        PROVE  Lives
    BY <2>2, TickRescheduleMove, TickParkMove, TickDeleteMove, TickDequeMove
  <2>3. ASSUME NEW t \in Task, TickRequeue(c, t) \/ TickDangle(c, t) \/ TickRelist(c, t)
        PROVE  Lives
    BY <2>3, QuietFaultLemma, StutterLemma DEF Thread
  <2> QED  BY <1>2, <2>1, <2>2, <2>3 DEF Tick
<1>3. ASSUME NEW c \in Core, NEW th \in Thread, KernelStep(c, th) \/ Return(c, th)
      PROVE  Lives
  <2>1. CASE \/ FindScheduler(c, th) \/ LockToApply(c, th) \/ ApplySuspend(c, th)
             \/ Resumed(c, th) \/ LockToEnd(c, th) \/ EndTask(c, th) \/ Return(c, th)
    BY <2>1, QuietCallLemma, StutterLemma
  <2>2. CASE PickScheduler(c, th) \/ LockToInsert(c, th)
    BY <2>2, QuietCreationLemma, StutterLemma
  <2>3. CASE FindNothing(c, th) \/ ApplyToNothing(c, th)
    BY <2>3, QuietFaultLemma, StutterLemma
  <2> QED  BY <1>3, <2>1, <2>2, <2>3, InsertTaskMove, ApplyResumeMove, ResumeQueuedMove DEF KernelStep
<1>4. CASE Call
  <2>1. PICK c \in Core, th \in Thread :
          \/ SuspendCurrentTask(c, th)
          \/ th # Idle /\ SuspendTask(c, th, th)
          \/ \E t \in Task : NewTask(c, th, t) \/ ResumeTask(c, th, t)
    BY <1>4 DEF Call
  <2>2. CASE \E call \in Calls, t \in Task : Enter(c, th, call, t)
    BY <2>2, QuietCallLemma, StutterLemma
  <2>3. "SuspendTask" \in Calls /\ "SuspendCurrentTask" \in Calls /\ "ResumeTask" \in Calls
    BY DEF Calls
  <2>4. th # Idle => th \in Task
    BY DEF Thread
  <2> QED
    BY <2>1, <2>2, <2>3, <2>4, NewTaskMove DEF SuspendCurrentTask, SuspendTask, ResumeTask
<1> QED  BY <1>1, <1>2, <1>3, <1>4 DEF Next, Common

\* Every task leads the life that TaskLife describes, one edge at a time, whichever tasks
\* are resumed and whenever the interrupts come: no resume wakes a task that is gone,
\* none becomes active but out of the queue, and the life of a task breaks down
\* ("doubled") only by a resume of this very task that finds it waiting or active.
THEOREM TasksLeadTheirLives == Spec => ImplementsLife
<1>1. Init => Life!LifeInit
  BY StageLemma DEF Init, Life!LifeInit
<1>2. IInv /\ [Next]_vars => [Life!LifeNext]_LifeVar
  BY LifeStep
<1> QED  BY <1>1, <1>2, Invariant, PTL DEF Spec, ImplementsLife, Life!LifeSpec, LifeVar
================================================================================
