-------------------------- MODULE QuizSchedulerProofs --------------------------
(***************************************************************************)
(* For every set of owners, number of overlapping edits and clock: unless  *)
(* a reload failed, every time of the schedule has a job in memory or a    *)
(* reload under way that will add it (QuizScheduler).                      *)
(***************************************************************************)
EXTENDS QuizScheduler, TLAPS

USE OwnerAssumption, DayAssumption, ClockAssumption, TaskAssumption
    DEF SetTask, SetWork

(* A remainder lies below its divisor, for negative numbers too. *)
LEMMA Remainder ==
    ASSUME NEW a \in Int
    PROVE  a % Day \in Int /\ 0 <= a % Day /\ a % Day < Day
  BY SMT

(* The next instant of a time is in the future; the last one is at most a day
   old, so that its next run is in the future as well. *)
LEMMA Instants ==
    ASSUME TypeOK, NEW t \in Time
    PROVE  /\ After(t) \in Int /\ After(t) > now
           /\ UpTo(t) \in Int /\ UpTo(t) <= now /\ UpTo(t) + Day > now
  <1>1. now \in Int /\ t \in Int
    BY DEF TypeOK, Time
  <1>2. (t - now - 1) \in Int /\ (now - t) \in Int
    BY <1>1
  <1> DEFINE x == (t - now - 1) % Day
             y == (now - t) % Day
  <1>3. x \in Int /\ 0 <= x /\ x < Day
    BY <1>2, Remainder
  <1>4. y \in Int /\ 0 <= y /\ y < Day
    BY <1>2, Remainder
  <1>5. After(t) = now + 1 + x /\ UpTo(t) = now - y
    BY DEF After, UpTo
  <1> HIDE DEF x, y
  <1> QED
    BY <1>1, <1>3, <1>4, <1>5

(* A process that is down keeps nothing in memory. *)
LEMMA DieTyped ==
    ASSUME TypeOK, Die PROVE TypeOK'
  <1>1. nextRun' \in [Time -> Int]
    BY DEF Die, Disarmed, Never
  <1>2. task' \in [Reloader -> Reload]
    BY DEF Die, NoReload, Reload
  <1>3. work' \in [Worker -> Work]
    BY DEF Die, NoWork, Work, Never
  <1> QED
    BY <1>1, <1>2, <1>3 DEF Die, TypeOK, database, history

(* The initial state is typed. *)
LEMMA InitTyped ==
    Init => TypeOK
  <1> SUFFICES ASSUME Init PROVE TypeOK
    OBVIOUS
  <1>1. nextRun \in [Time -> Int]
    BY DEF Init, Disarmed, Never
  <1>2. task \in [Reloader -> Reload]
    BY DEF Init, NoReload, Reload
  <1>3. work \in [Worker -> Work]
    BY DEF Init, NoWork, Work, Never
  <1>4. /\ now \in Nat /\ now >= Day
        /\ slots \in [Owner -> SUBSET Time]
        /\ paused \in SUBSET Owner /\ weekdaysOnly \in SUBSET Owner
        /\ lastSent \in [Owner -> Nat]
    BY DEF Init, Never
  <1>5. removed \in [Owner -> [Time -> Nat]]
    BY DEF Init, Never
  <1> QED
    BY <1>1, <1>2, <1>3, <1>4, <1>5 DEF Init, TypeOK

(* Panel actions and the clock keep the types. *)
LEMMA PanelTyped ==
    ASSUME TypeOK,
           \/ Tick \/ Start \/ Over
           \/ \E e \in Editor, o \in Owner, S \in (SUBSET Time) \ {{}} : Save(e, o, S)
           \/ \E o \in Owner : SetPaused(o) \/ ToggleWeekends(o) \/ SendNow(o)
    PROVE  TypeOK'
  <1>1. CASE Tick
    BY <1>1 DEF Tick, TypeOK, database, memory, history
  <1>2. CASE Start
    <2>1. [NoReload EXCEPT !.pc = "remove"] \in Reload
      BY DEF NoReload, Reload
    <2>2. task' \in [Reloader -> Reload]
      BY <1>2, <2>1 DEF Start, TypeOK, Reloader
    <2>3. reloadFailed' \in BOOLEAN
      BY <1>2, Zenon DEF Start
    <2>4. lives' \in Nat
      BY <1>2 DEF Start, TypeOK
    <2> QED
      BY <1>2, <2>2, <2>3, <2>4 DEF Start, TypeOK, database, history
  <1>3. CASE Over
    BY <1>3 DEF Over, TypeOK, vars, database, memory, history
  <1>4. ASSUME NEW e \in Editor, NEW o \in Owner, NEW S \in SUBSET Time, Save(e, o, S)
        PROVE  TypeOK'
    <2>1. [NoReload EXCEPT !.pc = "remove"] \in Reload
      BY DEF NoReload, Reload
    <2>2. task' \in [Reloader -> Reload]
      BY <1>4, <2>1 DEF Save, TypeOK, Reloader
    <2>3. slots' \in [Owner -> SUBSET Time]
      BY <1>4 DEF Save, TypeOK
    <2>4. removed' \in [Owner -> [Time -> Nat]]
      BY <1>4 DEF Save, TypeOK
    <2> QED
      BY <1>4, <2>2, <2>3, <2>4 DEF Save, Press, TypeOK
  <1>5. ASSUME NEW o \in Owner, SetPaused(o) PROVE TypeOK'
    BY <1>5 DEF SetPaused, Press, TypeOK, memory, history
  <1>6. ASSUME NEW o \in Owner, ToggleWeekends(o) PROVE TypeOK'
    BY <1>6 DEF ToggleWeekends, Press, TypeOK, memory, history
  <1>7. ASSUME NEW o \in Owner, SendNow(o) PROVE TypeOK'
    BY <1>7 DEF SendNow, Press, TypeOK, memory, history
  <1> QED
    BY <1>1, <1>2, <1>3, <1>4, <1>5, <1>6, <1>7

(* So do the steps of a reload. *)
LEMMA ReloadTyped ==
    ASSUME TypeOK, NEW r \in Reloader, Reloading(r) \/ ReloadFails(r)
    PROVE  TypeOK'
  <1>1. CASE ReloadRemove(r)
    <2>1. [task[r] EXCEPT !.pc = "read"] \in Reload
      BY DEF TypeOK, Reload
    <2>2. task' \in [Reloader -> Reload] /\ nextRun' \in [Time -> Int]
      BY <1>1, <2>1 DEF ReloadRemove, TypeOK, Disarmed, Never
    <2> QED
      BY <1>1, <2>2 DEF ReloadRemove, TypeOK, database, history
  <1>2. CASE ReloadRead(r)
    <2>1. [pc |-> "add", times |-> Enabled] \in Reload
      BY DEF TypeOK, Reload, Enabled
    <2>2. task' \in [Reloader -> Reload]
      BY <1>2, <2>1 DEF ReloadRead, TypeOK
    <2> QED
      BY <1>2, <2>2 DEF ReloadRead, TypeOK, database, history
  <1>3. CASE ReloadAdd(r)
    <2>1. task' \in [Reloader -> Reload]
      BY <1>3 DEF ReloadAdd, TypeOK, NoReload, Reload
    <2>2. nextRun' \in [Time -> Int]
      BY <1>3, Instants DEF ReloadAdd, TypeOK
    <2>3. [NoWork EXCEPT !.pc = "owners"] \in Work
      BY DEF NoWork, Work, Never
    <2>4. work' \in [Worker -> Work]
      BY <1>3, <2>3 DEF ReloadAdd, TypeOK, Worker
    <2> QED
      BY <1>3, <2>1, <2>2, <2>4 DEF ReloadAdd, TypeOK, database, history
  <1>4. CASE ReloadFails(r) /\ r # Startup
    <2>1. task' \in [Reloader -> Reload]
      BY <1>4 DEF ReloadFails, TypeOK, NoReload, Reload
    <2> QED
      BY <1>4, <2>1 DEF ReloadFails, TypeOK, database, history
  <1>5. CASE ReloadFails(r) /\ r = Startup
    BY <1>5, DieTyped DEF ReloadFails
  <1> QED
    BY <1>1, <1>2, <1>3, <1>4, <1>5 DEF Reloading

(* A step that only moves one worker on keeps the types. *)
LEMMA WorkTyped ==
    ASSUME TypeOK, NEW w \in Worker, NEW v \in Work, SetWork(w, v),
           UNCHANGED <<now, database, nextRun, task, reloadFailed, history, presses, lives>>,
           phase' \in {"down", "starting", "polling"}
    PROVE  TypeOK'
  <1>1. work' \in [Worker -> Work]
    BY DEF TypeOK
  <1> QED
    BY <1>1 DEF TypeOK, database, history

(* The jobs and the catch-up keep the types. *)
LEMMA ServingTyped ==
    ASSUME TypeOK, NEW w \in Worker, Serving(w)
    PROVE  TypeOK'
  <1> DEFINE c == work[w]
  <1>w. /\ c \in Work /\ c.pc \in {"idle", "owners", "turn", "gate", "post"}
        /\ c.at \in Int /\ c.todo \in SUBSET Owner /\ c.owner \in Owner \cup {0} /\ c.sent \in Nat
        /\ phase \in {"down", "starting", "polling"} /\ now \in Nat
    BY DEF TypeOK, Work
  <1>1. CASE ReadOwners(w)
    <2>1. [c EXCEPT !.pc = "turn", !.todo = Due(w)] \in Work
      BY <1>w DEF Work, Due
    <2>2. NoWork \in Work
      BY DEF NoWork, Work, Never
    <2>3. SetWork(w, [c EXCEPT !.pc = "turn", !.todo = Due(w)]) \/ SetWork(w, NoWork)
      BY <1>1 DEF ReadOwners
    <2>4. UNCHANGED <<now, database, nextRun, task, reloadFailed, history, presses, lives>>
          /\ phase' = phase
      BY <1>1 DEF ReadOwners
    <2> QED
      BY <2>1, <2>2, <2>3, <2>4, <1>w, WorkTyped
  <1>2. CASE Turn(w)
    <2>1. PICK o \in c.todo :
            LET next == [c EXCEPT !.todo = @ \ {o}, !.owner = o, !.sent = Never] IN
            \/ SetWork(w, [next EXCEPT !.pc = "gate"])
            \/ \E t \in Time : SetWork(w, [next EXCEPT !.pc = "gate", !.at = UpTo(t)])
            \/ SetWork(w, next)
      BY <1>2 DEF Turn
    <2> DEFINE next == [c EXCEPT !.todo = @ \ {o}, !.owner = o, !.sent = Never]
    <2>2. next \in Work
      BY <1>w DEF Work, Never
    <2>3. [next EXCEPT !.pc = "gate"] \in Work
      BY <2>2 DEF Work
    <2>4. ASSUME NEW t \in Time PROVE [next EXCEPT !.pc = "gate", !.at = UpTo(t)] \in Work
      BY <2>2, Instants DEF Work
    <2>5. UNCHANGED <<now, database, nextRun, task, reloadFailed, history, presses, lives>>
          /\ phase' = phase
      BY <1>2 DEF Turn
    <2> HIDE DEF next
    <2>6. \/ SetWork(w, [next EXCEPT !.pc = "gate"])
          \/ \E t \in Time : SetWork(w, [next EXCEPT !.pc = "gate", !.at = UpTo(t)])
          \/ SetWork(w, next)
      BY <2>1 DEF next
    <2> QED
      BY <2>2, <2>3, <2>4, <2>5, <2>6, <1>w, WorkTyped
  <1>3. CASE Gate(w)
    <2>1. [c EXCEPT !.pc = IF Gated(c.owner) THEN "turn" ELSE "post"] \in Work
      BY <1>w DEF Work
    <2> QED
      BY <1>3, <2>1, <1>w, WorkTyped DEF Gate
  <1>4. CASE Publish(w)
    <2>1. [c EXCEPT !.sent = now] \in Work
      BY <1>w DEF Work
    <2> QED
      BY <1>4, <2>1, <1>w, WorkTyped DEF Publish
  <1>5. CASE Commit(w)
    <2>1. [c EXCEPT !.pc = "turn"] \in Work
      BY <1>w DEF Work
    <2>2. work' \in [Worker -> Work]
      BY <1>5, <2>1 DEF Commit, TypeOK
    <2>3. lastSent' \in [Owner -> Nat]
      BY <1>5, <1>w DEF Commit, TypeOK
    <2>4. CASE c.sent = Never
      BY <1>5, <2>2, <2>4 DEF Commit, TypeOK
    <2>5. CASE c.sent # Never
      <3>1. served' \in SUBSET ((Owner \cup {0}) \X Int) /\ repeated' \in SUBSET served'
        BY <1>5, <1>w, <2>5 DEF Commit, TypeOK
      <3> QED
        BY <1>5, <2>2, <2>3, <3>1 DEF Commit, TypeOK
    <2> QED
      BY <2>4, <2>5
  <1>6. CASE Fail(w)
    <2>1. [c EXCEPT !.pc = "turn"] \in Work
      BY <1>w DEF Work
    <2> QED
      BY <1>6, <2>1, <1>w, WorkTyped DEF Fail
  <1>7. CASE Finish(w)
    <2>1. NoWork \in Work
      BY DEF NoWork, Work, Never
    <2> QED
      BY <1>7, <2>1, <1>w, WorkTyped DEF Finish
  <1> QED
    BY <1>1, <1>2, <1>3, <1>4, <1>5, <1>6, <1>7 DEF Serving

(* APScheduler's wake-up keeps the types. *)
LEMMA FireTyped ==
    ASSUME TypeOK, NEW t \in Time, Fire(t)
    PROVE  TypeOK'
  <1>1. nextRun' \in [Time -> Int]
    BY Instants DEF Fire, TypeOK
  <1>2. [NoWork EXCEPT !.pc = "owners", !.at = UpTo(t)] \in Work
    BY Instants DEF NoWork, Work, Never
  <1>3. work' \in [Worker -> Work]
    BY <1>2 DEF Fire, TypeOK
  <1> QED
    BY <1>1, <1>3 DEF Fire, TypeOK, database, history

(* Every step keeps the types. *)
LEMMA NextTyped ==
    ASSUME TypeOK, [Next]_vars PROVE TypeOK'
  <1>1. CASE UNCHANGED vars
    BY <1>1 DEF TypeOK, vars, database, memory, history
  <1>2. CASE Crash
    BY <1>2, DieTyped DEF Crash
  <1>3. CASE Tick \/ Start \/ Over
    BY <1>3, PanelTyped
  <1>4. CASE \E e \in Editor, o \in Owner, S \in (SUBSET Time) \ {{}} : Save(e, o, S)
    BY <1>4, PanelTyped
  <1>5. CASE \E o \in Owner : SetPaused(o) \/ ToggleWeekends(o) \/ SendNow(o)
    BY <1>5, PanelTyped
  <1>6. CASE \E r \in Reloader : Reloading(r) \/ ReloadFails(r)
    BY <1>6, ReloadTyped
  <1>7. CASE \E t \in Time : Fire(t)
    BY <1>7, FireTyped
  <1>8. CASE \E w \in Worker : Serving(w)
    BY <1>8, ServingTyped
  <1> QED
    BY <1>1, <1>2, <1>3, <1>4, <1>5, <1>6, <1>7, <1>8 DEF Next

(* A step that leaves the schedule, the jobs and the reloads alone, and does
   not bring a dead process up, covers the schedule as before. *)
LEMMA CoverKept ==
    ASSUME Covered, UNCHANGED <<slots, nextRun, task, reloadFailed>>,
           phase' # "down" => phase # "down"
    PROVE  Covered'
  BY DEF Covered, Enabled, Armed, Pending

(* While a reload has yet to read the times, all of them are covered. *)
LEMMA CoverAll ==
    ASSUME NEW r \in Reloader, task'[r].pc \in {"remove", "read"} PROVE Covered'
  BY DEF Covered, Pending

(* Every step of a reload keeps the schedule covered: the removal by the read
   to come, the read by what it returns, the addition by the jobs it adds. *)
LEMMA ReloadCovers ==
    ASSUME CInv, NEW r \in Reloader, Reloading(r) \/ ReloadFails(r)
    PROVE  Covered'
  <1> USE DEF CInv
  <1>1. CASE ReloadRemove(r)
    <2>1. task'[r].pc = "read"
      BY <1>1 DEF ReloadRemove, TypeOK, Reload
    <2> QED
      BY <2>1, CoverAll
  <1>2. CASE ReloadRead(r)
    <2>1. task'[r].pc = "add" /\ task'[r].times = Enabled'
      BY <1>2 DEF ReloadRead, TypeOK, database, Enabled
    <2> QED
      BY <2>1 DEF Covered, Pending
  <1>3. CASE ReloadAdd(r)
    <2> SUFFICES ASSUME phase' # "down", ~reloadFailed', NEW t \in Enabled'
                 PROVE  Armed(t)' \/ Pending(t)'
      BY DEF Covered
    <2>1. t \in Enabled /\ phase # "down" /\ ~reloadFailed
      BY <1>3 DEF ReloadAdd, Enabled, database
    <2>2. t \in Time
      BY <2>1 DEF Enabled, TypeOK
    <2>3. nextRun'[t] = IF t \in task[r].times THEN After(t) ELSE nextRun[t]
      BY <1>3, <2>2 DEF ReloadAdd
    <2>4. CASE t \in task[r].times
      <3>1. After(t) # 0
        BY <2>2, Instants DEF TypeOK
      <3> QED
        BY <2>3, <2>4, <3>1 DEF Armed, Never
    <2>5. CASE t \notin task[r].times
      <3>1. CASE Armed(t)
        BY <2>3, <2>5, <3>1 DEF Armed
      <3>2. CASE Pending(t)
        <4>1. PICK x \in Reloader :
                 \/ task[x].pc \in {"remove", "read"}
                 \/ task[x].pc = "add" /\ t \in task[x].times
          BY <3>2 DEF Pending
        <4>2. x # r
          BY <1>3, <2>5, <4>1 DEF ReloadAdd
        <4>3. task'[x] = task[x]
          BY <1>3, <4>2 DEF ReloadAdd, TypeOK
        <4> QED
          BY <4>1, <4>3 DEF Pending
      <3> QED
        BY <2>1, <3>1, <3>2 DEF Covered
    <2> QED
      BY <2>4, <2>5
  <1>4. CASE ReloadFails(r)
    BY <1>4 DEF ReloadFails, Die, Covered
  <1> QED
    BY <1>1, <1>2, <1>3, <1>4 DEF Reloading

(* Every step keeps the schedule covered. *)
LEMMA NextCovers ==
    ASSUME CInv, [Next]_vars PROVE Covered'
  <1> USE DEF CInv
  <1>1. CASE UNCHANGED vars \/ Tick \/ Over
    BY <1>1, CoverKept DEF vars, Tick, Over, database, memory
  <1>2. CASE Crash
    BY <1>2 DEF Crash, Die, Covered
  <1>3. CASE Start
    <2>1. task'[Startup].pc = "remove"
      BY <1>3 DEF Start, TypeOK, Reloader, NoReload
    <2> QED
      BY <2>1, CoverAll DEF Reloader
  <1>4. ASSUME NEW e \in Editor, NEW o \in Owner, NEW S \in SUBSET Time, Save(e, o, S)
        PROVE  Covered'
    <2>1. task'[e].pc = "remove"
      BY <1>4 DEF Save, TypeOK, Reloader, NoReload
    <2> QED
      BY <2>1, CoverAll DEF Reloader
  <1>5. ASSUME NEW o \in Owner, SetPaused(o) \/ ToggleWeekends(o) \/ SendNow(o)
        PROVE  Covered'
    BY <1>5, CoverKept DEF SetPaused, ToggleWeekends, SendNow, Press, memory
  <1>6. ASSUME NEW r \in Reloader, Reloading(r) \/ ReloadFails(r) PROVE Covered'
    BY <1>6, ReloadCovers
  <1>7. ASSUME NEW t \in Time, Fire(t) PROVE Covered'
    <2>1. nextRun'[t] # 0
      BY <1>7, Instants DEF Fire, TypeOK
    <2>2. \A u \in Time : Armed(u) => Armed(u)'
      BY <1>7, <2>1 DEF Fire, Armed, Never, TypeOK
    <2>3. Enabled \subseteq Time
      BY DEF Enabled, TypeOK
    <2>4. UNCHANGED <<slots, task, reloadFailed, phase>>
      BY <1>7 DEF Fire, database
    <2> QED
      BY <2>2, <2>3, <2>4 DEF Covered, Enabled, Pending
  <1>8. ASSUME NEW w \in Worker, Serving(w) PROVE Covered'
    <2>1. UNCHANGED <<slots, nextRun, task, reloadFailed>>
      BY <1>8 DEF Serving, ReadOwners, Turn, Gate, Publish, Commit, Fail, Finish, database
    <2>2. work[w].pc # "idle"
      BY <1>8 DEF Serving, ReadOwners, Turn, Gate, Publish, Commit, Fail, Finish
    <2> QED
      BY <2>1, <2>2, CoverKept DEF Asleep
  <1> QED
    BY <1>1, <1>2, <1>3, <1>4, <1>5, <1>6, <1>7, <1>8 DEF Next

(* A dead process stays empty until it starts. *)
LEMMA NextAsleep ==
    ASSUME CInv, [Next]_vars PROVE Asleep'
  <1> USE DEF CInv
  <1> SUFFICES ASSUME phase' = "down"
               PROVE  /\ nextRun' = Disarmed
                      /\ \A r \in Reloader : task'[r].pc = "idle"
                      /\ \A w \in Worker : work'[w].pc = "idle"
    BY DEF Asleep, Disarmed
  <1>1. CASE phase = "down"
    <2>1. UNCHANGED <<nextRun, task, work>>
      <3>1. CASE UNCHANGED vars \/ Tick \/ Over
        BY <3>1 DEF vars, Tick, Over, memory
      <3>2. CASE Crash \/ Start
        BY <1>1, <3>2 DEF Crash, Start
      <3>3. ASSUME NEW e \in Editor, NEW o \in Owner, NEW S \in SUBSET Time, Save(e, o, S)
            PROVE  FALSE
        BY <1>1, <3>3 DEF Save, Press
      <3>4. ASSUME NEW o \in Owner, SetPaused(o) \/ ToggleWeekends(o) \/ SendNow(o)
            PROVE  FALSE
        BY <1>1, <3>4 DEF SetPaused, ToggleWeekends, SendNow, Press
      <3>5. ASSUME NEW r \in Reloader, Reloading(r) \/ ReloadFails(r) PROVE FALSE
        BY <1>1, <3>5 DEF Asleep, Reloading, ReloadRemove, ReloadRead, ReloadAdd, ReloadFails
      <3>6. ASSUME NEW t \in Time, Fire(t) PROVE FALSE
        BY <1>1, <3>6 DEF Asleep, Fire, Armed, Disarmed
      <3>7. ASSUME NEW w \in Worker, Serving(w) PROVE FALSE
        BY <1>1, <3>7
        DEF Asleep, Serving, ReadOwners, Turn, Gate, Publish, Commit, Fail, Finish
      <3> QED
        BY <3>1, <3>2, <3>3, <3>4, <3>5, <3>6, <3>7 DEF Next
    <2> QED
      BY <1>1, <2>1 DEF Asleep
  <1>2. CASE phase # "down"
    <2>1. Die
      <3>1. CASE Crash
        BY <3>1 DEF Crash
      <3>2. CASE UNCHANGED vars \/ Tick \/ Over \/ Start
        BY <1>2, <3>2 DEF vars, Tick, Over, Start
      <3>3. ASSUME NEW e \in Editor, NEW o \in Owner, NEW S \in SUBSET Time, Save(e, o, S)
            PROVE  FALSE
        BY <1>2, <3>3 DEF Save
      <3>4. ASSUME NEW o \in Owner, SetPaused(o) \/ ToggleWeekends(o) \/ SendNow(o)
            PROVE  FALSE
        BY <1>2, <3>4 DEF SetPaused, ToggleWeekends, SendNow
      <3>5. ASSUME NEW r \in Reloader, Reloading(r) \/ ReloadFails(r) PROVE Die
        BY <1>2, <3>5 DEF Reloading, ReloadRemove, ReloadRead, ReloadAdd, ReloadFails
      <3>6. ASSUME NEW t \in Time, Fire(t) PROVE FALSE
        BY <1>2, <3>6 DEF Fire
      <3>7. ASSUME NEW w \in Worker, Serving(w) PROVE FALSE
        BY <1>2, <3>7
        DEF Serving, ReadOwners, Turn, Gate, Publish, Commit, Fail, Finish
      <3> QED
        BY <3>1, <3>2, <3>3, <3>4, <3>5, <3>6, <3>7 DEF Next
    <2> QED
      BY <2>1 DEF Die, NoReload, NoWork
  <1> QED
    BY <1>1, <1>2

(* The invariant behind JobsArmed's first half is inductive: types, nothing in
   a dead process's memory, and the schedule covered (QuizScheduler.reload). *)
THEOREM CoverInductive == Spec => []CInv
  <1>1. Init => CInv
    BY InitTyped DEF Init, CInv, Asleep, Covered, NoReload, NoWork, Reloader, Worker
  <1>2. CInv /\ [Next]_vars => CInv'
    BY NextTyped, NextCovers, NextAsleep DEF CInv
  <1> QED
    BY <1>1, <1>2, PTL DEF Spec

(* Whenever no reload is under way and none has failed, every time of every
   owner has its cron job, whatever edits overlapped before. *)
THEOREM ScheduleHasJobs ==
    Spec => [](Settled /\ ~reloadFailed => \A t \in Enabled : Armed(t))
  <1>1. CInv => (Settled /\ ~reloadFailed => \A t \in Enabled : Armed(t))
    BY DEF CInv, Covered, Settled, Pending
  <1> QED
    BY <1>1, CoverInductive, PTL
================================================================================
