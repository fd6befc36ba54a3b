---------------------------- MODULE QuizSlotProofs -----------------------------
(***************************************************************************)
(* For every set of owners, day, grace time and number of overlapping      *)
(* edits: jobs are armed for the next instant of their time, nobody is     *)
(* served for a time that was not theirs, an instant is served once, and   *)
(* without overlapping edits no deleted time keeps a job (QuizScheduler).  *)
(***************************************************************************)
EXTENDS QuizSchedulerProofs

USE OwnerAssumption, DayAssumption, ClockAssumption, TaskAssumption
    DEF SetTask, SetWork

(* Every integer is a multiple of a day and a time. *)
LEMMA Division ==
    ASSUME NEW a \in Int
    PROVE  a % Day \in Time /\ a \div Day \in Int /\ a = Day * (a \div Day) + (a % Day)
  BY SMT DEF Time

(* It is so in one way only. *)
LEMMA DivisionUnique ==
    ASSUME NEW p \in Int, NEW q \in Int, NEW t \in Time, NEW u \in Time,
           Day * p + t = Day * q + u
    PROVE  t = u
  <1>0. /\ t \in Int /\ u \in Int /\ u - t < Day /\ u - t > -Day
        /\ Day * p \in Int /\ Day * q \in Int
    BY DEF Time
  <1>1. Day * (p - q) = u - t /\ u - t < Day /\ u - t > -Day
    <2>1. Day * (p - q) = Day * p - Day * q
      BY SMT
    <2> QED
      BY <1>0, <2>1
  <1>2. CASE p - q >= 1
    <2>1. Day * (p - q) >= Day
      BY <1>2
    <2> QED
      BY <1>1, <2>1
  <1>3. CASE p - q <= -1
    <2>1. Day * (p - q) <= -Day
      BY <1>3
    <2> QED
      BY <1>1, <2>1
  <1>4. CASE p = q
    BY <1>0, <1>4
  <1> QED
    BY <1>2, <1>3, <1>4

(* The instants of a time are the integers that leave it as remainder. *)
LEMMA InstantOf ==
    ASSUME NEW x \in Int, NEW k \in Int, NEW t \in Time, x = Day * k + t
    PROVE  x % Day = t
  <1>1. x % Day \in Time /\ x \div Day \in Int /\ x = Day * (x \div Day) + (x % Day)
    BY Division
  <1> QED
    BY <1>1, DivisionUnique

(* Two instants of one time are at least a day apart. *)
LEMMA DayApart ==
    ASSUME NEW x \in Int, NEW y \in Int, x % Day = y % Day, x < y
    PROVE  x + Day <= y
  <1> DEFINE p == x \div Day  q == y \div Day
  <1>1. /\ p \in Int /\ x = Day * p + (x % Day) /\ x % Day \in Int
        /\ q \in Int /\ y = Day * q + (x % Day)
    BY Division DEF Time
  <1> HIDE DEF p, q
  <1>2. y - x = Day * (q - p) /\ y - x > 0
    BY <1>1
  <1>3. q - p >= 1
    <2>1. SUFFICES ASSUME q - p <= 0 PROVE FALSE
      BY <1>1
    <2>2. Day * (q - p) <= 0
      BY <1>1, <2>1
    <2> QED
      BY <1>2, <2>2
  <1>4. Day * (q - p) >= Day
    BY <1>1, <1>3
  <1> QED
    BY <1>2, <1>4

(* A day later it is the same time. *)
LEMMA DayLater ==
    ASSUME NEW x \in Int, NEW t \in Time, x % Day = t
    PROVE  (x + Day) % Day = t
  <1>1. x \div Day \in Int /\ x = Day * (x \div Day) + t
    BY Division
  <1> DEFINE k == x \div Day
  <1>2. k \in Int /\ k + 1 \in Int /\ x = Day * k + t /\ t \in Int /\ x + Day \in Int
    BY <1>1 DEF Time
  <1> HIDE DEF k
  <1>3. x + Day = Day * (k + 1) + t
    <2>1. Day * (k + 1) = Day * k + Day
      BY <1>2
    <2> QED
      BY <1>2, <2>1
  <1> QED
    BY <1>2, <1>3, InstantOf

(* After(t) and UpTo(t) are instants of t, a day apart, around now. *)
LEMMA Neighbours ==
    ASSUME TypeOK, NEW t \in Time
    PROVE  /\ After(t) \in Int /\ After(t) % Day = t /\ After(t) > now
           /\ UpTo(t) \in Int /\ UpTo(t) % Day = t /\ UpTo(t) <= now
           /\ (UpTo(t) + Day) % Day = t /\ After(t) = UpTo(t) + Day
  <1>1. now \in Int /\ t \in Int /\ (t - now - 1) \in Int /\ (now - t) \in Int
    BY DEF TypeOK, Time
  <1> DEFINE p == (t - now - 1) \div Day  q == (now - t) \div Day
  <1>2. /\ p \in Int /\ t - now - 1 = Day * p + ((t - now - 1) % Day)
        /\ (t - now - 1) % Day \in Int
        /\ q \in Int /\ now - t = Day * q + ((now - t) % Day)
        /\ (now - t) % Day \in Int
    BY <1>1, Division DEF Time
  <1> HIDE DEF p, q
  <1>3. After(t) = t - Day * p /\ UpTo(t) = t + Day * q
    BY <1>1, <1>2 DEF After, UpTo
  <1>4. After(t) = Day * (-p) + t /\ UpTo(t) = Day * q + t
    <2>1. Day * (-p) = -(Day * p) /\ Day * p \in Int /\ Day * q \in Int
      BY <1>2
    <2> QED
      BY <1>1, <1>3, <2>1
  <1>5. /\ After(t) \in Int /\ After(t) > now
        /\ UpTo(t) \in Int /\ UpTo(t) <= now /\ UpTo(t) + Day > now
    BY Instants
  <1>6. After(t) % Day = t /\ UpTo(t) % Day = t
    <2>1. -p \in Int
      BY <1>2
    <2> QED
      BY <1>2, <1>4, <1>5, <2>1, InstantOf
  <1>7. (UpTo(t) + Day) % Day = t
    BY <1>5, <1>6, DayLater
  <1>8. After(t) <= now + Day
    <2>1. (t - now - 1) % Day < Day
      BY <1>1, Division DEF Time
    <2> QED
      BY <1>1, <1>2, <2>1 DEF After
  <1>9. UpTo(t) + Day <= After(t)
    BY <1>1, <1>5, <1>6, DayApart
  <1>10. ~(UpTo(t) + Day < After(t))
    <2>1. SUFFICES ASSUME UpTo(t) + Day < After(t) PROVE FALSE
      OBVIOUS
    <2>2. UpTo(t) + Day + Day <= After(t)
      BY <1>5, <1>6, <1>7, <2>1, DayApart
    <2> QED
      BY <1>1, <1>5, <1>8, <2>2
  <1> QED
    BY <1>5, <1>6, <1>7, <1>9, <1>10

(* No instant of t lies between them. *)
LEMMA Nearest ==
    ASSUME TypeOK, NEW t \in Time, NEW x \in Int, x % Day = t
    PROVE  (x > now => x >= After(t)) /\ (x <= now => x <= UpTo(t))
  <1>1. now \in Int
    BY DEF TypeOK
  <1>2. CASE x > now
    <2>1. ~(x < After(t))
      <3>1. SUFFICES ASSUME x < After(t) PROVE FALSE
        OBVIOUS
      <3>2. x + Day <= After(t)
        BY <3>1, Neighbours, DayApart
      <3> QED
        BY <1>1, <1>2, <3>2, Neighbours
    <2> QED
      BY <1>1, <1>2, <2>1, Neighbours
  <1>3. CASE x <= now
    <2>1. ~(UpTo(t) < x)
      <3>1. SUFFICES ASSUME UpTo(t) < x PROVE FALSE
        OBVIOUS
      <3>2. UpTo(t) + Day <= x
        BY <3>1, Neighbours, DayApart
      <3> QED
        BY <1>1, <1>3, <3>2, Neighbours
    <2> QED
      BY <1>1, <1>3, <2>1, Neighbours
  <1> QED
    BY <1>1, <1>2, <1>3

(* The next instant of a time, from any instant on. *)
LEMMA InstantAfter ==
    ASSUME NEW n \in Int, NEW t \in Time,
           NEW a, a = n + 1 + ((t - n - 1) % Day)
    PROVE  a \in Int /\ a % Day = t /\ a > n
  <1>1. t \in Int /\ (t - n - 1) \in Int
    BY DEF Time
  <1> DEFINE p == (t - n - 1) \div Day
  <1>2. /\ p \in Int /\ t - n - 1 = Day * p + ((t - n - 1) % Day)
        /\ (t - n - 1) % Day \in Int /\ (t - n - 1) % Day >= 0
    <2>1. /\ (t - n - 1) % Day \in Time /\ (t - n - 1) \div Day \in Int
          /\ t - n - 1 = Day * ((t - n - 1) \div Day) + ((t - n - 1) % Day)
      BY <1>1, Division
    <2> QED
      BY <2>1 DEF Time
  <1> HIDE DEF p
  <1>3. a = Day * (-p) + t /\ a \in Int /\ a > n
    <2>1. Day * (-p) = -(Day * p) /\ Day * p \in Int
      BY <1>2
    <2> QED
      BY <1>1, <1>2, <2>1
  <1>4. -p \in Int
    BY <1>2
  <1> QED
    BY <1>3, <1>4, InstantOf

(* The next instant of a time does not move backwards. *)
LEMMA AfterGrows ==
    ASSUME TypeOK, TypeOK', now' >= now, NEW t \in Time
    PROVE  After(t) <= After(t)'
  <1>1. now' \in Int /\ now \in Int
    BY DEF TypeOK
  <1>2. After(t)' = now' + 1 + ((t - now' - 1) % Day)
    BY DEF After
  <1>3. After(t)' \in Int /\ After(t)' % Day = t /\ After(t)' > now'
    BY <1>1, <1>2, InstantAfter
  <1> QED
    BY <1>1, <1>3, Nearest

(* What the steps of a job or of the catch-up leave alone. *)
LEMMA ServingStep ==
    ASSUME TypeOK, NEW w \in Worker, Serving(w)
    PROVE  /\ work[w].pc # "idle"
           /\ \A v \in Worker : v # w => work'[v] = work[v]
           /\ UNCHANGED <<now, slots, nextRun, task, reloadFailed, removed>>
           /\ UNCHANGED phase \/ (w = Startup /\ Finish(w))
  <1> USE DEF TypeOK, database, history
  <1>1. CASE ReadOwners(w)
    BY <1>1 DEF ReadOwners
  <1>2. CASE Turn(w)
    BY <1>2 DEF Turn
  <1>3. CASE Gate(w)
    BY <1>3 DEF Gate
  <1>4. CASE Publish(w)
    BY <1>4 DEF Publish
  <1>5. CASE Commit(w)
    BY <1>5 DEF Commit
  <1>6. CASE Fail(w)
    BY <1>6 DEF Fail
  <1>7. CASE Finish(w)
    BY <1>7 DEF Finish
  <1> QED
    BY <1>1, <1>2, <1>3, <1>4, <1>5, <1>6, <1>7 DEF Serving

(* A step of a reload moves one reload on; the catch-up begins where the one
   of start-up ends. *)
LEMMA ReloadStep ==
    ASSUME TypeOK, NEW r \in Reloader, Reloading(r) \/ ReloadFails(r)
    PROVE  \/ Die
           \/ /\ task[r].pc # "idle"
              /\ \A x \in Reloader : x # r => task'[x] = task[x]
              /\ \A w \in Worker : w # Startup => work'[w] = work[w]
              /\ UNCHANGED <<now, slots, lastSent, phase, removed, served, repeated>>
              /\ \/ UNCHANGED work
                 \/ /\ r = Startup /\ task'[r].pc = "idle"
                    /\ work'[Startup] = [NoWork EXCEPT !.pc = "owners"]
  <1> USE DEF TypeOK, database, history
  <1>1. CASE ReloadRemove(r)
    BY <1>1 DEF ReloadRemove
  <1>2. CASE ReloadRead(r)
    BY <1>2 DEF ReloadRead
  <1>3. CASE ReloadAdd(r)
    <2>1. task'[r].pc = "idle"
      BY <1>3 DEF ReloadAdd, NoReload
    <2>2. \/ UNCHANGED work
          \/ r = Startup /\ work' = [work EXCEPT ![Startup] = [NoWork EXCEPT !.pc = "owners"]]
      BY <1>3 DEF ReloadAdd
    <2> QED
      BY <1>3, <2>1, <2>2 DEF ReloadAdd, Worker
  <1>4. CASE ReloadFails(r)
    BY <1>4 DEF ReloadFails
  <1> QED
    BY <1>1, <1>2, <1>3, <1>4 DEF Reloading

(* The stages of a process follow each other. *)
LEMMA StagesKept ==
    ASSUME CInv, Stages, [Next]_vars PROVE Stages'
  <1> USE DEF CInv
  <1>0. Startup \in Reloader /\ Startup \in Worker /\ Startup \notin Time
        /\ \A e \in Editor : e \in Reloader /\ e # Startup
    BY DEF Reloader, Worker, Time
  <1>1. CASE UNCHANGED vars \/ Tick \/ Over
    BY <1>1 DEF vars, Tick, Over, memory, Stages
  <1>2. CASE Crash
    BY <1>0, <1>2 DEF Crash, Die, Stages, NoReload, NoWork
  <1>3. CASE Start
    BY <1>0, <1>3 DEF Start, Stages, Asleep, TypeOK
  <1>4. ASSUME NEW e \in Editor, NEW o \in Owner, NEW S \in SUBSET Time, Save(e, o, S)
        PROVE  Stages'
    BY <1>0, <1>4 DEF Save, Press, Stages, TypeOK
  <1>5. ASSUME NEW o \in Owner, SetPaused(o) \/ ToggleWeekends(o) \/ SendNow(o)
        PROVE  Stages'
    BY <1>5 DEF SetPaused, ToggleWeekends, SendNow, Press, memory, Stages
  <1>6. ASSUME NEW r \in Reloader, Reloading(r) \/ ReloadFails(r) PROVE Stages'
    <2>1. CASE Die
      BY <1>0, <2>1 DEF Die, Stages, NoReload, NoWork
    <2>2. CASE ~Die
      BY <1>0, <1>6, <2>2, ReloadStep DEF Stages
    <2> QED
      BY <2>1, <2>2
  <1>7. ASSUME NEW t \in Time, Fire(t) PROVE Stages'
    BY <1>0, <1>7 DEF Fire, Stages, TypeOK
  <1>8. ASSUME NEW w \in Worker, Serving(w) PROVE Stages'
    <2>1. CASE UNCHANGED phase
      BY <1>0, <1>8, <2>1, ServingStep DEF Stages
    <2>2. CASE w = Startup /\ Finish(w)
      BY <1>0, <2>2 DEF Finish, Stages, NoWork, TypeOK
    <2> QED
      BY <1>8, <2>1, <2>2, ServingStep
  <1> QED
    BY <1>1, <1>2, <1>3, <1>4, <1>5, <1>6, <1>7, <1>8 DEF Next

(* Jobs that stay as they are remain timely while the clock runs. *)
LEMMA TimelyLater ==
    ASSUME TypeOK, TypeOK', RunsTimely, now' >= now, nextRun' = nextRun
    PROVE  RunsTimely'
  <1> SUFFICES ASSUME NEW t \in Time, nextRun[t] # Never
               PROVE  nextRun[t] % Day = t /\ nextRun[t] <= After(t)'
    BY DEF RunsTimely, Armed
  <1>1. nextRun[t] % Day = t /\ nextRun[t] <= After(t) /\ nextRun[t] \in Int
    BY DEF RunsTimely, Armed, TypeOK
  <1>2. After(t) \in Int /\ After(t) <= After(t)'
    BY AfterGrows, Neighbours
  <1>3. After(t)' \in Int
    <2>1. now' \in Int /\ After(t)' = now' + 1 + ((t - now' - 1) % Day)
      BY DEF TypeOK, After
    <2> QED
      BY <2>1, InstantAfter
  <1> QED
    BY <1>1, <1>2, <1>3

(* A job's next run stays an instant of its time, at most the next one. *)
LEMMA TimelyKept ==
    ASSUME CInv, RunsTimely, [Next]_vars PROVE RunsTimely'
  <1> USE DEF CInv
  <1>t. TypeOK'
    BY NextTyped
  <1>n. now \in Int
    BY DEF TypeOK
  <1>1. CASE UNCHANGED vars \/ Tick \/ Over
    <2>1. nextRun' = nextRun /\ now' >= now
      BY <1>1, <1>n DEF vars, Tick, Over, memory
    <2> QED
      BY <1>t, <2>1, TimelyLater
  <1>2. CASE Die
    BY <1>2 DEF Die, Disarmed, RunsTimely, Armed
  <1>3. CASE Start
    <2>1. nextRun' = nextRun /\ now' >= now
      BY <1>3, <1>n DEF Start
    <2> QED
      BY <1>t, <2>1, TimelyLater
  <1>4. ASSUME NEW e \in Editor, NEW o \in Owner, NEW S \in SUBSET Time, Save(e, o, S)
        PROVE  RunsTimely'
    <2>1. nextRun' = nextRun /\ now' >= now
      BY <1>4, <1>n DEF Save
    <2> QED
      BY <1>t, <2>1, TimelyLater
  <1>5. ASSUME NEW o \in Owner, SetPaused(o) \/ ToggleWeekends(o) \/ SendNow(o)
        PROVE  RunsTimely'
    <2>1. nextRun' = nextRun /\ now' >= now
      BY <1>5, <1>n DEF SetPaused, ToggleWeekends, SendNow, memory
    <2> QED
      BY <1>t, <2>1, TimelyLater
  <1>6. ASSUME NEW r \in Reloader, Reloading(r) \/ ReloadFails(r) PROVE RunsTimely'
    <2>1. CASE ReloadRemove(r)
      BY <2>1 DEF ReloadRemove, Disarmed, RunsTimely, Armed
    <2>2. CASE ReloadAdd(r)
      <3> SUFFICES ASSUME NEW t \in Time, nextRun'[t] # Never
                   PROVE  nextRun'[t] % Day = t /\ nextRun'[t] <= After(t)'
        BY DEF RunsTimely, Armed
      <3>1. After(t)' = After(t) /\ After(t) \in Int /\ After(t) % Day = t
        BY <2>2, Neighbours DEF ReloadAdd, After
      <3>2. nextRun'[t] = IF t \in task[r].times THEN After(t) ELSE nextRun[t]
        BY <2>2 DEF ReloadAdd
      <3> QED
        BY <3>1, <3>2 DEF RunsTimely, Armed
    <2>3. CASE ReloadRead(r) \/ (ReloadFails(r) /\ ~Die)
      <3>1. nextRun' = nextRun /\ now' >= now
        BY <2>3, <1>n DEF ReloadRead, ReloadFails
      <3> QED
        BY <1>t, <3>1, TimelyLater
    <2> QED
      BY <1>2, <1>6, <2>1, <2>2, <2>3 DEF Reloading
  <1>7. ASSUME NEW t \in Time, Fire(t) PROVE RunsTimely'
    <2> SUFFICES ASSUME NEW u \in Time, nextRun'[u] # Never
                 PROVE  nextRun'[u] % Day = u /\ nextRun'[u] <= After(u)'
      BY DEF RunsTimely, Armed
    <2>1. After(u)' = After(u) /\ After(u) \in Int
      BY <1>7, Neighbours DEF Fire, After
    <2>2. nextRun'[u] = IF u = t THEN UpTo(t) + Day ELSE nextRun[u]
      BY <1>7 DEF Fire, TypeOK
    <2>3. (UpTo(t) + Day) % Day = t /\ UpTo(t) + Day = After(t)
      BY Neighbours
    <2> QED
      BY <2>1, <2>2, <2>3 DEF RunsTimely, Armed
  <1>8. ASSUME NEW w \in Worker, Serving(w) PROVE RunsTimely'
    <2>1. nextRun' = nextRun /\ now' >= now
      BY <1>8, <1>n, ServingStep
    <2> QED
      BY <1>t, <2>1, TimelyLater
  <1> QED
    BY <1>1, <1>2, <1>3, <1>4, <1>5, <1>6, <1>7, <1>8 DEF Next, Crash

(* What was due stays due: a time that leaves the schedule leaves it now. *)
LEMMA DueStays ==
    ASSUME TypeOK, NEW o \in Owner, NEW i \in Int, i <= now, WasDue(o, i),
           \/ UNCHANGED <<slots, removed>>
           \/ \E e \in Editor, p \in Owner, S \in SUBSET Time : Save(e, p, S)
    PROVE  WasDue(o, i)'
  <1>1. CASE UNCHANGED <<slots, removed>>
    BY <1>1 DEF WasDue
  <1>2. CASE \E e \in Editor, p \in Owner, S \in SUBSET Time : Save(e, p, S)
    <2>1. PICK e \in Editor, p \in Owner, S \in SUBSET Time : Save(e, p, S)
      BY <1>2
    <2>2. i % Day \in Time
      BY Division
    <2>3. /\ slots'[o] = IF o = p THEN S ELSE slots[o]
          /\ removed'[o] = IF o = p
                           THEN [t \in Time |-> IF t \in slots[p] \ S THEN now ELSE removed[p][t]]
                           ELSE removed[o]
      BY <2>1 DEF Save, TypeOK
    <2>4. removed'[o][i % Day] = IF o = p /\ i % Day \in slots[o] \ S
                                 THEN now ELSE removed[o][i % Day]
      BY <2>2, <2>3
    <2>5. WasDue(o, i)' = (i % Day \in slots'[o] \/ removed'[o][i % Day] >= i)
      BY DEF WasDue
    <2> QED
      BY <2>3, <2>4, <2>5 DEF WasDue
  <1> QED
    BY <1>1, <1>2

(* The turns of a worker that does not move are due as before. *)
LEMMA TurnsStay ==
    ASSUME TypeOK, NEW w \in Worker, TurnsDue(w), work'[w] = work[w], now' \in Int, now' >= now,
           \/ UNCHANGED <<slots, removed>>
           \/ \E e \in Editor, p \in Owner, S \in SUBSET Time : Save(e, p, S)
    PROVE  TurnsDue(w)'
  <1> DEFINE c == work[w]
  <1>1. c.at \in Int /\ c.todo \subseteq Owner /\ now \in Int
    BY DEF TypeOK, Work
  <1> DEFINE Stays(o, i) == i % Day \in slots'[o] \/ removed'[o][i % Day] >= i
  <1>d. ASSUME NEW o \in Owner, NEW i \in Int, i <= now, WasDue(o, i) PROVE Stays(o, i)
    <2>1. WasDue(o, i)'
      BY <1>d, DueStays
    <2> QED
      BY <2>1 DEF WasDue
  <1> HIDE DEF Stays
  <1>2. ASSUME w \in Time, c.pc # "idle"
        PROVE  c.at <= now' /\ c.at % Day = w /\ \A o \in c.todo : Stays(o, c.at)
    <2>1. c.at <= now /\ c.at % Day = w /\ \A o \in c.todo : WasDue(o, c.at)
      BY <1>2 DEF TurnsDue
    <2>2. c.at <= now'
      BY <1>1, <2>1
    <2> QED
      BY <1>1, <1>d, <2>1, <2>2
  <1>4. ASSUME Taking(w)
        PROVE  /\ c.owner \in Owner \ c.todo
               /\ c.at <= now' /\ Stays(c.owner, c.at)
    <2>1. c.owner \in Owner \ c.todo /\ c.at <= now /\ WasDue(c.owner, c.at)
      BY <1>4 DEF TurnsDue
    <2>2. c.at <= now'
      BY <1>1, <2>1
    <2> QED
      BY <1>1, <1>d, <2>1, <2>2
  <1> QED
    BY <1>2, <1>4 DEF TurnsDue, Taking, WasDue, Stays

(* A worker that has nothing to do has no turns. *)
LEMMA NoTurns ==
    ASSUME NEW w \in Worker, work'[w].pc = "idle", work'[w].todo = {}
    PROVE  TurnsDue(w)'
  BY DEF TurnsDue, Taking

(* A worker's own steps give turns to those whose slot it is. *)
LEMMA ServingDue ==
    ASSUME TypeOK, NEW w \in Worker, TurnsDue(w), Serving(w) PROVE TurnsDue(w)'
  <1> DEFINE c == work[w]  d == work'[w]
  <1>0. UNCHANGED <<now, slots, removed>> /\ c.pc # "idle"
    BY ServingStep
  <1>w. c \in Work /\ c.todo \subseteq Owner /\ c.at \in Int /\ now \in Int
        /\ (w \in Time => w # Startup)
    BY DEF TypeOK, Work, Time
  <1>s. \A v : SetWork(w, v) => d = v
    BY DEF TypeOK
  <1>d. \A o, i : WasDue(o, i)' = WasDue(o, i)
    BY <1>0 DEF WasDue
  <1>1. CASE ReadOwners(w)
    <2>1. CASE SetWork(w, NoWork)
      BY <1>s, <2>1, NoTurns DEF NoWork
    <2>2. CASE SetWork(w, [c EXCEPT !.pc = "turn", !.todo = Due(w)])
      <3>1. d = [c EXCEPT !.pc = "turn", !.todo = Due(w)]
        BY <1>s, <2>2
      <3>2. d.pc = "turn" /\ d.at = c.at /\ d.todo = Due(w)
        BY <1>w, <3>1 DEF Work
      <3>3. ASSUME w \in Time, NEW o \in Due(w) PROVE WasDue(o, c.at)
        BY <1>0, <1>w, <3>3 DEF TurnsDue, Due, WasDue
      <3> QED
        BY <1>0, <1>d, <3>2, <3>3 DEF TurnsDue, Taking
    <2> QED
      BY <1>1, <2>1, <2>2 DEF ReadOwners
  <1>2. CASE Turn(w)
    <2>1. PICK o \in c.todo :
            LET next == [c EXCEPT !.todo = @ \ {o}, !.owner = o, !.sent = Never] IN
            \/ w # Startup /\ SetWork(w, [next EXCEPT !.pc = "gate"])
            \/ w = Startup /\ \E t \in Time : /\ Missed(o, UpTo(t))
                                             /\ SetWork(w, [next EXCEPT !.pc = "gate", !.at = UpTo(t)])
            \/ w = Startup /\ SetWork(w, next)
      BY <1>2 DEF Turn
    <2> DEFINE next == [c EXCEPT !.todo = @ \ {o}, !.owner = o, !.sent = Never]
    <2>n. /\ next \in Work /\ next.pc = "turn" /\ next.at = c.at
          /\ next.todo = c.todo \ {o} /\ next.owner = o
      BY <1>2, <1>w DEF Work, Never, Turn
    <2>c. \/ w # Startup /\ d = [next EXCEPT !.pc = "gate"]
          \/ w = Startup /\ \E t \in Time : /\ Missed(o, UpTo(t))
                                           /\ d = [next EXCEPT !.pc = "gate", !.at = UpTo(t)]
          \/ w = Startup /\ d = next
      BY <1>s, <2>1
    <2> HIDE DEF next
    <2>2. CASE w # Startup
      <3>1. /\ d.pc = "gate" /\ d.todo = c.todo \ {o} /\ d.owner = o /\ d.at = c.at
        BY <2>2, <2>c, <2>n DEF Work
      <3>2. w \in Time
        BY <2>2 DEF Worker
      <3> QED
        BY <1>0, <1>d, <1>w, <3>1, <3>2 DEF TurnsDue, Taking
    <2>3. CASE w = Startup /\ d.pc # "gate"
      <3>1. d.pc = "turn"
        BY <2>3, <2>c, <2>n DEF Work
      <3> QED
        BY <1>w, <2>3, <3>1 DEF TurnsDue, Taking
    <2>4. CASE w = Startup /\ d.pc = "gate"
      <3>1. PICK t \in Time :
               /\ Missed(o, UpTo(t))
               /\ d.pc = "gate" /\ d.todo = c.todo \ {o} /\ d.owner = o /\ d.at = UpTo(t)
        BY <2>4, <2>c, <2>n DEF Work
      <3>2. PICK u \in slots[o] : UpTo(t) = UpTo(u)
        BY <3>1 DEF Missed
      <3>3. u \in Time /\ o \in Owner
        BY <1>w, <3>2 DEF TypeOK
      <3>4. UpTo(u) % Day = u /\ UpTo(u) <= now
        BY <3>3, Neighbours
      <3>5. WasDue(o, UpTo(t))
        BY <3>2, <3>4 DEF WasDue
      <3> QED
        BY <1>0, <1>d, <1>w, <2>4, <3>1, <3>2, <3>3, <3>4, <3>5 DEF TurnsDue, Taking
    <2> QED
      BY <2>2, <2>3, <2>4
  <1>3. CASE Gate(w) \/ Publish(w) \/ Commit(w) \/ Fail(w)
    <2>1. /\ d.at = c.at /\ d.todo = c.todo /\ d.owner = c.owner
          /\ Taking(w)
      <3>1. CASE Gate(w)
        BY <1>s, <1>w, <3>1 DEF Gate, Work, Taking
      <3>2. CASE Publish(w)
        BY <1>s, <1>w, <3>2 DEF Publish, Work, Taking
      <3>3. CASE Commit(w)
        BY <1>s, <1>w, <3>3 DEF Commit, Work, Taking
      <3>4. CASE Fail(w)
        BY <1>s, <1>w, <3>4 DEF Fail, Work, Taking
      <3> QED
        BY <1>3, <3>1, <3>2, <3>3, <3>4
    <2> QED
      BY <1>0, <1>d, <2>1 DEF TurnsDue
  <1>4. CASE Finish(w)
    BY <1>4, <1>s, NoTurns DEF Finish, NoWork
  <1> QED
    BY <1>1, <1>2, <1>3, <1>4 DEF Serving

(* Every step keeps the turns due. *)
LEMMA DueKept ==
    ASSUME CInv, NEW w \in Worker, TurnsDue(w), [Next]_vars PROVE TurnsDue(w)'
  <1> USE DEF CInv
  <1>n. now \in Int /\ now' \in Int
    BY NextTyped DEF TypeOK
  <1>1. CASE UNCHANGED vars \/ Tick \/ Over
    BY <1>1, <1>n, TurnsStay DEF vars, Tick, Over, memory, database, history
  <1>2. CASE Die
    BY <1>2, NoTurns DEF Die, NoWork
  <1>3. CASE Start
    BY <1>3, <1>n, TurnsStay DEF Start, database, history
  <1>4. ASSUME NEW e \in Editor, NEW o \in Owner, NEW S \in SUBSET Time, Save(e, o, S)
        PROVE  TurnsDue(w)'
    <2>1. work' = work /\ now' = now
      BY <1>4 DEF Save
    <2> QED
      BY <1>4, <1>n, <2>1, TurnsStay
  <1>5. ASSUME NEW o \in Owner, SetPaused(o) \/ ToggleWeekends(o) \/ SendNow(o)
        PROVE  TurnsDue(w)'
    BY <1>5, <1>n, TurnsStay DEF SetPaused, ToggleWeekends, SendNow, memory, history
  <1>6. ASSUME NEW r \in Reloader, Reloading(r) \/ ReloadFails(r) PROVE TurnsDue(w)'
    <2>1. CASE work'[w] = work[w] /\ ~Die
      BY <1>6, <1>n, <2>1, ReloadStep, TurnsStay
    <2>2. CASE work'[w] # work[w] /\ ~Die
      <3>1. work'[w] = [NoWork EXCEPT !.pc = "owners"] /\ w = Startup
        BY <1>6, <2>2, ReloadStep
      <3>2. work'[w].pc = "owners" /\ work'[w].todo = {} /\ w \notin Time
        BY <3>1 DEF NoWork, Time
      <3> QED
        BY <3>2 DEF TurnsDue, Taking
    <2> QED
      BY <1>2, <2>1, <2>2
  <1>7. ASSUME NEW t \in Time, Fire(t) PROVE TurnsDue(w)'
    <2>1. CASE work'[w] = work[w]
      BY <1>7, <1>n, <2>1, TurnsStay DEF Fire, database, history
    <2>2. CASE work'[w] # work[w]
      <3>1. w = t /\ work'[t] = [NoWork EXCEPT !.pc = "owners", !.at = UpTo(t)]
        BY <1>7, <2>2 DEF Fire, TypeOK
      <3>2. work'[t].pc = "owners" /\ work'[t].at = UpTo(t) /\ work'[t].todo = {}
        BY <3>1 DEF NoWork
      <3>3. UpTo(t) <= now /\ UpTo(t) % Day = t /\ now' = now
        BY <1>7, Neighbours DEF Fire
      <3> QED
        BY <3>1, <3>2, <3>3 DEF TurnsDue, Taking
    <2> QED
      BY <2>1, <2>2
  <1>8. ASSUME NEW v \in Worker, Serving(v) PROVE TurnsDue(w)'
    <2>1. CASE w = v
      BY <1>8, <2>1, ServingDue
    <2>2. CASE w # v
      BY <1>8, <1>n, <2>2, ServingStep, TurnsStay
    <2> QED
      BY <2>1, <2>2
  <1> QED
    BY <1>1, <1>2, <1>3, <1>4, <1>5, <1>6, <1>7, <1>8 DEF Next, Crash

(* While the catch-up is at work the process is starting. *)
LEMMA CatchUpStarts ==
    ASSUME CInv, Stages, work[Startup].pc # "idle" PROVE phase = "starting"
  <1>1. Startup \in Worker
    BY DEF Worker
  <1> QED
    BY <1>1 DEF CInv, TypeOK, Asleep, Stages

(* A next run is left alone, taken away, or computed from now. *)
LEMMA NextRunStep ==
    ASSUME CInv, [Next]_vars, NEW t \in Time
    PROVE  nextRun'[t] = nextRun[t] \/ nextRun'[t] = Never \/ (nextRun'[t] > now /\ now' = now)
  <1> USE DEF CInv
  <1>1. CASE UNCHANGED vars \/ Tick \/ Over \/ Start
    BY <1>1 DEF vars, Tick, Over, Start, memory
  <1>2. CASE Die
    BY <1>2 DEF Die, Disarmed
  <1>3. ASSUME NEW e \in Editor, NEW o \in Owner, NEW S \in SUBSET Time, Save(e, o, S)
        PROVE  nextRun' = nextRun
    BY <1>3 DEF Save
  <1>4. ASSUME NEW o \in Owner, SetPaused(o) \/ ToggleWeekends(o) \/ SendNow(o)
        PROVE  nextRun' = nextRun
    BY <1>4 DEF SetPaused, ToggleWeekends, SendNow, memory
  <1>5. ASSUME NEW r \in Reloader, Reloading(r) \/ (ReloadFails(r) /\ ~Die)
        PROVE  \/ nextRun'[t] = nextRun[t] \/ nextRun'[t] = Never
               \/ (nextRun'[t] > now /\ now' = now)
    <2>1. CASE ReloadRemove(r)
      BY <2>1 DEF ReloadRemove, Disarmed
    <2>2. CASE ReloadAdd(r)
      <3>1. now' = now /\ nextRun'[t] = IF t \in task[r].times THEN After(t) ELSE nextRun[t]
        BY <2>2 DEF ReloadAdd
      <3> QED
        BY <3>1, Neighbours
    <2>3. CASE ReloadRead(r) \/ (ReloadFails(r) /\ ~Die)
      BY <2>3 DEF ReloadRead, ReloadFails
    <2> QED
      BY <1>5, <2>1, <2>2, <2>3 DEF Reloading
  <1>6. ASSUME NEW u \in Time, Fire(u)
        PROVE  nextRun'[t] = nextRun[t] \/ (nextRun'[t] > now /\ now' = now)
    <2>1. now' = now /\ nextRun'[t] = IF t = u THEN UpTo(u) + Day ELSE nextRun[t]
      BY <1>6 DEF Fire, TypeOK
    <2> QED
      BY <2>1, Neighbours
  <1>7. ASSUME NEW w \in Worker, Serving(w) PROVE nextRun' = nextRun
    BY <1>7, ServingStep
  <1> QED
    BY <1>1, <1>2, <1>3, <1>4, <1>5, <1>6, <1>7 DEF Next, Crash

(* A start-up that is shorter than an instant meets no job that is due. *)
LEMMA AheadKept ==
    ASSUME CInv, Stages, StartsAhead, ~SlowStart, [Next]_vars PROVE StartsAhead'
  <1> USE DEF CInv
  <1> SUFFICES ASSUME phase' = "starting", NEW t \in Time
               PROVE  work'[t].pc = "idle" /\ (nextRun'[t] # Never => nextRun'[t] > now')
    BY DEF StartsAhead, Armed
  <1>0. t \in Worker /\ t # Startup /\ Startup \in Reloader
    BY DEF Worker, Time, Reloader
  <1>1. CASE UNCHANGED vars \/ Tick \/ Over
    BY <1>1 DEF vars, Tick, Over, memory, StartsAhead, Armed
  <1>2. CASE Die
    BY <1>2 DEF Die
  <1>3. CASE Start
    BY <1>0, <1>3 DEF Start, Asleep, Disarmed
  <1>4. CASE phase = "starting" /\ ~Tick /\ ~Die
    <2>1. work[t].pc = "idle" /\ (nextRun[t] # Never => nextRun[t] > now)
      BY <1>4 DEF StartsAhead, Armed
    <2>2. ASSUME NEW u \in Time PROVE ~Fire(u)
      BY <1>4, <2>2 DEF Fire, StartsAhead, Armed, TypeOK
    <2>3. work'[t].pc = "idle" /\ now' = now
      <3>1. CASE UNCHANGED vars \/ Over \/ Start
        BY <2>1, <3>1 DEF vars, Over, Start, memory
      <3>2. ASSUME NEW e \in Editor, NEW o \in Owner, NEW S \in SUBSET Time, Save(e, o, S)
            PROVE  FALSE
        BY <1>4, <3>2 DEF Save, Press
      <3>3. ASSUME NEW o \in Owner, SetPaused(o) \/ ToggleWeekends(o) \/ SendNow(o)
            PROVE  FALSE
        BY <1>4, <3>3 DEF SetPaused, ToggleWeekends, SendNow, Press
      <3>4. ASSUME NEW r \in Reloader, Reloading(r) \/ ReloadFails(r)
            PROVE  work'[t].pc = "idle" /\ now' = now
        BY <1>0, <1>4, <2>1, <3>4, ReloadStep
      <3>5. ASSUME NEW w \in Worker, Serving(w)
            PROVE  work'[t].pc = "idle" /\ now' = now
        BY <1>0, <2>1, <3>5, ServingStep
      <3> QED
        BY <1>4, <2>2, <3>1, <3>2, <3>3, <3>4, <3>5 DEF Next, Crash
    <2> QED
      BY <2>1, <2>3, NextRunStep
  <1>5. CASE phase # "starting"
    <2>1. ASSUME NEW e \in Editor, NEW o \in Owner, NEW S \in SUBSET Time, Save(e, o, S)
          PROVE  FALSE
      BY <1>5, <2>1 DEF Save
    <2>2. ASSUME NEW o \in Owner, SetPaused(o) \/ ToggleWeekends(o) \/ SendNow(o)
          PROVE  FALSE
      BY <1>5, <2>2 DEF SetPaused, ToggleWeekends, SendNow
    <2>3. ASSUME NEW r \in Reloader, Reloading(r) \/ ReloadFails(r)
          PROVE  Die
      BY <1>5, <2>3, ReloadStep
    <2>4. ASSUME NEW u \in Time, Fire(u) PROVE FALSE
      BY <1>5, <2>4 DEF Fire
    <2>5. ASSUME NEW w \in Worker, Serving(w) PROVE FALSE
      BY <1>5, <2>5, ServingStep DEF Finish
    <2> QED
      BY <1>1, <1>2, <1>3, <2>1, <2>2, <2>3, <2>4, <2>5 DEF Next, Crash
  <1> QED
    BY <1>1, <1>2, <1>4, <1>5

(* Only a commit serves; nothing else takes a delivery back. *)
LEMMA ServedStep ==
    ASSUME CInv, [Next]_vars
    PROVE  \/ /\ UNCHANGED <<served, repeated>>
              /\ \A o \in Owner : lastSent'[o] = lastSent[o] \/ lastSent'[o] = now
           \/ \E w \in Worker : Commit(w) /\ work[w].sent # Never
  <1> USE DEF CInv
  <1> DEFINE Nothing == /\ UNCHANGED <<served, repeated>>
                        /\ \A o \in Owner : lastSent'[o] = lastSent[o] \/ lastSent'[o] = now
  <1>1. CASE UNCHANGED vars \/ Tick \/ Over \/ Start
    BY <1>1 DEF vars, Tick, Over, Start, database, history
  <1>2. CASE Die
    BY <1>2 DEF Die, database, history
  <1>3. ASSUME NEW e \in Editor, NEW o \in Owner, NEW S \in SUBSET Time, Save(e, o, S)
        PROVE  Nothing
    BY <1>3 DEF Save
  <1>4. ASSUME NEW o \in Owner, SetPaused(o) \/ ToggleWeekends(o) \/ SendNow(o)
        PROVE  Nothing
    BY <1>4 DEF SetPaused, ToggleWeekends, SendNow, history, TypeOK
  <1>5. ASSUME NEW r \in Reloader, Reloading(r) \/ (ReloadFails(r) /\ ~Die) PROVE Nothing
    BY <1>5 DEF Reloading, ReloadRemove, ReloadRead, ReloadAdd, ReloadFails, database, history
  <1>6. ASSUME NEW t \in Time, Fire(t) PROVE Nothing
    BY <1>6 DEF Fire, database, history
  <1>7. ASSUME NEW w \in Worker, Serving(w) PROVE Nothing \/ (Commit(w) /\ work[w].sent # Never)
    <2>1. CASE Commit(w)
      BY <2>1 DEF Commit
    <2>2. CASE ReadOwners(w) \/ Turn(w) \/ Gate(w) \/ Publish(w) \/ Fail(w) \/ Finish(w)
      BY <2>2 DEF ReadOwners, Turn, Gate, Publish, Fail, Finish, database, history
    <2> QED
      BY <1>7, <2>1, <2>2 DEF Serving
  <1> QED
    BY <1>1, <1>2, <1>3, <1>4, <1>5, <1>6, <1>7 DEF Next, Crash

(* The clock does not run backwards. *)
LEMMA ClockRuns ==
    ASSUME CInv, [Next]_vars PROVE now \in Int /\ now' \in Int /\ now' >= now
  <1> USE DEF CInv
  <1>1. now \in Int /\ now' \in Int
    BY NextTyped DEF TypeOK
  <1>2. CASE UNCHANGED vars \/ Tick \/ Over \/ Start \/ Die
    BY <1>1, <1>2 DEF vars, Tick, Over, Start, Die
  <1>3. ASSUME NEW e \in Editor, NEW o \in Owner, NEW S \in SUBSET Time, Save(e, o, S)
        PROVE  now' = now
    BY <1>3 DEF Save
  <1>4. ASSUME NEW o \in Owner, SetPaused(o) \/ ToggleWeekends(o) \/ SendNow(o)
        PROVE  now' = now
    BY <1>4 DEF SetPaused, ToggleWeekends, SendNow
  <1>5. ASSUME NEW r \in Reloader, Reloading(r) \/ ReloadFails(r) PROVE now' = now
    BY <1>5, ReloadStep DEF Die
  <1>6. ASSUME NEW t \in Time, Fire(t) PROVE now' = now
    BY <1>6 DEF Fire
  <1>7. ASSUME NEW w \in Worker, Serving(w) PROVE now' = now
    BY <1>7, ServingStep
  <1> QED
    BY <1>1, <1>2, <1>3, <1>4, <1>5, <1>6, <1>7 DEF Next, Crash

(* What a commit that reached a channel does. *)
LEMMA CommitStep ==
    ASSUME CInv, NEW w \in Worker, TurnsDue(w), Commit(w), work[w].sent # Never
    PROVE  /\ Taking(w) /\ work[w].owner \in Owner /\ work[w].at <= now
           /\ work[w].owner \notin work[w].todo
           /\ work[w].at \in Int /\ work[w].sent \in Nat
           /\ UNCHANGED <<now, nextRun, phase>>
           /\ served' = served \cup {<<work[w].owner, work[w].at>>}
           /\ repeated' = repeated \cup (served \cap {<<work[w].owner, work[w].at>>})
           /\ \A o \in Owner : lastSent'[o] >= lastSent[o] /\ lastSent[o] \in Nat /\ lastSent'[o] \in Nat
           /\ lastSent'[work[w].owner] >= work[w].sent
           /\ work'[w] = [work[w] EXCEPT !.pc = "turn"]
           /\ \A v \in Worker : v # w => work'[v] = work[v]
  <1> USE DEF CInv
  <1>1. Taking(w) /\ UNCHANGED <<now, nextRun, phase>>
    BY DEF Commit, Taking
  <1>2. /\ work[w].owner \in Owner /\ work[w].at <= now /\ work[w].owner \notin work[w].todo
        /\ work[w].at \in Int /\ work[w].sent \in Nat
    BY <1>1 DEF TurnsDue, TypeOK, Work
  <1>3. /\ served' = served \cup {<<work[w].owner, work[w].at>>}
        /\ repeated' = repeated \cup (served \cap {<<work[w].owner, work[w].at>>})
    BY DEF Commit
  <1>4. lastSent' = [lastSent EXCEPT ![work[w].owner] =
                       IF work[w].sent > @ THEN work[w].sent ELSE @]
    BY DEF Commit
  <1>5. lastSent \in [Owner -> Nat]
    BY DEF TypeOK
  <1>6. /\ \A o \in Owner : lastSent'[o] >= lastSent[o] /\ lastSent[o] \in Nat /\ lastSent'[o] \in Nat
        /\ lastSent'[work[w].owner] >= work[w].sent
    <2>1. \A o \in Owner : lastSent'[o] = IF o = work[w].owner /\ work[w].sent > lastSent[o]
                                          THEN work[w].sent ELSE lastSent[o]
      BY <1>2, <1>4, <1>5
    <2>2. \A o \in Owner : lastSent[o] \in Nat
      BY <1>5
    <2> DEFINE n == work[w].sent
    <2>3. n \in Nat /\ work[w].owner \in Owner
      BY <1>2
    <2>4. \A o \in Owner : lastSent'[o] = IF o = work[w].owner /\ n > lastSent[o]
                                          THEN n ELSE lastSent[o]
      BY <2>1
    <2> HIDE DEF n
    <2>5. ASSUME NEW o \in Owner
          PROVE  /\ lastSent'[o] >= lastSent[o] /\ lastSent'[o] \in Nat
                 /\ o = work[w].owner => lastSent'[o] >= n
      <3>1. lastSent[o] \in Nat
        BY <2>2
      <3>2. lastSent'[o] = IF o = work[w].owner /\ n > lastSent[o] THEN n ELSE lastSent[o]
        BY <2>4
      <3> QED
        BY <2>3, <3>1, <3>2
    <2>6. n = work[w].sent
      BY DEF n
    <2> QED
      BY <2>2, <2>3, <2>5, <2>6
  <1>7. work'[w] = [work[w] EXCEPT !.pc = "turn"] /\ \A v \in Worker : v # w => work'[v] = work[v]
    BY DEF Commit, TypeOK
  <1> QED
    BY <1>1, <1>2, <1>3, <1>6, <1>7

(* Where a job is armed, the instant it or the catch-up serves lies before. *)
LEMMA TakenBehind ==
    ASSUME CInv, Stages, StartsAhead, NEW w \in Worker, TurnsDue(w), TurnsFresh(w),
           Taking(w), Armed(work[w].at % Day)
    PROVE  work[w].at < nextRun[work[w].at % Day]
  <1> USE DEF CInv
  <1>1. work[w].pc # "idle" /\ work[w].at <= now /\ work[w].at \in Int /\ now \in Int
    BY DEF Taking, TurnsDue, TypeOK, Work
  <1>2. CASE w \in Time
    BY <1>1, <1>2 DEF TurnsDue, TurnsFresh
  <1>3. CASE w = Startup
    <2>1. work[w].at % Day \in Time
      BY <1>1, Division
    <2>2. nextRun[work[w].at % Day] > now /\ nextRun[work[w].at % Day] \in Int
      BY <1>1, <1>3, <2>1, CatchUpStarts DEF StartsAhead, TypeOK
    <2> QED
      BY <1>1, <2>2
  <1> QED
    BY <1>2, <1>3 DEF Worker

(* What has been served stays behind the next runs and the deliveries. *)
LEMMA BehindKept ==
    ASSUME CInv, Stages, ServedBehind, StartsAhead, [Next]_vars,
           \A w \in Worker : TurnsDue(w) /\ TurnsFresh(w)
    PROVE  ServedBehind'
  <1> USE DEF CInv
  <1> SUFFICES ASSUME NEW x \in served'
               PROVE  /\ x[1] \in Owner /\ x[2] <= now' /\ x[2] <= lastSent'[x[1]]
                      /\ nextRun'[x[2] % Day] # Never => x[2] < nextRun'[x[2] % Day]
    BY DEF ServedBehind, Armed
  <1>n. now \in Int /\ now' \in Int /\ now' >= now
    BY ClockRuns
  <1>o. ASSUME x \in served
        PROVE  /\ x[1] \in Owner /\ x[2] \in Int /\ x[2] <= now
               /\ x[2] <= lastSent[x[1]] /\ lastSent[x[1]] \in Nat
               /\ x[2] % Day \in Time /\ nextRun[x[2] % Day] \in Int
               /\ nextRun[x[2] % Day] # Never => x[2] < nextRun[x[2] % Day]
    <2>1. x[2] \in Int
      BY <1>o DEF TypeOK
    <2>2. x[2] % Day \in Time
      BY <2>1, Division
    <2> QED
      BY <1>o, <2>1, <2>2 DEF ServedBehind, Armed, TypeOK
  <1>1. CASE /\ UNCHANGED <<served, repeated>>
             /\ \A o \in Owner : lastSent'[o] = lastSent[o] \/ lastSent'[o] = now
    <2>1. x[2] <= now'
      BY <1>1, <1>n, <1>o
    <2>2. x[2] <= lastSent'[x[1]]
      BY <1>1, <1>n, <1>o
    <2>3. nextRun'[x[2] % Day] # Never => x[2] < nextRun'[x[2] % Day]
      <3>1. \/ nextRun'[x[2] % Day] = nextRun[x[2] % Day] \/ nextRun'[x[2] % Day] = Never
            \/ nextRun'[x[2] % Day] > now
        BY <1>1, <1>o, NextRunStep
      <3>2. nextRun'[x[2] % Day] \in Int
        BY <1>1, <1>o, NextTyped DEF TypeOK
      <3> QED
        BY <1>1, <1>n, <1>o, <3>1, <3>2
    <2> QED
      BY <1>1, <1>o, <2>1, <2>2, <2>3
  <1>2. ASSUME NEW w \in Worker, Commit(w), work[w].sent # Never
        PROVE  /\ x[1] \in Owner /\ x[2] <= now' /\ x[2] <= lastSent'[x[1]]
               /\ nextRun'[x[2] % Day] # Never => x[2] < nextRun'[x[2] % Day]
    <2>0. TurnsDue(w) /\ TurnsFresh(w)
      OBVIOUS
    <2>c. /\ Taking(w) /\ work[w].owner \in Owner /\ work[w].at <= now
          /\ work[w].at \in Int /\ work[w].sent \in Nat
          /\ UNCHANGED <<now, nextRun>>
          /\ served' = served \cup {<<work[w].owner, work[w].at>>}
          /\ \A o \in Owner : lastSent'[o] >= lastSent[o] /\ lastSent[o] \in Nat /\ lastSent'[o] \in Nat
          /\ lastSent'[work[w].owner] >= work[w].sent
      BY <1>2, <2>0, CommitStep
    <2>1. CASE x \in served
      <3>1. lastSent'[x[1]] >= lastSent[x[1]] /\ lastSent'[x[1]] \in Nat
        BY <1>o, <2>1, <2>c
      <3>2. x[2] <= lastSent'[x[1]]
        BY <1>o, <2>1, <3>1
      <3> QED
        BY <1>o, <2>1, <2>c, <3>2
    <2>2. CASE x = <<work[w].owner, work[w].at>>
      <3>1. x[1] = work[w].owner /\ x[2] = work[w].at
        BY <2>2
      <3>2. work[w].at <= work[w].sent
        BY <1>2, <2>0, <2>c DEF TurnsFresh
      <3>3. Armed(work[w].at % Day) => work[w].at < nextRun[work[w].at % Day]
        BY <2>0, <2>c, TakenBehind
      <3>4. work[w].at <= lastSent'[work[w].owner]
        <4>1. work[w].owner \in Owner /\ \A o \in Owner : lastSent'[o] \in Nat
          BY <2>c
        <4>2. lastSent'[work[w].owner] \in Nat
          BY <4>1
        <4>3. work[w].at \in Int /\ work[w].sent \in Nat
              /\ lastSent'[work[w].owner] >= work[w].sent
          BY <2>c
        <4> QED
          BY <3>2, <4>2, <4>3
      <3> QED
        BY <2>c, <3>1, <3>3, <3>4 DEF Armed
    <2> QED
      BY <2>1, <2>2, <2>c
  <1> QED
    BY <1>1, <1>2, ServedStep

(* The turns of a worker that does not move are as fresh as before. *)
LEMMA FreshStay ==
    ASSUME CInv, NEW w \in Worker, TurnsDue(w), TurnsFresh(w), [Next]_vars,
           work'[w] = work[w], served' = served
    PROVE  TurnsFresh(w)'
  <1> USE DEF CInv
  <1>1. ASSUME w \in Time, work[w].pc # "idle", nextRun'[w] # Never
        PROVE  work[w].at < nextRun'[w]
    <2>1. work[w].at <= now /\ (Armed(w) => work[w].at < nextRun[w])
      BY <1>1 DEF TurnsDue, TurnsFresh
    <2>2. work[w].at \in Int /\ now \in Int /\ nextRun'[w] \in Int
      BY <1>1, NextTyped DEF TypeOK, Work
    <2> QED
      BY <1>1, <2>1, <2>2, NextRunStep DEF Armed
  <1> QED
    BY <1>1 DEF TurnsFresh, Taking, Armed

(* So are those of a worker while another one commits: jobs serve instants of
   different times, and the catch-up works before any job does. *)
LEMMA FreshBeside ==
    ASSUME CInv, Stages, StartsAhead, NEW w \in Worker, NEW v \in Worker, w # v,
           TurnsDue(w), TurnsDue(v), TurnsFresh(w), Commit(v), work[v].sent # Never
    PROVE  TurnsFresh(w)'
  <1> USE DEF CInv
  <1>1. /\ work'[w] = work[w] /\ nextRun' = nextRun
        /\ served' = served \cup {<<work[v].owner, work[v].at>>}
        /\ Taking(v) /\ work[v].pc # "idle"
    BY CommitStep DEF Taking
  <1>2. ASSUME w \in Time, work[w].pc # "idle" PROVE work[w].at # work[v].at
    <2>1. CASE v \in Time
      BY <1>1, <1>2, <2>1 DEF TurnsDue
    <2>2. CASE v = Startup
      BY <1>1, <1>2, <2>2, CatchUpStarts DEF StartsAhead
    <2> QED
      BY <2>1, <2>2 DEF Worker
  <1>3. ASSUME Taking(w) PROVE w \in Time
    <2>1. SUFFICES ASSUME w = Startup PROVE FALSE
      BY DEF Worker
    <2>2. v \in Time
      BY <2>1 DEF Worker
    <2>3. phase = "starting"
      BY <1>3, <2>1, CatchUpStarts DEF Taking
    <2> QED
      BY <1>1, <2>2, <2>3 DEF StartsAhead
  <1>4. Taking(w) => work[w].pc # "idle"
    BY DEF Taking
  <1> QED
    BY <1>1, <1>2, <1>3, <1>4 DEF TurnsFresh, Taking, Armed

(* A worker's own steps take only turns that are fresh. *)
LEMMA FreshServing ==
    ASSUME CInv, ServedBehind, NEW w \in Worker, TurnsDue(w), TurnsFresh(w), Serving(w)
    PROVE  TurnsFresh(w)'
  <1> USE DEF CInv
  <1> DEFINE c == work[w]  d == work'[w]
  <1>0. UNCHANGED <<now, nextRun>> /\ c.pc # "idle"
    BY ServingStep
  <1>w. /\ c \in Work /\ c.todo \subseteq Owner /\ c.at \in Int /\ now \in Nat /\ c.sent \in Nat
        /\ w \in Time => w # Startup
    BY DEF TypeOK, Work, Time
  <1>s. \A v : SetWork(w, v) => d = v
    BY DEF TypeOK
  <1>i. d.pc = "idle" => TurnsFresh(w)'
    BY DEF TurnsFresh, Taking
  <1>1. CASE ReadOwners(w)
    <2>1. CASE SetWork(w, NoWork)
      BY <1>i, <1>s, <2>1 DEF NoWork
    <2>2. CASE SetWork(w, [c EXCEPT !.pc = "turn", !.todo = Due(w)])
      <3>1. d = [c EXCEPT !.pc = "turn", !.todo = Due(w)] /\ c.pc = "owners" /\ served' = served
        BY <1>1, <1>s, <2>2 DEF ReadOwners, history
      <3>2. d.pc = "turn" /\ d.at = c.at /\ d.todo \subseteq Owner
        BY <1>w, <3>1 DEF Work, Due
      <3> QED
        BY <1>0, <3>1, <3>2 DEF TurnsFresh, Taking, Armed
    <2> QED
      BY <1>1, <2>1, <2>2 DEF ReadOwners
  <1>2. CASE Turn(w)
    <2>0. served' = served /\ lastSent' = lastSent
      BY <1>2 DEF Turn, history, database
    <2>1. PICK o \in c.todo :
            LET next == [c EXCEPT !.todo = @ \ {o}, !.owner = o, !.sent = Never] IN
            \/ w # Startup /\ SetWork(w, [next EXCEPT !.pc = "gate"])
            \/ w = Startup /\ \E t \in Time : /\ Missed(o, UpTo(t))
                                             /\ SetWork(w, [next EXCEPT !.pc = "gate", !.at = UpTo(t)])
            \/ w = Startup /\ SetWork(w, next)
      BY <1>2 DEF Turn
    <2> DEFINE next == [c EXCEPT !.todo = @ \ {o}, !.owner = o, !.sent = Never]
    <2>n. /\ next \in Work /\ next.pc = "turn" /\ next.at = c.at /\ next.sent = Never
          /\ next.todo = c.todo \ {o} /\ next.owner = o
      BY <1>2, <1>w DEF Work, Never, Turn
    <2>c. \/ w # Startup /\ d = [next EXCEPT !.pc = "gate"]
          \/ w = Startup /\ \E t \in Time : /\ Missed(o, UpTo(t))
                                           /\ d = [next EXCEPT !.pc = "gate", !.at = UpTo(t)]
          \/ w = Startup /\ d = next
      BY <1>s, <2>1
    <2> HIDE DEF next
    <2>2. CASE w # Startup
      <3>1. d.pc = "gate" /\ d.todo = c.todo \ {o} /\ d.owner = o /\ d.at = c.at /\ d.sent = Never
        BY <2>2, <2>c, <2>n DEF Work
      <3>2. w \in Time /\ c.pc = "turn"
        BY <1>2, <2>2 DEF Worker, Turn
      <3> QED
        BY <1>0, <2>0, <3>1, <3>2 DEF TurnsFresh, Taking, Armed
    <2>3. CASE w = Startup /\ d.pc # "gate"
      <3>1. d.pc = "turn"
        BY <2>3, <2>c, <2>n DEF Work
      <3> QED
        BY <1>w, <2>3, <3>1 DEF TurnsFresh, Taking
    <2>4. CASE w = Startup /\ d.pc = "gate"
      <3>1. PICK t \in Time :
               /\ Missed(o, UpTo(t))
               /\ d.pc = "gate" /\ d.owner = o /\ d.at = UpTo(t) /\ d.sent = Never
        BY <2>4, <2>c, <2>n DEF Work
      <3>2. lastSent[o] < UpTo(t) /\ lastSent[o] \in Nat /\ UpTo(t) \in Int
        BY <1>w, <3>1, Neighbours DEF Missed, TypeOK
      <3>3. <<o, UpTo(t)>> \notin served
        BY <3>2 DEF ServedBehind
      <3> QED
        BY <1>w, <2>0, <2>4, <3>1, <3>3 DEF TurnsFresh, Taking
    <2> QED
      BY <2>2, <2>3, <2>4
  <1>3. CASE Gate(w) \/ Publish(w) \/ Fail(w)
    <2>1. /\ d.at = c.at /\ d.todo = c.todo /\ d.owner = c.owner /\ Taking(w) /\ served' = served
          /\ d.pc \in {"turn", "gate", "post"} /\ c.pc # "owners"
          /\ d.sent = c.sent \/ d.sent = now
      <3>1. CASE Gate(w)
        BY <1>s, <1>w, <3>1 DEF Gate, Work, Taking, history
      <3>2. CASE Publish(w)
        BY <1>s, <1>w, <3>2 DEF Publish, Work, Taking, history
      <3>3. CASE Fail(w)
        BY <1>s, <1>w, <3>3 DEF Fail, Work, Taking, history
      <3> QED
        BY <1>3, <3>1, <3>2, <3>3
    <2>2. d.sent = Never \/ d.sent >= c.at
      BY <1>w, <2>1 DEF TurnsFresh, TurnsDue
    <2> QED
      BY <1>0, <2>1, <2>2 DEF TurnsFresh, Taking, Armed
  <1>4. CASE Commit(w)
    <2>1. d = [c EXCEPT !.pc = "turn"] /\ c.pc = "post"
      BY <1>4, <1>s DEF Commit
    <2>2. d.pc = "turn" /\ d.at = c.at /\ d.todo = c.todo /\ c.owner \notin c.todo
      BY <1>w, <2>1 DEF Work, TurnsDue, Taking
    <2>3. served' \subseteq served \cup {<<c.owner, c.at>>}
      BY <1>4 DEF Commit
    <2> QED
      BY <1>0, <2>1, <2>2, <2>3 DEF TurnsFresh, Taking, Armed
  <1>5. CASE Finish(w)
    BY <1>5, <1>i, <1>s DEF Finish, NoWork
  <1> QED
    BY <1>1, <1>2, <1>3, <1>4, <1>5 DEF Serving

(* A job that fires serves an instant that has not been served. *)
LEMMA FireFresh ==
    ASSUME CInv, RunsTimely, ServedBehind, NEW t \in Time, Fire(t), work'[t] # work[t]
    PROVE  TurnsFresh(t)'
  <1> USE DEF CInv
  <1>1. work'[t] = [NoWork EXCEPT !.pc = "owners", !.at = UpTo(t)] /\ t \in Worker
    BY DEF Fire, TypeOK, Worker
  <1>2. work'[t].pc = "owners" /\ work'[t].at = UpTo(t)
    BY <1>1 DEF NoWork
  <1>3. nextRun'[t] = UpTo(t) + Day /\ served' = served /\ Armed(t) /\ nextRun[t] <= now
    BY DEF Fire, TypeOK, history
  <1>4. /\ UpTo(t) \in Int /\ UpTo(t) % Day = t /\ nextRun[t] \in Int
        /\ UpTo(t) < UpTo(t) + Day
    BY Neighbours DEF TypeOK
  <1>5. nextRun[t] <= UpTo(t)
    BY <1>3, <1>4, Nearest DEF RunsTimely
  <1>6. ASSUME NEW o \in Owner PROVE <<o, UpTo(t)>> \notin served
    <2>1. SUFFICES ASSUME <<o, UpTo(t)>> \in served PROVE FALSE
      OBVIOUS
    <2>2. UpTo(t) < nextRun[t]
      BY <1>3, <1>4, <2>1 DEF ServedBehind
    <2> QED
      BY <1>4, <1>5, <2>2
  <1> QED
    BY <1>2, <1>3, <1>4, <1>6 DEF TurnsFresh, Taking, Armed

(* Every step keeps the turns fresh. *)
LEMMA FreshKept ==
    ASSUME CInv, Stages, RunsTimely, ServedBehind, StartsAhead, [Next]_vars,
           \A v \in Worker : TurnsDue(v) /\ TurnsFresh(v), NEW w \in Worker
    PROVE  TurnsFresh(w)'
  <1> USE DEF CInv
  <1>0. TurnsDue(w) /\ TurnsFresh(w) /\ (w \in Time => w # Startup)
    BY DEF Time
  <1>i. work'[w].pc = "idle" => TurnsFresh(w)'
    BY DEF TurnsFresh, Taking
  <1>1. ASSUME NEW v \in Worker, Commit(v), work[v].sent # Never PROVE TurnsFresh(w)'
    <2>1. CASE v = w
      BY <1>0, <1>1, <2>1, FreshServing DEF Serving
    <2>2. CASE v # w
      BY <1>0, <1>1, <2>2, FreshBeside
    <2> QED
      BY <2>1, <2>2
  <1>2. ASSUME served' = served PROVE TurnsFresh(w)'
    <2>1. CASE work'[w] = work[w]
      BY <1>0, <1>2, <2>1, FreshStay
    <2>2. CASE work'[w] # work[w]
      <3>1. CASE UNCHANGED vars \/ Tick \/ Over \/ Start
        BY <2>2, <3>1 DEF vars, Tick, Over, Start, memory
      <3>2. CASE Die
        BY <1>i, <3>2 DEF Die, NoWork
      <3>3. ASSUME NEW e \in Editor, NEW o \in Owner, NEW S \in SUBSET Time, Save(e, o, S)
            PROVE  FALSE
        BY <2>2, <3>3 DEF Save
      <3>4. ASSUME NEW o \in Owner, SetPaused(o) \/ ToggleWeekends(o) \/ SendNow(o)
            PROVE  FALSE
        BY <2>2, <3>4 DEF SetPaused, ToggleWeekends, SendNow, memory
      <3>5. ASSUME NEW r \in Reloader, Reloading(r) \/ (ReloadFails(r) /\ ~Die)
            PROVE  TurnsFresh(w)'
        <4>1. CASE ~Die
          <5>1. w = Startup /\ work'[w] = [NoWork EXCEPT !.pc = "owners"]
            BY <2>2, <3>5, <4>1, ReloadStep
          <5>2. work'[w].pc = "owners" /\ w \notin Time
            BY <5>1 DEF NoWork, Time
          <5> QED
            BY <5>2 DEF TurnsFresh, Taking
        <4> QED
          BY <3>2, <4>1
      <3>6. ASSUME NEW t \in Time, Fire(t) PROVE TurnsFresh(w)'
        <4>1. w = t
          BY <2>2, <3>6 DEF Fire, TypeOK
        <4> QED
          BY <2>2, <3>6, <4>1, FireFresh
      <3>7. ASSUME NEW v \in Worker, Serving(v) PROVE TurnsFresh(w)'
        <4>1. v = w
          BY <2>2, <3>7, ServingStep
        <4> QED
          BY <1>0, <3>7, <4>1, FreshServing
      <3> QED
        BY <3>1, <3>2, <3>3, <3>4, <3>5, <3>6, <3>7 DEF Next, Crash
    <2> QED
      BY <2>1, <2>2
  <1> QED
    BY <1>1, <1>2, ServedStep

(* Nothing fresh has been served, so that nothing is served twice. *)
LEMMA OnceKept ==
    ASSUME CInv, ServedOnce, [Next]_vars, \A w \in Worker : TurnsDue(w) /\ TurnsFresh(w)
    PROVE  ServedOnce'
  <1>1. ASSUME NEW w \in Worker, Commit(w), work[w].sent # Never PROVE repeated' = {}
    <2>1. TurnsDue(w) /\ TurnsFresh(w)
      OBVIOUS
    <2>2. /\ repeated' = repeated \cup (served \cap {<<work[w].owner, work[w].at>>})
          /\ Taking(w)
      BY <1>1, <2>1, CommitStep
    <2> QED
      BY <2>1, <2>2 DEF TurnsFresh, ServedOnce
  <1> QED
    BY <1>1, ServedStep DEF ServedOnce

(* What holds of the schedule, the jobs, the turns and, where start-up is
   quick, of what has been served, is inductive: the argument behind the
   properties of the schedule and its reloads below. *)
THEOREM SlotsInductive == Spec => []SlotInv
  <1>1. Init => SlotInv
    <2> SUFFICES ASSUME Init PROVE SlotInv
      OBVIOUS
    <2>1. CInv
      BY InitTyped DEF Init, CInv, Asleep, Covered, NoReload, NoWork, Reloader, Worker
    <2>2. /\ \A w \in Worker : work[w].pc = "idle"
          /\ \A r \in Reloader : task[r].pc = "idle"
          /\ \A t \in Time : nextRun[t] = Never
          /\ phase = "down" /\ served = {} /\ repeated = {}
      BY DEF Init, NoWork, NoReload, Disarmed
    <2>3. DueInv
      BY <2>2 DEF DueInv, Stages, RunsTimely, TurnsDue, Taking, Armed, Reloader, Worker
    <2>4. OnceInv
      BY <2>2 DEF OnceInv, ServedOnce, ServedBehind, StartsAhead, TurnsFresh, Taking
    <2> QED
      BY <2>1, <2>3, <2>4 DEF SlotInv
  <1>2. SlotInv /\ [Next]_vars => SlotInv'
    <2> SUFFICES ASSUME SlotInv, [Next]_vars PROVE SlotInv'
      OBVIOUS
    <2>1. /\ CInv /\ Stages /\ RunsTimely
          /\ \A w \in Worker : TurnsDue(w)
      BY DEF SlotInv, DueInv
    <2>2. CInv'
      BY <2>1, NextTyped, NextCovers, NextAsleep DEF CInv
    <2>3. DueInv'
      BY <2>1, StagesKept, TimelyKept, DueKept DEF DueInv
    <2>4. ASSUME ~SlowStart PROVE OnceInv'
      <3>1. /\ ServedOnce /\ ServedBehind /\ StartsAhead
            /\ \A w \in Worker : TurnsDue(w) /\ TurnsFresh(w)
        BY <2>1, <2>4 DEF SlotInv, OnceInv
      <3>2. ServedOnce' /\ StartsAhead' /\ ServedBehind'
        BY <2>1, <2>4, <3>1, OnceKept, AheadKept, BehindKept
      <3>3. \A w \in Worker : TurnsFresh(w)'
        BY <2>1, <3>1, FreshKept
      <3> QED
        BY <3>2, <3>3 DEF OnceInv
    <2> QED
      BY <2>2, <2>3, <2>4 DEF SlotInv
  <1> QED
    BY <1>1, <1>2, PTL DEF Spec

(* Once no reload is under way and none has failed, every time of every owner
   has a job armed for its next instant at the latest, however edits and their
   reloads overlapped (QuizScheduler.reload). *)
THEOREM JobsAreArmed == Spec => []JobsArmed
  <1>1. SlotInv => JobsArmed
    <2> SUFFICES ASSUME SlotInv, Settled, ~reloadFailed, NEW t \in Enabled
                 PROVE  Armed(t) /\ nextRun[t] <= After(t)
      BY DEF JobsArmed
    <2>1. Armed(t)
      BY DEF SlotInv, CInv, Covered, Settled, Pending
    <2>2. t \in Time
      BY DEF SlotInv, CInv, TypeOK, Enabled
    <2> QED
      BY <2>1, <2>2 DEF SlotInv, DueInv, RunsTimely
  <1> QED
    BY <1>1, SlotsInductive, PTL

(* No owner is served for a time that had left the schedule before its instant
   came, whatever stale jobs are in memory (run_slot, owners_due_at). *)
THEOREM NoZombiePosts == Spec => []NoZombiePost
  <1>1. SlotInv => NoZombiePost
    BY DEF SlotInv, DueInv, TurnsDue, Taking, WasDue, NoZombiePost
  <1> QED
    BY <1>1, SlotsInductive, PTL

(* Where the process starts within an instant no two scheduled batches of an
   owner are committed for one slot, over crashes, restarts, late wake-ups and
   catch-ups (_catch_up_owner's check of the last delivery). *)
THEOREM SlotsServedOnce == ASSUME ~SlowStart PROVE Spec => []ServedOnce
  <1>1. SlotInv => ServedOnce
    BY DEF SlotInv, OnceInv
  <1> QED
    BY <1>1, SlotsInductive, PTL

(* Where edits come one after another, so do the reloads: the one of start-up
   has ended when an edit can be made. *)
LEMMA OneReload ==
    ASSUME CInv, Stages, \A e, f \in Editor : e = f,
           NEW r \in Reloader, NEW s \in Reloader,
           task[r].pc # "idle", task[s].pc # "idle"
    PROVE  r = s
  <1> USE DEF CInv
  <1>1. r \in Editor => phase = "polling" /\ task[Startup].pc = "idle"
    BY DEF Stages, Asleep, TypeOK
  <1>2. s \in Editor => phase = "polling" /\ task[Startup].pc = "idle"
    BY DEF Stages, Asleep, TypeOK
  <1> QED
    BY <1>1, <1>2 DEF Reloader

(* Then a reload finds an empty job store and adds what the schedule says. *)
LEMMA StaleKept ==
    ASSUME CInv, Stages, NoneStale, \A e, f \in Editor : e = f, [Next]_vars
    PROVE  NoneStale'
  <1> USE DEF CInv
  <1>0. Startup \in Reloader /\ \A e \in Editor : e \in Reloader
    BY DEF Reloader
  <1>a. CASE UNCHANGED <<slots, nextRun, task>>
    BY <1>a DEF NoneStale, Armed, Enabled
  <1>b. CASE Die
    BY <1>b DEF Die, NoneStale, Armed, Disarmed, NoReload
  <1>c. ASSUME NEW x \in Reloader, task'[x].pc = "remove",
               \A r \in Reloader : r # x => task'[r] = task[r] /\ task[r].pc = "idle"
        PROVE  NoneStale'
    BY <1>c DEF NoneStale
  <1>1. CASE UNCHANGED vars \/ Tick \/ Over
    BY <1>1, <1>a DEF vars, Tick, Over, memory, database
  <1>2. CASE Crash
    BY <1>2, <1>b DEF Crash
  <1>3. CASE Start
    <2>1. /\ \A r \in Reloader : task[r].pc = "idle"
          /\ task'[Startup].pc = "remove"
          /\ \A r \in Reloader : r # Startup => task'[r] = task[r]
      BY <1>0, <1>3 DEF Start, Asleep, TypeOK, NoReload
    <2> QED
      BY <1>0, <2>1, <1>c
  <1>4. ASSUME NEW e \in Editor, NEW o \in Owner, NEW S \in SUBSET Time, Save(e, o, S)
        PROVE  NoneStale'
    <2>1. /\ task[e].pc = "idle" /\ phase = "polling"
          /\ task' = [task EXCEPT ![e] = [NoReload EXCEPT !.pc = "remove"]]
      BY <1>4 DEF Save, Press
    <2>2. \A r \in Reloader : task[r].pc = "idle"
      BY <2>1 DEF Stages, Reloader
    <2>3. task'[e].pc = "remove" /\ \A r \in Reloader : r # e => task'[r] = task[r]
      BY <1>0, <2>1 DEF TypeOK, NoReload
    <2> QED
      BY <1>0, <2>2, <2>3, <1>c
  <1>5. ASSUME NEW o \in Owner, SetPaused(o) \/ ToggleWeekends(o) \/ SendNow(o)
        PROVE  NoneStale'
    BY <1>5, <1>a DEF SetPaused, ToggleWeekends, SendNow, Press, memory
  <1>6. ASSUME NEW r \in Reloader, Reloading(r) \/ ReloadFails(r) PROVE NoneStale'
    <2>1. ASSUME task[r].pc # "idle"
          PROVE  \A s \in Reloader : s # r => task[s].pc = "idle"
      BY <2>1, OneReload
    <2>2. CASE ReloadRemove(r)
      <3>1. /\ task[r].pc = "remove" /\ nextRun' = Disarmed
            /\ task'[r].pc = "read" /\ \A s \in Reloader : s # r => task'[s] = task[s]
        BY <2>2 DEF ReloadRemove, TypeOK
      <3> QED
        BY <2>1, <3>1 DEF NoneStale
    <2>3. CASE ReloadRead(r)
      <3>1. /\ task[r].pc = "read" /\ UNCHANGED <<slots, nextRun>>
            /\ task'[r].pc = "add" /\ task'[r].times = Enabled
            /\ \A s \in Reloader : s # r => task'[s] = task[s]
        BY <2>3 DEF ReloadRead, TypeOK, database
      <3> QED
        BY <2>1, <3>1 DEF NoneStale, Enabled
    <2>4. CASE ReloadAdd(r)
      <3>1. /\ task[r].pc = "add" /\ UNCHANGED slots
            /\ \A t \in Time : nextRun'[t] = IF t \in task[r].times THEN After(t) ELSE nextRun[t]
            /\ task'[r].pc = "idle" /\ \A s \in Reloader : s # r => task'[s] = task[s]
        BY <2>4 DEF ReloadAdd, TypeOK, NoReload, database
      <3>2. nextRun = Disarmed /\ task[r].times = Enabled
        BY <3>1 DEF NoneStale
      <3>3. \A t \in Time : Armed(t)' => t \in Enabled'
        BY <3>1, <3>2 DEF Armed, Disarmed, Enabled
      <3> QED
        BY <2>1, <3>1, <3>3 DEF NoneStale
    <2>5. CASE ReloadFails(r) /\ ~Die
      <3>1. /\ task[r].pc = "read" /\ UNCHANGED <<slots, nextRun>>
            /\ task'[r].pc = "idle" /\ \A s \in Reloader : s # r => task'[s] = task[s]
        BY <2>5 DEF ReloadFails, TypeOK, NoReload, database
      <3>2. nextRun = Disarmed
        BY <3>1 DEF NoneStale
      <3> QED
        BY <2>1, <3>1, <3>2 DEF NoneStale, Armed, Disarmed
    <2> QED
      BY <1>6, <1>b, <2>2, <2>3, <2>4, <2>5 DEF Reloading
  <1>7. ASSUME NEW t \in Time, Fire(t) PROVE NoneStale'
    <2>1. /\ Armed(t) /\ UNCHANGED <<slots, task>>
          /\ \A u \in Time : u # t => nextRun'[u] = nextRun[u]
      BY <1>7 DEF Fire, TypeOK, database
    <2>2. nextRun # Disarmed
      BY <2>1 DEF Armed, Disarmed
    <2>3. \A u \in Time : Armed(u)' => Armed(u)
      BY <2>1 DEF Armed
    <2> QED
      BY <2>1, <2>2, <2>3 DEF NoneStale, Enabled
  <1>8. ASSUME NEW w \in Worker, Serving(w) PROVE NoneStale'
    BY <1>8, <1>a, ServingStep
  <1> QED
    BY <1>1, <1>2, <1>3, <1>4, <1>5, <1>6, <1>7, <1>8 DEF Next

(* "A deleted time cannot linger in memory": where edits do not overlap, only
   the times of some owner have a job once no reload is under way, whatever
   fails, crashes or restarts (QuizScheduler.reload). *)
THEOREM DeletedTimesGo ==
    ASSUME \A e, f \in Editor : e = f PROVE Spec => []NothingLingers
  <1> DEFINE Inv == SlotInv /\ NoneStale
  <1>1. Init => NoneStale
    BY DEF Init, NoneStale, Armed, Disarmed, NoReload
  <1>2. Inv /\ [Next]_vars => NoneStale'
    BY StaleKept DEF SlotInv, DueInv
  <1>3. NoneStale => NothingLingers
    BY DEF NoneStale, NothingLingers, Settled
  <1> QED
    BY <1>1, <1>2, <1>3, SlotsInductive, PTL DEF Spec
================================================================================
