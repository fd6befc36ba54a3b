----------------------------- MODULE QuizScheduler -----------------------------
(***************************************************************************)
(* When batches start: the cron jobs kept in memory, the schedule they are *)
(* rebuilt from, and the catch-up after a restart.                         *)
(*                                                                         *)
(* One process, whose tasks interleave at every await.  APScheduler holds  *)
(* one job per distinct posting time; when it fires, run_slot reads the    *)
(* owners due and serves them one after another.  Every edit of a schedule *)
(* commits and then rebuilds all jobs.  At start-up the jobs are rebuilt   *)
(* and then each owner's last slot is caught up, while the jobs are        *)
(* already live; updates are polled only after that.                       *)
(*                                                                         *)
(* The clock counts instants, Day of them to a day; a slot is a remainder. *)
(* Between two values of now everything due at the first one is past due.  *)
(* What a batch does is QuizPosting; here it publishes and ends.           *)
(***************************************************************************)
EXTENDS Integers

CONSTANTS
    Owner,          \* Telegram ids, served in ascending order
    Editor,         \* handlers that may be saving a schedule at the same time
    Startup,        \* the start-up task
    Day,            \* instants per day
    WeekendDay,     \* numbers of the days that are Saturdays or Sundays
    Grace,          \* misfire_grace, in instants
    SlowStart,      \* may the clock pass an instant while the process starts?
    Horizon,        \* bound: the last instant
    MaxPresses,     \* bound: buttons pressed (schedules saved, settings, "Send now")
    MaxStarts       \* bound: starts of the process

ASSUME OwnerAssumption == Owner \subseteq Nat \ {0}
ASSUME DayAssumption == Day \in Nat \ {0}
ASSUME ClockAssumption == Grace \in Nat /\ Horizon \in Nat /\ WeekendDay \subseteq Nat
ASSUME StartAssumption == SlowStart \in BOOLEAN
ASSUME TaskAssumption == Startup \notin Editor /\ Startup \notin 0..(Day - 1)
ASSUME BoundsAssumption == MaxPresses \in Nat /\ MaxStarts \in Nat

Time == 0..(Day - 1)
Reloader == Editor \cup {Startup}
Worker == Time \cup {Startup}
Never == 0          \* before every instant: no run armed, nothing sent

VARIABLES
    now,            \* the last instant that has passed
    slots,          \* committed: enabled times of each owner
    paused,         \* committed: owners whose posting is paused
    weekdaysOnly,   \* committed: owners that skip weekends
    lastSent,       \* committed: instant of each owner's latest SENT delivery
    phase,          \* of the process: down, starting or polling
    nextRun,        \* APScheduler: next_run_time of each time's job, or Never
    task,           \* reload() calls under way
    work,           \* run_slot and catch_up_missed under way
    reloadFailed,   \* has a reload failed since the process started?
    removed,        \* history: when each time last left an owner's schedule
    served,         \* history: <<owner, instant>> of committed scheduled batches
    repeated,       \* history: those committed more than once
    presses, lives  \* counted for the bounds

database == <<slots, paused, weekdaysOnly, lastSent>>
memory == <<nextRun, task, work>>
history == <<removed, served, repeated>>
vars == <<now, database, phase, memory, reloadFailed, history, presses, lives>>

(* A reload: the jobs are removed, the times read, the new jobs added. *)
Reload == [pc : {"idle", "remove", "read", "add"}, times : SUBSET Time]
NoReload == [pc |-> "idle", times |-> {}]

(* A job or the catch-up: the instant it serves, the owners still to come,
   the one being served and when its batch last reached a channel. *)
Work == [pc : {"idle", "owners", "turn", "gate", "post"}, at : Int,
         todo : SUBSET Owner, owner : Owner \cup {0}, sent : Nat]
NoWork == [pc |-> "idle", at |-> Never, todo |-> {}, owner |-> 0, sent |-> Never]

Enabled == UNION {slots[o] : o \in Owner}
Weekend == now \div Day \in WeekendDay
Gated(o) == o \in paused \/ (o \in weekdaysOnly /\ Weekend)

(* The first instant of time t after now, and the last one up to now. *)
After(t) == now + 1 + ((t - now - 1) % Day)
UpTo(t) == now - ((now - t) % Day)

Armed(t) == nextRun[t] # Never
Disarmed == [t \in Time |-> Never]

SetTask(r, v) == task' = [task EXCEPT ![r] = v]
SetWork(w, v) == work' = [work EXCEPT ![w] = v]

--------------------------------------------------------------------------------
Init ==
    /\ now = Day
    /\ slots \in [Owner -> SUBSET Time]
    /\ paused = {} /\ weekdaysOnly \in SUBSET Owner
    /\ lastSent = [o \in Owner |-> Never]
    /\ phase = "down" /\ nextRun = Disarmed
    /\ task = [r \in Reloader |-> NoReload]
    /\ work = [w \in Worker |-> NoWork]
    /\ reloadFailed = FALSE
    /\ removed = [o \in Owner |-> [t \in Time |-> Never]]
    /\ served = {} /\ repeated = {}
    /\ presses = 0 /\ lives = 0

Tick ==
    /\ now < Horizon
    /\ phase = "starting" => SlowStart
    /\ now' = now + 1
    /\ UNCHANGED <<database, phase, memory, reloadFailed, history, presses, lives>>

(* The process starts: an empty in-memory job store, then scheduler.start(). *)
Start ==
    /\ phase = "down" /\ lives < MaxStarts
    /\ phase' = "starting" /\ lives' = lives + 1 /\ reloadFailed' = FALSE
    /\ SetTask(Startup, [NoReload EXCEPT !.pc = "remove"])
    /\ UNCHANGED <<now, database, nextRun, work, history, presses>>

(* The process dies or is stopped: shutdown() cancels running jobs. *)
Die ==
    /\ phase' = "down" /\ nextRun' = Disarmed
    /\ task' = [r \in Reloader |-> NoReload]
    /\ work' = [w \in Worker |-> NoWork]
    /\ UNCHANGED <<now, database, reloadFailed, history, presses, lives>>

Crash == phase # "down" /\ Die

(* A button is pressed; updates are polled only after start-up. *)
Press ==
    /\ phase = "polling" /\ presses < MaxPresses
    /\ presses' = presses + 1

(* An edit replaces the owner's slots and commits ... *)
Save(e, o, S) ==
    /\ task[e].pc = "idle" /\ Press
    /\ slots' = [slots EXCEPT ![o] = S]
    /\ removed' = [removed EXCEPT ![o] =
                     [t \in Time |-> IF t \in slots[o] \ S THEN now ELSE removed[o][t]]]
    /\ SetTask(e, [NoReload EXCEPT !.pc = "remove"])
    /\ UNCHANGED <<now, paused, weekdaysOnly, lastSent, phase, nextRun, work,
                   reloadFailed, served, repeated, lives>>

(* Mutant: the old jobs stay. *)
ReloadRemove_Not(r) ==
    /\ task[r].pc = "remove"
    /\ SetTask(r, [task[r] EXCEPT !.pc = "read"])
    /\ UNCHANGED <<now, database, phase, nextRun, work, reloadFailed, history, presses, lives>>

(* ... and reloads.  Up to the read nothing is awaited, ... *)
ReloadRemove(r) ==
    /\ task[r].pc = "remove"
    /\ nextRun' = Disarmed
    /\ SetTask(r, [task[r] EXCEPT !.pc = "read"])
    /\ UNCHANGED <<now, database, phase, work, reloadFailed, history, presses, lives>>

(* ... the read is one statement ... *)
ReloadRead(r) ==
    /\ task[r].pc = "read"
    /\ SetTask(r, [pc |-> "add", times |-> Enabled])
    /\ UNCHANGED <<now, database, phase, nextRun, work, reloadFailed, history, presses, lives>>

(* ... which may fail: the handler's error is logged and the process goes on
   without jobs; at start-up the process exits. *)
ReloadFails(r) ==
    /\ task[r].pc = "read"
    /\ \/ r = Startup /\ Die
       \/ /\ r # Startup
          /\ SetTask(r, NoReload)
          /\ reloadFailed' = TRUE
          /\ UNCHANGED <<now, database, phase, nextRun, work, history, presses, lives>>

(* Mutant: a reload also removes, at the end, what it did not read. *)
ReloadAdd_Replaces(r) ==
    /\ task[r].pc = "add"
    /\ nextRun' = [t \in Time |-> IF t \in task[r].times THEN After(t) ELSE Never]
    /\ SetTask(r, NoReload)
    /\ IF r = Startup
       THEN SetWork(Startup, [NoWork EXCEPT !.pc = "owners"])
       ELSE UNCHANGED work
    /\ UNCHANGED <<now, database, phase, reloadFailed, history, presses, lives>>

(* ... and each time read gets a job whose next run is computed from now. *)
ReloadAdd(r) ==
    /\ task[r].pc = "add"
    /\ nextRun' = [t \in Time |-> IF t \in task[r].times THEN After(t) ELSE nextRun[t]]
    /\ SetTask(r, NoReload)
    /\ IF r = Startup
       THEN SetWork(Startup, [NoWork EXCEPT !.pc = "owners"])
       ELSE UNCHANGED work
    /\ UNCHANGED <<now, database, phase, reloadFailed, history, presses, lives>>

(* Pause and resume are written at once; the weekend switch with its update. *)
SetPaused(o) ==
    /\ Press
    /\ paused' \in {paused \cup {o}, paused \ {o}}
    /\ UNCHANGED <<now, slots, weekdaysOnly, lastSent, phase, memory, reloadFailed,
                   history, lives>>

ToggleWeekends(o) ==
    /\ Press
    /\ weekdaysOnly' = IF o \in weekdaysOnly THEN weekdaysOnly \ {o} ELSE weekdaysOnly \cup {o}
    /\ UNCHANGED <<now, slots, paused, lastSent, phase, memory, reloadFailed,
                   history, lives>>

(* "Send now" counts as a delivery, whatever the gates say. *)
SendNow(o) ==
    /\ Press
    /\ lastSent' = [lastSent EXCEPT ![o] = now]
    /\ UNCHANGED <<now, slots, paused, weekdaysOnly, phase, memory, reloadFailed,
                   history, lives>>

(* Mutant: the next run is computed from the next day. *)
Fire_SkipsDay(t) ==
    /\ Armed(t) /\ nextRun[t] <= now
    /\ nextRun' = [nextRun EXCEPT ![t] = UpTo(t) + 2 * Day]
    /\ IF work[t].pc = "idle" /\ now - UpTo(t) <= Grace
       THEN SetWork(t, [NoWork EXCEPT !.pc = "owners", !.at = UpTo(t)])
       ELSE UNCHANGED work
    /\ UNCHANGED <<now, database, phase, task, reloadFailed, history, presses, lives>>

(* APScheduler wakes up for a job that is due.  Several missed runs coalesce
   into the last; it is dropped when the job is still running (max_instances)
   or when it is too late (misfire_grace_time). *)
Fire(t) ==
    /\ Armed(t) /\ nextRun[t] <= now
    /\ nextRun' = [nextRun EXCEPT ![t] = UpTo(t) + Day]
    /\ IF work[t].pc = "idle" /\ now - UpTo(t) <= Grace
       THEN SetWork(t, [NoWork EXCEPT !.pc = "owners", !.at = UpTo(t)])
       ELSE UNCHANGED work
    /\ UNCHANGED <<now, database, phase, task, reloadFailed, history, presses, lives>>

(* owners_due_at for a job, distinct_owners for the catch-up. *)
Due(w) == {o \in Owner : IF w = Startup THEN slots[o] # {} ELSE w \in slots[o]}

(* Mutant: a job serves every owner that has a schedule. *)
ReadOwners_All(w) ==
    /\ work[w].pc = "owners"
    /\ SetWork(w, [work[w] EXCEPT !.pc = "turn", !.todo = {o \in Owner : slots[o] # {}}])
    /\ UNCHANGED <<now, database, phase, nextRun, task, reloadFailed, history, presses, lives>>

(* A job that cannot read its owners ends; start-up then fails altogether,
   which is Crash. *)
ReadOwners(w) ==
    /\ work[w].pc = "owners"
    /\ \/ SetWork(w, [work[w] EXCEPT !.pc = "turn", !.todo = Due(w)])
       \/ w # Startup /\ SetWork(w, NoWork)
    /\ UNCHANGED <<now, database, phase, nextRun, task, reloadFailed, history, presses, lives>>

(* Mutant: the check does not look at what was sent. *)
Missed_Blind(o, i) ==
    /\ o \notin paused
    /\ i \in {UpTo(t) : t \in slots[o]} /\ \A t \in slots[o] : UpTo(t) <= i
    /\ now - i <= Grace

(* _catch_up_owner's check: i is the latest slot of o, it is recent and
   nothing was sent at or after it. *)
Missed(o, i) ==
    /\ o \notin paused
    /\ i \in {UpTo(t) : t \in slots[o]} /\ \A t \in slots[o] : UpTo(t) <= i
    /\ now - i <= Grace
    /\ lastSent[o] < i

(* The next owner's turn. *)
Turn(w) ==
    /\ work[w].pc = "turn"
    /\ \E o \in work[w].todo :
         LET next == [work[w] EXCEPT !.todo = @ \ {o}, !.owner = o, !.sent = Never] IN
         /\ \A p \in work[w].todo : o <= p
         /\ \/ /\ w # Startup
               /\ SetWork(w, [next EXCEPT !.pc = "gate"])
            \/ /\ w = Startup
               /\ \E t \in Time : /\ Missed(o, UpTo(t))
                                 /\ SetWork(w, [next EXCEPT !.pc = "gate", !.at = UpTo(t)])
            \/ /\ w = Startup /\ ~\E t \in Time : Missed(o, UpTo(t))
               /\ SetWork(w, next)
    /\ UNCHANGED <<now, database, phase, nextRun, task, reloadFailed, history, presses, lives>>

(* run_scheduled_post: the pause and weekend gates, read as they are now. *)
Gate(w) ==
    /\ work[w].pc = "gate"
    /\ SetWork(w, [work[w] EXCEPT !.pc = IF Gated(work[w].owner) THEN "turn" ELSE "post"])
    /\ UNCHANGED <<now, database, phase, nextRun, task, reloadFailed, history, presses, lives>>

(* A poll of the batch reaches a channel. *)
Publish(w) ==
    /\ work[w].pc = "post" /\ work[w].sent # now
    /\ SetWork(w, [work[w] EXCEPT !.sent = now])
    /\ UNCHANGED <<now, database, phase, nextRun, task, reloadFailed, history, presses, lives>>

(* The batch is committed. *)
Commit(w) ==
    LET o == work[w].owner  occasion == <<o, work[w].at>> IN
    /\ work[w].pc = "post"
    /\ SetWork(w, [work[w] EXCEPT !.pc = "turn"])
    /\ IF work[w].sent = Never
       THEN UNCHANGED <<lastSent, served, repeated>>
       ELSE /\ lastSent' = [lastSent EXCEPT ![o] = IF work[w].sent > @ THEN work[w].sent ELSE @]
            /\ served' = served \cup {occasion}
            /\ repeated' = repeated \cup (served \cap {occasion})
    /\ UNCHANGED <<now, slots, paused, weekdaysOnly, phase, nextRun, task, reloadFailed,
                   removed, presses, lives>>

(* Mutant: an owner's error ends the job. *)
Fail_Spreads(w) ==
    /\ work[w].pc = "post"
    /\ SetWork(w, IF w = Startup THEN [work[w] EXCEPT !.pc = "turn"] ELSE NoWork)
    /\ UNCHANGED <<now, database, phase, nextRun, task, reloadFailed, history, presses, lives>>

(* The batch raised and was rolled back; the error stays with its owner (the
   event that reports it is assumed to be written). *)
Fail(w) ==
    /\ work[w].pc = "post"
    /\ SetWork(w, [work[w] EXCEPT !.pc = "turn"])
    /\ UNCHANGED <<now, database, phase, nextRun, task, reloadFailed, history, presses, lives>>

(* The last owner has been served; after the catch-up, polling begins. *)
Finish(w) ==
    /\ work[w].pc = "turn" /\ work[w].todo = {}
    /\ SetWork(w, NoWork)
    /\ phase' = IF w = Startup THEN "polling" ELSE phase
    /\ UNCHANGED <<now, database, nextRun, task, reloadFailed, history, presses, lives>>

(* The end of the bounded run. *)
Over == now = Horizon /\ UNCHANGED vars

Reloading(r) == ReloadRemove(r) \/ ReloadRead(r) \/ ReloadAdd(r)

Serving(w) ==
    ReadOwners(w) \/ Turn(w) \/ Gate(w) \/ Publish(w) \/ Commit(w) \/ Fail(w) \/ Finish(w)

Next ==
    \/ Tick \/ Start \/ Crash \/ Over
    \/ \E e \in Editor, o \in Owner, S \in (SUBSET Time) \ {{}} : Save(e, o, S)
    \/ \E r \in Reloader : Reloading(r) \/ ReloadFails(r)
    \/ \E o \in Owner : SetPaused(o) \/ ToggleWeekends(o) \/ SendNow(o)
    \/ \E t \in Time : Fire(t)
    \/ \E w \in Worker : Serving(w)

Spec == Init /\ [][Next]_vars

(* Tasks that can run do: the event loop is fair to them, database calls end,
   and a batch's Telegram calls are bounded by the client's timeout. *)
Fairness ==
    /\ \A r \in Reloader : WF_vars(Reloading(r))
    /\ \A t \in Time : WF_vars(Fire(t))
    /\ \A w \in Worker : WF_vars(ReadOwners(w) \/ Turn(w) \/ Gate(w) \/ Commit(w) \/ Fail(w) \/ Finish(w))

FairSpec == Spec /\ Fairness

--------------------------------------------------------------------------------
TypeOK ==
    /\ now \in Nat /\ now >= Day
    /\ slots \in [Owner -> SUBSET Time]
    /\ paused \in SUBSET Owner /\ weekdaysOnly \in SUBSET Owner
    /\ lastSent \in [Owner -> Nat]
    /\ phase \in {"down", "starting", "polling"}
    /\ nextRun \in [Time -> Int]
    /\ task \in [Reloader -> Reload]
    /\ work \in [Worker -> Work]
    /\ reloadFailed \in BOOLEAN
    /\ removed \in [Owner -> [Time -> Nat]]
    /\ served \in SUBSET ((Owner \cup {0}) \X Int) /\ repeated \in SUBSET served
    /\ presses \in Nat /\ lives \in Nat

Settled == phase = "polling" /\ \A r \in Reloader : task[r].pc = "idle"

(* Once no reload is under way every time of every owner has a job armed for
   its next instant at the latest, however edits and their reloads overlapped,
   provided none of them failed. *)
JobsArmed ==
    Settled /\ ~reloadFailed =>
        \A t \in Enabled : Armed(t) /\ nextRun[t] <= After(t)

(* "A deleted time cannot linger in memory": once no reload is under way only
   the times of some owner have a job. *)
NothingLingers ==
    Settled => \A t \in Time : Armed(t) => t \in Enabled

(* A slot is "fired once": over crashes, restarts, late wake-ups and catch-ups
   no two scheduled batches of an owner are committed for one instant. *)
ServedOnce == repeated = {}

(* No owner is served for a time that had left the schedule before the instant
   came, whatever stale jobs are in memory. *)
NoZombiePost ==
    \A w \in Worker : work[w].pc = "post" =>
        LET o == work[w].owner  i == work[w].at IN
        i % Day \in slots[o] \/ removed[o][i % Day] >= i

(* Every owner a job has read gets a turn, whatever happens to the batches of
   the owners before, unless the process goes down. *)
EveryOwnerServed ==
    \A w \in Worker, o \in Owner :
        o \in work[w].todo ~> work[w].owner = o \/ phase = "down"

--------------------------------------------------------------------------------
(* Why jobs cover the schedule: for each enabled time that has no job, some
   reload under way has yet to read the times, or has read this one. *)
Pending(t) ==
    \E r \in Reloader : task[r].pc \in {"remove", "read"} \/ (task[r].pc = "add" /\ t \in task[r].times)

Covered ==
    phase # "down" /\ ~reloadFailed => \A t \in Enabled : Armed(t) \/ Pending(t)

(* A process that is down has nothing in memory. *)
Asleep ==
    phase = "down" => nextRun = Disarmed
                      /\ (\A r \in Reloader : task[r].pc = "idle")
                      /\ \A w \in Worker : work[w].pc = "idle"

CInv == TypeOK /\ Asleep /\ Covered

(* Nothing is edited while the process starts, and the catch-up has its jobs
   behind it and polling before it. *)
Stages ==
    /\ phase = "starting" => \A e \in Editor : task[e].pc = "idle"
    /\ phase = "polling" => task[Startup].pc = "idle" /\ work[Startup].pc = "idle"
    /\ work[Startup].pc # "idle" => task[Startup].pc = "idle"

(* A job's next run is an instant of its time, and not later than the next. *)
RunsTimely ==
    \A t \in Time : Armed(t) => nextRun[t] % Day = t /\ nextRun[t] <= After(t)

Taking(w) == work[w].pc \in {"gate", "post"}

(* A slot that was the owner's when it came, also if it no longer is. *)
WasDue(o, i) == i % Day \in slots[o] \/ removed[o][i % Day] >= i

(* Whoever is served, or about to be by a job, had the slot when it came. *)
TurnsDue(w) ==
    /\ w \in Time /\ work[w].pc # "idle" =>
          /\ work[w].at <= now /\ work[w].at % Day = w
          /\ \A o \in work[w].todo : WasDue(o, work[w].at)
    /\ Taking(w) => /\ work[w].owner \in Owner \ work[w].todo
                    /\ work[w].at <= now /\ WasDue(work[w].owner, work[w].at)

(* What has been served lies before the next run of its time and left its mark
   in the deliveries, which is where the catch-up looks. *)
ServedBehind ==
    \A x \in served :
        /\ x[1] \in Owner /\ x[2] <= now /\ x[2] <= lastSent[x[1]]
        /\ Armed(x[2] % Day) => x[2] < nextRun[x[2] % Day]

(* While the process starts no job is due: none is at work and the next run of
   each lies ahead.  It takes a start-up shorter than an instant. *)
StartsAhead ==
    phase = "starting" =>
        \A t \in Time : work[t].pc = "idle" /\ (Armed(t) => nextRun[t] > now)

(* Nobody's turn, present or to come, has been taken before. *)
TurnsFresh(w) ==
    /\ w \in Time /\ work[w].pc # "idle" =>
          /\ Armed(w) => work[w].at < nextRun[w]
          /\ \A o \in IF work[w].pc = "owners" THEN Owner ELSE work[w].todo :
                <<o, work[w].at>> \notin served
    /\ Taking(w) => /\ <<work[w].owner, work[w].at>> \notin served
                    /\ work[w].sent = Never \/ work[w].sent >= work[w].at

DueInv == Stages /\ RunsTimely /\ \A w \in Worker : TurnsDue(w)
OnceInv == ServedOnce /\ ServedBehind /\ StartsAhead /\ \A w \in Worker : TurnsFresh(w)

(* Types, covered schedule, owners due, and each served once where start-up is
   quick: inductive, whatever is edited, missed, restarted or late. *)
SlotInv == CInv /\ DueInv /\ (~SlowStart => OnceInv)

(* Where edits do not overlap a reload adds what the schedule still says, to a
   job store that is empty. *)
NoneStale ==
    /\ (\A r \in Reloader : task[r].pc = "idle") => \A t \in Time : Armed(t) => t \in Enabled
    /\ \A r \in Reloader : task[r].pc \in {"read", "add"} => nextRun = Disarmed
    /\ \A r \in Reloader : task[r].pc = "add" => task[r].times = Enabled
================================================================================
