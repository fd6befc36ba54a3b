# A TLA+ model of the quiz bot

The bot publishes quiz polls to Telegram channels on a schedule.  It is one
Python process (aiogram, SQLAlchemy on asyncio, APScheduler) over PostgreSQL.
Its tasks interleave at every `await`; database transactions are the only
isolation it has; what Telegram has accepted cannot be taken back.  It is
multi-tenant: an owner is a Telegram id, with channels, a schedule, settings
and a posting cycle of its own over a shared bank of questions.

Paths below are relative to the repository root; `src/` is its prefix in
`PROJECT.json`.

## 1. The system

| Component | State | Operations | Talks to |
|---|---|---|---|
| Posting cycle (`database/repositories/cycle_repo.py`, `models/cycle.py`, `models/quiz_post.py`) | `cycles` (number, completed_at), `quiz_posts` unique on (cycle, question) | open, close, roll over, pick, claim, release | called by the quiz service inside its caller's transaction |
| Quiz publishing (`services/quiz_service.py`) | locals of a batch | `send_batch`, `send_next`, `_deliver`, `_record_failure` | cycle, channels, deliveries, Telegram, notifications |
| Deliveries (`delivery_repo.py`) | `deliveries` (post, channel, status, sent_at), cascading from the post | pending, sent, failed, last sent | the quiz service writes; catch-up and statistics read |
| Channels (`channel_repo.py`, `channel_service.py`, `handlers/admin/channels.py`) | `channels` (is_active, last_error) | list, connect, deactivate, remove | the quiz service reads and deactivates |
| Scheduler (`scheduler/scheduler.py`, `schedule_repo.py`, `settings_repo.py`) | APScheduler's jobs in memory; `schedule_slots`, `settings` | start, reload, catch up, pause, resume, shut down | rebuilt from the database by start-up and by each edit |
| Scheduled jobs (`scheduler/jobs.py`) | owners still to serve | `run_slot`, `run_scheduled_post`, maintenance, heartbeat | one transaction per owner around `send_batch` |
| Schedule panel (`handlers/admin/scheduler.py`) | conversation state (times picked so far), kept in the process | count, hour, minute, undo, save, pause, weekends, batch size | commits, then `reload()` |
| Menus, settings, channels panel (`handlers/admin/`, `keyboards/inline.py`, `handlers/start.py`) | conversation state; the keyboards standing in the chats | every button and command | channels, settings, users |
| Send now (`handlers/admin/stats.py`) | - | `send_now` | `send_batch` in the update's transaction |
| Transactions (`database/session.py`, `middlewares/database.py`, `user_repo.touch`) | one session per update or job | commit on return, roll back on an exception | every component |
| Access and throttle (`middlewares/`, `user_repo.py`) | time of each user's last update; `bot_users` | touch, throttle, operator gate | before every handler |
| Question import (`import_service.py`, `question_repo.py`, `handlers/admin/imports.py`, `scripts/refresh_questions.py`) | `questions` (external id, hash, picture), the mark of the last import | import a file, an upload, a website; upsert; attach pictures | sources, media cache; changes the pool the picker reads |
| Question sources (`sources/`) | an iterator per import | read records, entries of websites, validate | the import pulls from it |
| Media cache (`media_service.py`) | files of `MEDIA_ROOT`, a semaphore | `download_many`, `download` | the import calls it; publishing reads the files |
| Notifications, instance lock, backups, event log, branding, configuration | small in-memory tables, append-only rows | - | around the above |

What is hard in it:

* **Interleaving.** A cron job and a "Send now" of one owner run at once, each
  in a transaction, and only unique keys and row locks order them.  Edits
  commit and then rebuild the jobs, so two edits' rebuilds overlap.  Cron jobs
  are live while start-up catches up.  Imports of the panel and of the refresh
  script write the same rows, and their downloads the same files.  Two updates
  of one user overlap up to the row lock of the touch; keyboards of earlier
  conversations stay in the chat and can be pressed at any time, and an update is
  routed by the conversation of its arrival but handled in that of its turn.
* **Failure.** A poll is published before its claim is committed.  A batch is
  one transaction over several questions and channels.  A send may be reported
  as failed and have been accepted.  Some channels of a question fail.  A file
  is read twice and may be another one the second time.  A website fails half-way through its pages; a handler that reports such a failure
  returns normally, so what was written is committed.  An answer that cannot be
  delivered rolls back what the handler wrote, but not the conversation, nor
  what has been published.
* **Restarts.** Jobs live in memory only; the slot missed while the process was
  down is rediscovered from the deliveries.  Conversations are forgotten, their
  keyboards are not.  A download may end between its two steps.
* **Bounds.** The claim loop gives up after five attempts; the grace time,
  `coalesce` and `max_instances` decide what becomes of late runs.

What makes each component correct:

* *Posting cycle*: a question is used once per cycle, a cycle is closed only
  when every question was used in it, numbers are contiguous, one cycle is open.
* *Publishing and deliveries*: a claim is kept exactly when somebody received
  it; rows agree with what stands in the channels; every batch ends.
* *Scheduler*: every enabled time has a job, no other time has one, a slot is
  served once, and each owner gets a turn whatever happens to the others.
* *Import*: what an import reports is what it stores; repeated imports of a file
  add nothing; the script commits only sources that were read to their end; every import ends.
* *Sources*: the option stored as correct is the one the author marked.
* *Media cache*: a recorded path has a file, and a file is a whole picture.
* *Panel, channels, access*: a conversation saves what its user picked; nobody
  changes rows of somebody else; every press is answered; every update ends.

## 2. Modules

| Module | What it is |
|---|---|
| `QuizPosting` | one owner's batches: claim, publish, record, release, commit, over PostgreSQL's locking |
| `QuestionDeck` | abstract: a deck drawn without replacement, whose unsaved draws may be lost |
| `SharedDeck` | abstract: the deck of several writers, each with a hand of its own until it saves |
| `QuizPostingDeck` | the refinement mappings: from `QuizPosting` to `SharedDeck`, from a single session of it to `QuestionDeck` |
| `MCQuizPosting` | TLC instances of it |
| `QuizPostingProofs` | its theorems for any batches, crashes and replies |
| `QuizPostingDeckProofs` | theorems about the two refinements and about a single writer |
| `QuizShownProofs` | theorems about batches of one question: no deadlock, nothing posted twice |
| `QuizScheduler` | when batches start: jobs, reloads, clock, catch-up, gates, restarts |
| `MCQuizScheduler` | TLC instances of it |
| `QuizSchedulerProofs` | its theorems: enabled times keep their jobs |
| `QuizSlotProofs` | its theorems over the clock: who is served, when and how often |
| `QuestionRecords` | operators: from a record or a website's entry to a validated question |
| `QuestionReader` | the three kinds of source as iterators |
| `MediaCache` | downloads of pictures by several tasks into one directory |
| `QuestionImport` | imports over the bank; composes the three modules above |
| `MCQuestionImport` | TLC instances of it |
| `QuestionImportProofs` | its theorems: paths, pictures, repeated files, what the script commits |
| `QuestionStoredProofs` | its theorems about counts, what is stored and which option is marked as correct |
| `PanelScreens` | the keyboards, and what each panel puts up |
| `AdminPanel` | updates of several users through middlewares, routing and handlers |
| `MCAdminPanel` | a TLC instance of it |
| `AdminPanelProofs` | its theorems |

### QuizPosting

A *session* is a database transaction that runs `send_batch`.  `posts`,
`openCycles`, `closedCycles`, `deliveries` and `active` are the committed
tables; `tx[s]` holds a session's own writes and the rows it has locked;
`run[s]` is the place in the code and its locals.  A session reads the committed
rows plus its own writes, one statement at a time (READ COMMITTED).  An INSERT
waits while another open transaction holds the same unique key, an UPDATE while
one holds the row; `Deadlocked` is a circle of waiters and `DeadlockVictim` is
PostgreSQL ending it.  `shown` is what stands in Telegram's channels, which no
rollback changes.

| Actions | Code |
|---|---|
| `Begin` | `run_scheduled_post` past its gates; `send_now` |
| `ListChannels`, `JobFindsNoChannel`, `PressFindsNoChannel` | `send_next`'s channel list and `NoChannelsError` in the two callers |
| `FindOpenCycle`, `ReadHighest`, `OpenCycle`, `OpenCollides` | `get_or_create_open_cycle`, `open_next_cycle` |
| `Pick`, `PickNothing`, `CloseCycle`, `InsertPost`, `InsertCollides` | the loop of `claim_next_question` |
| `Publish`, `SetFileId`, `Reject`, `RecordFailure`, `Settle` | `_deliver` with `set_file_id`, `_record_failure`, the release in `send_next` |
| `Commit`, `AnswerFails`, `Crash` | the end of the session: its commit, or the rollback of a press whose last message fails; the end of the process |

`SavepointIsolates` covers both readings of the collision path.
`claim_next_question` adds the post to the session and then opens
`begin_nested()`.  SQLAlchemy flushes pending objects before it emits
SAVEPOINT, so the failing INSERT falls outside the savepoint; with an object
already flushed it would fall inside.  Every theorem holds for both values, and
the runs use both.

`LateReplies` lets a send be reported as failed although the poll appeared (a
timeout).  `AnswersFail` lets `send_now`'s last `safe_edit` raise, upon which
`DatabaseMiddleware` rolls the press back with its polls standing.  A question in
`Picture` may, after each successful send, have a new `file_id` stored in its row,
which stays locked until the transaction ends.  `Init` has a new owner, one
whose first batch reached nobody, and one who has just used the first cycle up.
The set `Question` is the pool the picker may choose from; it is
fixed for the life of a behaviour.

The statements about data are reduced to what the properties tell apart: a
question, a channel and a cycle number; a delivery's status; whether a channel
lost access.  Poll contents, media and texts are left out.

### QuizScheduler

`nextRun[t]` is APScheduler's job for the posting time `t`, `task[r]` a `reload()`
under way, `work[w]` a `run_slot` or the start-up's catch-up under way, the rest
of the state is the database.  The clock counts instants, `Day` to a day, and a
slot is an instant modulo `Day`.

| Actions | Code |
|---|---|
| `Start`, `ReloadRemove`, `ReloadRead`, `ReloadFails`, `ReloadAdd`, `Finish` | `QuizScheduler.start` and `reload`; polling starts after the catch-up (`app.py`) |
| `Save` | `_save_schedule` and `receive_times` up to their commit; the reload follows as a task |
| `Fire` | APScheduler's wake-up with `coalesce`, `max_instances`, `misfire_grace_time` |
| `ReadOwners`, `Turn`, `Gate`, `Publish`, `Commit`, `Fail` | `run_slot`, `catch_up_missed`, `run_scheduled_post` |
| `SetPaused`, `ToggleWeekends`, `SendNow` | the panel |
| `Crash` | a crash, or `shutdown()`, which cancels running jobs |

A batch is here only "published at some instant, then committed or rolled
back"; what happens inside is `QuizPosting`.  The two meet in the row that
`last_sent` reads: `Commit` there is a commit with a SENT delivery here.  `SendNow`
is one step.  `Save` takes any non-empty set of times, which includes all the
conversations of `AdminPanel` can produce.
`Fail` assumes that the event which reports an error can itself be written.

### QuestionImport, with QuestionRecords, QuestionReader and MediaCache

A *task* is one import: a press in the panel or a run of
`scripts/refresh_questions.py` (`Script`).  `bank` holds the committed rows of
`questions` by (source, external id), `sess[i]` a task's transaction and the
locals of `import_source`, `disk` the files of `data/`, `part` and `final` the
two names of each picture, `work[i][u]` the worker that downloads it.  A task
sees committed rows and its own; the objects it loaded with `get_existing_map`
(`old`) may be stale, and an UPDATE carries only the columns that differ from
them.  A source's name has two places: `listed` is the name its rows were loaded
under, after the first read of a file, and `src` the name it has now, which the
second read may have changed (`SourceName`); records are looked up among the rows
loaded by their id alone and inserted under the present name (`RowKey`).
`imported`, `last`, `raced` and `again` are history that only properties read.

| Actions | Code |
|---|---|
| `StartFile`, `StartUpload`, `StartSite` | `import_from_disk`, `receive_upload`, `import_from_website`, `refresh_questions.main`, and `import_source` up to `get_existing_map` |
| `EditFile` | the operator replaces a file of `data/` while the bot runs, also between the two reads of an import |
| `ReadPage`, `ReadFails` | a page of `fetch()`; by source a failure is tolerated or ends the fetch (`Outcome`); then the panel keeps what it has (`PanelKeeps`) and the script drops it (`ScriptDrops`) |
| `NextEntry` | one record through `parse_record` and `upsert` |
| `Execute`, `Collide`, `DeadlockVictim` | the flush: a row lock granted, the unique key violated, PostgreSQL ending a deadlock |
| `ReadDone`, `Download`, `Downloaded`, `Attach` | `_fetch_images`: `download_many`, `list_missing_images`, `set_image` |
| `Mark`, `Commit`, `Abort`, `RenderFails`, `Crash` | the mark of the last import; the end of the transaction, and its rollback when the panel's last message fails; the end of a process |
| `Look`, `Acquire`, `FetchOk`, `FetchTransient`, `FetchRefused`, `OpenPart`, `WriteSome`, `WriteDone`, `Rename`, `RenameLost` | `MediaService.download`: cache, semaphore, attempts, `write_bytes` and `replace` in worker threads |

A record's texts are opaque labels; `Clip` and `Fold` say what normalising and
case-folding do to them, and `Content` what the hash tells apart.  Decoding of
CSV, XLSX, JSON and HTML is a list of records or a failure.  A reader asks for
pages: a file is one page, e-avtomaktab a random selection per request with a
stopping rule on fruitless rounds, avtotestu one ticket per number.

Two workers may have one `.part` file open: `OpenPart` truncates it under the
other, `Rename` gives it its final name while the other still writes to it
(`into`), and the second `replace()` finds no file (`RenameLost`).

### AdminPanel and PanelScreens

An update in flight (`upd[i]`) is a task with a database session.  `screen` holds
the keyboards standing in the chats, old ones included; `fsm` the conversations;
`recent` the users the throttle may still turn away, with the clock left open.

| Actions | Code |
|---|---|
| `Press`, `Type` | a press on a button that stands in a chat; a command, a text or a document; aiogram reads the state of the conversation (`raw`), by which it will route the update |
| `TouchFails`, `Unhandled`, `Throttled`, `Denied` | `UserRepository.touch` and the middlewares, in their order |
| `Handle` with `ShowMenu` ... `ReceiveUpload` | every handler up to its first wait: what it writes, what becomes of the conversation, what it puts up, whether it answers |
| `Refused`, `Verified`, `Insert` | `ChannelService.connect` after Telegram's replies; the race for the unique chat id |
| `SaveCommit`, `Reloaded`, `Flagged` | `_save_schedule` (commit, reload, clear) and pause/resume (commit, then a session of the scheduler's own) |
| `Reply`, `ReplyFails` | the answer and the middleware's commit, or `handle_error` and rollback |
| `Restart` | conversations, throttle and updates in flight are gone; rows and keyboards stay |

The row a touch has written keeps the user's other updates waiting until its
session ends (`Ready`), which is what makes one user's handlers nearly
sequential; `SaveCommit` gives that row free in the middle of a handler.  What was
read on arrival may be stale by then: a text goes to `receive_times` although the
conversation has ended, and finds its data gone.
Publishing, importing and backups only answer here.

## 3. What the runs check

| Run | Bounds | Shows |
|---|---|---|
| `race` | a job and a press, 2 questions each, 2 illustrated questions, 1 channel, 2 claim attempts, 1 crash, late replies, failing answers | `IInv`, `CycleComplete`, `DeliveriesBacked`, `ClaimsExclusive`, `CyclesContiguous`; `HistoryGrows`; the refinement `SharedRefined`; `BatchEnds` under fairness (67,158 states) |
| `quiet` | a job and a press, 2 runs each of one question, 2 illustrated questions, 2 channels, no crash, no late reply, no failing answer | `ShownInv`, `ShownStaysClaimed`, `NoRepeatInCycle`, `NeverDeadlocked` (1,583,909 states) |
| `solo` | one session, 2 runs of 2 questions, 3 questions, 2 channels, 1 crash, late replies | `DeckInv`, `OneOpenCycle`, `ClaimReachedAudience`, and the refinement `DeckRefined` (2,976,695 states) |
| `restart` | 1 owner, 2 handlers, 2 times a day, instants 2 to 5, grace 1, 2 presses, 2 starts | `SlotInv`, `JobsArmed`, `ServedOnce`, `NoZombiePost` |
| `turns` | 2 owners, 1 handler, instants 2 and 3, grace 1, 1 press, 1 start | `NothingLingers`; `EveryOwnerServed` under fairness |
| `import` | a panel task and a script; 2 imports; 1 upload, edited file or crash; 2 file contents, websites of 2 pages and 1 ticket, 2 attempts, a semaphore of 1 | `CountsAddUp`, `ReportedIsStored`, `AnswerAsMarked`, `PathBacked`, `PictureWhole`, `SameFileAddsNothing`; `ScriptCommitsWhole`; `ImportEnds` under fairness (437,473 states) |
| `panel` | an operator and a guest, 2 updates at a time, 5, 5 or 3 updates in three situations, 1 restart | `EveryPressAnswered`; `SavedAsAsked`, `TenantsApart`; `UpdatesEnd` under fairness (987,633 states) |
| `gap` | one import of a file of two rows, beside a refresh | `AnswerAlwaysAsMarked` fails |
| `crash` | 1 session, 1 crash | `ShownStaysClaimed` fails |
| `no_channels` | 1 session, a batch of 3, 1 channel | `EarlierPostsStand` fails |
| `two_open` | a job and a press, 2 runs each | `OneOpenCycle` fails |
| `slow_start` | 1 owner, clock running during start-up | `ServedOnce` fails |

Why the bounds are enough.  Collisions, double rollovers and deadlocks are
between two transactions, and two questions over two batches exhaust and roll a
cycle over in the middle of a batch.  Two channels give a partly failed
question.  Two claim attempts make the loop give up after a single collision
(the rollover consumes one too); five are used elsewhere.  For the scheduler,
two times make one stale job beside one good one, two handlers make two
reloads overlap, and instants 2 to 5 contain two days, one of them a weekend,
two slots that coalesce while the process is busy, a restart inside the grace
window and one outside it.

For the import, two tasks suffice for every race between transactions (stale
objects, colliding keys, a deadlock over two rows taken in opposite order) and
between workers (one address, two `.part` writers).  The two file contents
cover a worksheet row without an id and with an empty cell, a list whose answer is
given in words, lettered columns with a letter, a cell that splits, and two equal
options; one declares a source name, so that putting it in place of the other
renames the source, also between the two reads of an import; one row has an
address no scheme allows.  The websites' pages share a question, serve it in two
versions, and hold a broken entry.  Two attempts and a semaphore of one make
retries and queueing happen.

For the panel, the three situations are: times are chosen or typed while the
keyboard of an earlier conversation stands in the chat (five updates: count, hour,
minute, and two to interfere, or the typed times behind a press that ends the
conversation); a chat is connected and removed by two users; a new user finds an
operator's keyboard.  Two updates at a time give every overlap of two handlers,
also of one user.

`quiet` excludes what breaks its properties, each with a run that shows it or a
trace TLC gives as soon as it is allowed (section 4): a crash (`crash`), a late
reply and an answer to a press that fails forget the claim of a poll that stands;
three channels and a picture let batches of one question deadlock.  Its batches
have one question, the size an owner has until another is picked
(`settings_repo.py:129`), because larger ones do deadlock (`race` has such steps):
a batch keeps the rows of its first question while it waits for those of the
second, and the rollback of the victim forgets claims whose polls stand.
`restart` excludes what `slow_start` shows to break `ServedOnce`: there the
clock stands still during start-up.  `JobsArmed` and the cover in `SlotInv` say nothing after
a failed reload: the jobs are then gone until the next edit or restart, and the code
promises nothing else.  `NothingLingers` is checked for edits that do not
overlap: of two overlapping reloads the one that read first may add last, and
then leaves a job for a deleted time.  `NoZombiePost`, checked with overlapping
edits, says why this is harmless: the job reads its owners when it fires.

Symmetry is declared only in runs that check invariants or action properties,
never liveness: questions in `QuizPosting` and handlers in `QuizScheduler` are
interchangeable, as nothing compares or orders them.

Fairness.  `QuizPosting`: a started batch keeps running, because the event loop
schedules every ready task and each Telegram call ends by the client's timeout,
and PostgreSQL's deadlock detector acts.  `QuizScheduler`: reloads, due jobs and
running jobs proceed, for the same reason.  `QuestionImport` and `AdminPanel`: a
running import or update takes its next step, as the event loop serves it,
requests have timeouts, and PostgreSQL ends deadlocks; which way a step goes - a
request succeeds or fails - is never assumed.  Nothing makes a batch start, an
edit happen, an import begin, a user press, the clock advance or the process
crash or restart.

## 4. Where the code departs from what it says

1. `no_channels`: a batch whose last channel is lost part-way rolls back the
   posts it has already published; `quiz_service.py:274` says they stand.
2. `crash`: a posted question is re-served after a crash between its poll and
   the batch's commit; `README.md:553` says it never is.
3. `two_open`: two sessions that roll over at once leave two open cycles;
   `models/cycle.py:33` says an open cycle is the active one.
4. `slow_start`: a slot whose moment comes during start-up is posted by its
   cron job and by the catch-up; `README.md:555` says it is fired once.
5. `gap`: empty option columns are dropped before a number or a letter is
   resolved, so the second non-empty option is stored where an author marked the
   second column; `sources/base.py:207` says each spelling is explicit so as not
   to mark a wrong answer correct, `README.md:353` that `3` is the third option.
6. `gap`, the second row of its file: a letter is not compared with the number
   of options (`sources/base.py:239`, unlike a number at 246), so a question is
   stored whose correct index is beyond its options; `sources/base.py:217` says
   a value out of range is refused. Publishing sends that index with the poll
   (`quiz_service.py:144`); what Telegram answers is outside the models.

Read in the code, and either part of the models without a run of their own or
outside them.  Of the first four, TLC gives a trace as soon as the exclusion or the
exception named there is dropped:

* A press whose last message fails is rolled back with its polls standing
  (`handlers/admin/stats.py:185`), and its questions are posted again in the same
  cycle.  `quiet` sets `AnswersFail` to false.
* Storing a picture's `file_id` (`quiz_service.py:472`) locks the question's row between
  rows of channels.  Over three channels two batches with the same question, one in
  each of two open cycles, can deadlock in the middle of their broadcasts, although
  `quiz_service.py:437` says that `_deliver` never raises.  `quiet` has two channels.
* A text queued behind the press that ends its conversation still reaches
  `receive_times`, which then compares the number of times with nothing
  (`handlers/admin/scheduler.py:125`) and saves any number, none included.
  `SavedAsAsked` names the exception.
* A file that declares another source at its second read is written over the rows of
  the name it had at the first (`file_sources.py:162`, `import_service.py:113`).
  `ReportedIsStored` allows either name.
* In a conversation "/start" is taken as text (the panel's router comes before
  the public one), though `handlers/start.py:43` calls it the way a stuck
  operator recovers; "/menu" and "/cancel" do work.
* `choose_batch_size` does not answer its callback; `EveryPressAnswered` names
  the exception.
* Between the commit in `_save_schedule` and the clearing of the conversation a
  stale press saves one time more than asked; `SavedAsAsked` names the exception.
  After a restart a stale minute keyboard cannot save, but an hour and a minute
  pressed in turn save a one-time schedule (`expected_count` defaults to 1).
* Two first updates of a new user, and two owners who connect one chat at once:
  the loser meets an integrity error instead of the message meant for it.
* An answer that fails after a removal was announced in the toast rolls the
  removal back; one that fails after an import rolls the import back.
* A corrected file uploaded again has a new name, hence a new source, and doubles
  the bank unless it declares its source (`imports.py:176-179`).
* After a crash a torn picture may count as cached, when another worker renamed
  the unfinished `.part` file; `PictureWhole` therefore ends at a crash.
* With unchanged content a new picture address is stored but the old picture
  stays (`question_repo.py:186-195`).
* A website's timeout, or a page of e-avtomaktab that cannot be read, ends the
  fetch half-way; only other transport errors are tolerated.
* An empty cell of a worksheet becomes the option "None".

## 5. What is proved

All proofs are for arbitrary constants, under the named assumptions of the
modules: finite or infinite sets of questions, channels, sessions, owners and
handlers; any batch size, attempt limit, day length, grace and bound.  Where a
theorem needs more, the hypothesis stands in its statement and below, with the
behaviour that makes it necessary.

`QuizPostingProofs`.  `Inductive` proves `Spec => []IInv`.  The safety properties
are not inductive by themselves: that a closed cycle is complete depends on what
the closing transaction had seen (`ClosingComplete`), this depends on nobody
taking claims back, which depends on uncommitted rows being locked (`RowsHeld`)
and on no row being locked twice (`LocksExclusive`); that a committed claim
reached somebody depends on every claim but the one being published having been
answered (`ClaimsAnswered`); that numbers are contiguous depends on the number
about to be inserted following those seen (`NumbersContinue`).  The proof is a
frame lemma (`OthersKept`: a step of one session keeps what the others rely on,
as long as the tables stay), one lemma per action, and `CommitInv` and `CrashInv` for
the steps that change tables or all sessions.  From it follow `TypeCorrect`,
`CyclesComplete`, `ClaimsReach`, `DeliveriesHold`, `NumbersHold`,
`ClaimsDisjoint`, and the action property `HistoryStands`.

`QuizSchedulerProofs`.  `CoverInductive` proves `Spec => []CInv`: while the process
is up and no reload has failed, every enabled time has a job or a reload under
way that has yet to read the times or has read this one.  This `Covered` is the
reason why overlapping reloads are safe: the one that commits last reads last or
is followed by one that does.  `Asleep` is needed because a start must not find
stale tasks.  `ScheduleHasJobs` follows: once no reload is under way every
enabled time has its job.

`QuizSlotProofs`.  `SlotsInductive` proves `Spec => []SlotInv`, with
`SlotInv == CInv /\ DueInv /\ (~SlowStart => OnceInv)`.  `DueInv` says that a job's
next run is an instant of its time and not later than the time's next one
(`RunsTimely`), and that whoever is being served, or waits for it in a `run_slot`,
had the slot when its instant came (`TurnsDue`); `Stages` is what the order of
start-up adds.  It gives `JobsAreArmed` and `NoZombiePosts` without further
hypotheses.  `OnceInv` says that what has been served lies before the next run of
its time and is visible in the deliveries, where the catch-up looks
(`ServedBehind`), that no job is due while the process starts (`StartsAhead`), and
that nobody's turn, present or to come, has been taken (`TurnsFresh`).
`StartsAhead` is what `~SlowStart` buys, and the run `slow_start` shows that
`SlotsServedOnce` fails without it.  `DeletedTimesGo` adds `NoneStale` and assumes a
single handler, that is, edits that do not overlap: of two overlapping reloads the
one that read first may add last.

`QuizPostingDeckProofs`.  With a single writer `DeckInv` is inductive on top of
`IInv`: the open cycle is the highest of all the writer sees, it opens one only
where it sees none, and its claims belong to cycles (`WriterInv`), the same of
the committed tables (`SavedInv`), which is what a rollback falls back to.  Two
writers break this at once (`two_open`).  From it follow `WriterKeepsOneOpen` and
the refinement `WriterDrawsDeck`: `DeckInit` maps initial states, and `DeckStep`
maps each step to one of `QuestionDeck` or to a stutter - a claim to a draw, a
release to its return, the commit to a save, a rollback or a crash to the loss of
unsaved draws, opening a cycle to a reshuffle, and closing one to a stutter.
Crashes and late replies are included: the deck is about what is claimed, not
about what stands in the channels.

`WritersShareDeck`, in the same module, is the refinement of `SharedDeck` for any
number of sessions and without hypotheses.  The tables are what is on record and
an open transaction is its session's hand, so a commit saves the hand, a rollback
loses it and a crash loses all of them; publishing and reads stutter.  Four
guards of the deck are what the code must earn, each from a part of `IInv`: a
claim or a cycle's number is nobody else's (`RowsHeld` with the granted insert),
a new number follows all those known to whoever inserts it (`NumbersContinue`,
`CyclesContiguous`), a card is drawn only from a round its player has not seen end
(`CycleComplete`: another session may have closed the cycle in the meantime, but
then its questions are all on record and the claim collides), and a round is ended
only when all its cards are on record or in the hand of the one who ends it
(`ClosingComplete`).  The deck lets two players end the same round, and have more
than one round going, because the code does (`two_open`); `WriterDrawsDeck` says
what a writer gains by being alone.

`QuizShownProofs`.  `BatchesNeverDeadlock`: a batch of one question locks rows in one
order, cycles by number, then its claim, then channels as `list_active` orders
them; `LocksOrdered` says it holds only rows before the one it wants.  The row of
an illustrated question does not fit: it is locked after whichever channel was
reached.  The theorem therefore assumes `FileIdsInOrder`: no question has a
picture, or there are at most two channels, so that the row is locked either before
the first channel row a batch holds or after the last it may wait for; for three
channels TLC finds a deadlock.  In a circle of
waiters the least channel row wanted would be held by somebody who wants a
lower one, the question's row by somebody who cannot be waited for again
(`StoringHoldsNone`), or no channel row is wanted (`NoChannelCircle`), and then the
least cycle row wanted would be held twice (`Least` is from the well-founded order
of the naturals).  With crashes, failures, failing answers and any number of batches
this holds for `BatchSize = 1`; for two it is false.

`ShownInductive` proves `Spec => []ShownInv` for `Undisturbed` batches: of one question,
with `FileIdsInOrder`, no crash, no late reply and no failing answer to a press.
`Recorded` (a poll that stands is a committed claim, or a claim of an open
transaction with its SENT delivery) is kept because of the three ways a
transaction can be rolled back after it has published - a crash, a failing
answer, the victim's part in a deadlock - the hypotheses exclude the first two and
`BatchesNeverDeadlock` the third; `ClaimInHand` says where else a claim may be held.
`PostedStaysClaimed` and `PostedOnce` follow.  Each hypothesis is necessary: TLC finds
a counterexample as soon as the process may crash (the run `crash`), an answer fail,
a reply be late, a third channel receive pictures, or a batch have two questions.

`AdminPanelProofs`.  `Invariance` proves `Spec => []IInv` with
`IInv == TypeInv /\ RowsOwned /\ PicksShort`.  `TypeInv` gives the shape of every
update, among it that each keyboard consists of buttons the handlers know, so
that their arguments are hours, minutes, chats.  `RowsOwned` says that a channel
row waiting in a transaction belongs to that update's user, which the check in
the handler alone does not give: the row may have been free when it was looked
up.  `PicksShort` says that between updates fewer times are picked than asked
for and no time twice; only the update that is reloading is past that.  From it
follow `TypeCorrect`, `PressesAnswered`, `TenantsStayApart` and `SavesAsAsked`, the last
with the two exceptions that stand in `SavedAsAsked`: another save still reloading,
and typed times that find the data of their conversation gone.  Neither can be
dropped.

`QuestionImportProofs`.  `Invariance` proves `Spec => []IInv` with
`IInv == Tables /\ Pictures /\ Sessions`.  Each session satisfies, over the tables
it depends on: `ReadToEnd` (whoever is past reading without an error has drained
its source), `Backed` (rows it loaded or wants to update are there, paths it
writes have files), `Filed` (of a file whose name is still the one its rows were
listed by, each row taken so far that gives a question has its key in the bank or
in the statement about to run, and an import of what was imported before under its
present name has created nothing) and `Quiet` (its workers are busy only
while it waits for them).  `Filed` needs `Known`: all questions of every file
imported so far under one name are in the bank under it.  An import whose source
was renamed between its two reads is not counted among these, as its records may
have gone into rows of the old name; that an import under a name of
something known there creates nothing holds for it too, since a record is inserted
only when neither name has it.  The frame lemma `GoodKept` carries a session
over any step in which the bank, the picture files and the history only grow;
`Touched` says what a worker may do to the files, and `Whole` is kept because a
`.part` file that is renamed while somebody writes to it takes its writer along.
From it follow `TypeCorrect`, `PathsBacked`, `PicturesWhole`, `SameFileOnce` and,
as only a commit changes the bank, the action property `ScriptsWhole`.  Besides
the assumptions on bounds these proofs use `SupplyAssumption` (what sources hand
over are sequences of items with ids and addresses of the tables' types) and,
for `AnswersHold` below, `RowsAssumption` (a row of a file has the fields and the
kinds of value that `parse_record` tells apart).

`QuestionStoredProofs`.  `StoredInductive` proves `Spec => []RInv`, per session, on top
of `IInv`.  `Counted`: created is the number of new rows the session has written
plus the insert that is about to run, of a file the counts add up to the rows
taken, of a website to the questions it gave, none of which comes twice.
`Stored`: an object loaded at the start is what the session would read now, save
for rows others have committed since (`raced`), and each row given so far holds,
or will once the pending statement has run (`Coming`), what was given for it last
(`Faithful`), in a row of the source's present name or of the one its rows were
listed by (`NamedBy`).  `RowsExclusive`, no row is written by two open transactions, is what
makes the commit of one a frame for the others (`FrameHolds`): the rows it brings
are `raced` for everybody else and written by nobody else.  There is one lemma per
action, and from the invariant follow `CountsHold` and `ReportsHold`, with any
number of overlapping imports, edited files, failures and crashes.

`AnswersHold` is about which option is stored as the correct one, through every
way a file has of giving options and of marking the answer.  Its core is
`KeptInPlace`: dropping empty options leaves those before the first empty one at
their numbers.  `NonBlank` is a recursive function on the length of the list;
that it exists and satisfies its equation (`Collected`) is shown by a least
counterexample (`LeastNumber`), as the induction theorems cannot be used.
`ColumnsInPlace` and `SuppliedInPlace` carry this through numbered columns, lettered
columns, a list and a cell, `MarkedKept` through the mark.  `MInv` connects it with
the behaviours: what an import has noted or is about to write comes from a row of
a file it read.  The theorem asks for no empty option up to the marked one
(`GaplessUpTo`); the run `gap` shows that without this the wrong option is stored.

Only model-checked:

* Liveness (`BatchEnds`, `EveryOwnerServed`, `ImportEnds`, `UpdatesEnd`), which is
  beyond the prover.
* `ServedOnce`, `NothingLingers`, `OneOpenCycle`, `DeckRefined`, `NeverDeadlocked`,
  `ShownStaysClaimed` and `NoRepeatInCycle` have the hypotheses above in the runs
  too; beyond them nothing is claimed.

## 6. What is not modelled

* The composition of imports and removals with publishing: `QuizPosting` keeps
  the pool of questions fixed for the life of a behaviour and loses channels only
  by refused sends, while `QuestionImport` and `AdminPanel` change both.  Several
  owners in one `QuizPosting` and the size of the connection pool.
* `deactivate_missing` and `backfill_images` of the import, which have no caller;
  the cached `file_id` of a picture, whose value decides nothing here: `QuizPosting`
  has the lock its UPDATE takes on the question's row, but an import and a batch
  that wait for each other's question rows are not modelled.
* Notifications and their dedupe table: nothing reads them back.  The instance
  lock: one process of the bot at a time is assumed.
* Heartbeat, maintenance, backups, the event log, texts, logging, configuration,
  deployment and migrations, one-off scripts: they change no state the above
  depends on.
* The clock of the throttle (left open: an update after another may or may not be
  too soon) and the pauses between attempts.

## 7. Plan

In this order; 1 to 13 are done.

1. `QuizPosting`: the core; nothing else matters if claims are wrong.
2. `QuestionDeck` and the refinement.
3. `QuizPostingProofs`.
4. `QuizScheduler` and `QuizSchedulerProofs`.
5. `QuestionRecords`, `QuestionReader`, `MediaCache` and `QuestionImport`.
6. `PanelScreens` and `AdminPanel`.
7. `AdminPanelProofs`.
8. `QuestionImportProofs`.
9. `QuizSlotProofs`: `ServedOnce`, `NoZombiePost`, `JobsArmed`, `NothingLingers`.
10. `QuizPostingDeckProofs` and `QuizShownProofs`: the refinement, one open cycle,
    no deadlock, and what stands in the channels.
11. `QuestionStoredProofs`: `CountsAddUp` and `ReportedIsStored`.
12. `SharedDeck` and `WritersShareDeck`: the refinement for any number of writers.
13. `AnswersHold`: the option an import stores as the correct one.
14. Composition: a pool that an import changes while a cycle is open, and
    channels removed under a batch, as an extension of `QuizPosting`.
