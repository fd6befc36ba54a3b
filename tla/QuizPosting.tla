------------------------------ MODULE QuizPosting ------------------------------
(***************************************************************************)
(* How one owner's quizzes are claimed, published and recorded.            *)
(*                                                                         *)
(* A session is one database transaction running QuizService.send_batch:   *)
(* a cron job, a catch-up job or a press of "Send now".  Sessions run as   *)
(* tasks of one event loop over PostgreSQL at READ COMMITTED, so each      *)
(* statement reads what is committed plus the session's own writes, and a  *)
(* row or unique key written by an open transaction makes others wait.     *)
(* A poll accepted by Telegram stays in the channel whatever the           *)
(* transaction does later.                                                 *)
(*                                                                         *)
(* Question is the set the picker may choose from: the active questions in *)
(* the owner's content language (all active ones when that has none).      *)
(***************************************************************************)
EXTENDS Integers

CONSTANTS
    Question,           \* what _pick_unused_question may return
    NoQuestion,         \* "no question claimed"
    Picture,            \* the questions that have one
    Channel,            \* channel ids; list_active orders by id
    Session,            \* tasks that may run a batch
    Manual,             \* those started by "Send now" (the rest are jobs)
    BatchSize,          \* questions_per_send
    ClaimAttempts,      \* _CLAIM_ATTEMPTS, 5 in the code
    SavepointIsolates,  \* does begin_nested() guard a pending INSERT? (see InsertCollides)
    LateReplies,        \* may a send be reported failed after Telegram took it?
    AnswersFail,        \* may the answer to a press fail after its batch?
    MaxRuns,            \* bound: batches started per session
    MaxCrashes          \* bound: process crashes

ASSUME QuestionAssumption == NoQuestion \notin Question
ASSUME PictureAssumption == Picture \subseteq Question
ASSUME ChannelAssumption == Channel \subseteq Nat
ASSUME ManualAssumption == Manual \subseteq Session
ASSUME BatchAssumption == BatchSize \in Nat \ {0}
ASSUME AttemptsAssumption == ClaimAttempts \in Nat \ {0}
ASSUME SwitchAssumption == {SavepointIsolates, LateReplies, AnswersFail} \subseteq BOOLEAN
ASSUME BoundAssumption == MaxRuns \in Nat /\ MaxCrashes \in Nat

VARIABLES
    posts,          \* committed quiz_posts: pairs <<cycle number, question>>
    openCycles,     \* committed cycles with completed_at IS NULL
    closedCycles,   \* committed cycles with completed_at set
    deliveries,     \* committed deliveries: <<post, channel, status>>
    active,         \* committed channels with is_active
    tx,             \* per session: writes and row locks of its open transaction
    run,            \* per session: where send_batch is, and its locals
    shown,          \* polls standing in Telegram: <<channel, post>>
    repeats,        \* those that appeared more than once
    starts,         \* batches started per session (bounded by MaxRuns)
    crashes         \* crashes so far (bounded by MaxCrashes)

db == <<posts, openCycles, closedCycles, deliveries, active>>
feed == <<shown, repeats>>
bounds == <<starts, crashes>>
vars == <<db, tx, run, feed, bounds>>

CycleNo == Nat \ {0}
Post == CycleNo \X Question
Delivery == Post \X Channel \X {"sent", "failed"}

(* Lockable rows and unique-index keys. *)
PostRow(p) == <<"quiz_posts", p>>
CycleRow(n) == <<"cycles", n>>
ChannelRow(ch) == <<"channels", ch>>
QuestionRow(q) == <<"questions", q>>
Row == ({"quiz_posts"} \X Post) \cup ({"cycles"} \X CycleNo)
         \cup ({"channels"} \X Channel) \cup ({"questions"} \X Question)

Phase == {"idle", "channels", "cycle", "number", "open", "pick", "close",
          "insert", "send", "file_id", "failed", "lost", "commit"}

(* A transaction's own writes: posts inserted, cycles opened and completed,
   deliveries recorded, channels deactivated; rows is what it has locked. *)
Writes == [ins : SUBSET Post, opened : SUBSET CycleNo, shut : SUBSET CycleNo,
           dlv : SUBSET Delivery, off : SUBSET Channel, rows : SUBSET Row]
NoWrites == [ins |-> {}, opened |-> {}, shut |-> {}, dlv |-> {}, off |-> {}, rows |-> {}]

(* Locals of send_batch, send_next and claim_next_question. *)
Locals == [pc : Phase, left : 0..BatchSize, todo : SUBSET Channel, cur : Nat,
           que : Question \cup {NoQuestion}, rolled : BOOLEAN, tries : Nat]
Idle == [pc |-> "idle", left |-> 0, todo |-> {}, cur |-> 0,
         que |-> NoQuestion, rolled |-> FALSE, tries |-> 0]

--------------------------------------------------------------------------------
(* What session s reads: the committed rows and its own writes. *)

Claims(s) == posts \cup tx[s].ins
CyclesSeen(s) == openCycles \cup closedCycles \cup tx[s].opened
OpenSeen(s) == (openCycles \cup tx[s].opened) \ tx[s].shut
ActiveSeen(s) == active \ tx[s].off

(* Mutant: the picker forgets the cycle and skips any question ever posted. *)
Unused_AnyCycle(s) == {q \in Question : \A p \in Claims(s) : p[2] # q}

Unused(s) == {q \in Question : <<run[s].cur, q>> \notin Claims(s)}

CurrentPost(s) == <<run[s].cur, run[s].que>>

(* Mutant: "Send now" begins with the channel added last. *)
NextChannel_Newest(s, ch) ==
    ch \in run[s].todo /\ \A d \in run[s].todo : IF s \in Manual THEN d <= ch ELSE ch <= d

(* The channels are tried in the order of their ids. *)
NextChannel(s, ch) == ch \in run[s].todo /\ \A d \in run[s].todo : ch <= d

(* The row s needs next, if its next statement has to lock one. *)
Wanted(s) ==
    CASE run[s].pc = "insert"            -> {PostRow(CurrentPost(s))}
      [] run[s].pc \in {"open", "close"}  -> {CycleRow(run[s].cur)}
      [] run[s].pc = "file_id"           -> {QuestionRow(run[s].que)}
      [] run[s].pc \in {"failed", "lost"} ->
             {ChannelRow(ch) : ch \in {d \in Channel : NextChannel(s, d)}}
      [] OTHER -> {}

Holders(s) == {t \in Session \ {s} : Wanted(s) \cap tx[t].rows # {}}
Granted(s) == Holders(s) = {}

(* s is on a cycle of transactions each waiting for the next. *)
Circle(W) == UNION {Holders(t) : t \in W} = W
Deadlocked(s) == \E W \in SUBSET Session : s \in W /\ Circle(W)

(* The locals and the uncommitted writes of s become l and w. *)
Proceed(s, l) == run' = [run EXCEPT ![s] = l]
Write(s, w) == tx' = [tx EXCEPT ![s] = w]

--------------------------------------------------------------------------------
(* A new owner, or one whose first batch reached nobody: its cycle stays open
   and its claims were released; or one whose first cycle has just been used up. *)
Init ==
    /\ \/ openCycles \in {{}, {1}} /\ posts = {}
       \/ openCycles = {1} /\ posts = {1} \X Question /\ Channel # {}
    /\ closedCycles = {} /\ deliveries = posts \X Channel \X {"sent"}
    /\ active = Channel
    /\ tx = [s \in Session |-> NoWrites]
    /\ run = [s \in Session |-> Idle]
    /\ shown = Channel \X posts /\ repeats = {}
    /\ starts = [s \in Session |-> 0]
    /\ crashes = 0

(* Presses of one user queue on the bot_users row that every update touches
   before its handler runs, so two manual batches never overlap. *)
TouchGranted(s) == s \in Manual => \A t \in Manual : run[t].pc = "idle"

(* A batch starts: a job past its pause and weekend gates, or a confirmed
   "Send now". *)
Begin(s) ==
    /\ run[s].pc = "idle" /\ starts[s] < MaxRuns /\ TouchGranted(s)
    /\ Proceed(s, [Idle EXCEPT !.pc = "channels", !.left = BatchSize])
    /\ starts' = [starts EXCEPT ![s] = @ + 1]
    /\ UNCHANGED <<db, tx, feed, crashes>>

(* The transaction ends without effect and the run is over. *)
Abort(s) ==
    /\ Write(s, NoWrites)
    /\ Proceed(s, Idle)
    /\ UNCHANGED <<db, feed, bounds>>

ListChannels(s) ==
    /\ run[s].pc = "channels" /\ ActiveSeen(s) # {}
    /\ Proceed(s, [run[s] EXCEPT !.pc = "cycle", !.todo = ActiveSeen(s)])
    /\ UNCHANGED <<db, tx, feed, bounds>>

(* NoChannelsError leaves send_batch.  A job lets it out of db.session(),
   which rolls back; the "Send now" handler returns and is committed. *)
JobFindsNoChannel(s) ==
    /\ run[s].pc = "channels" /\ ActiveSeen(s) = {} /\ s \notin Manual
    /\ Abort(s)

PressFindsNoChannel(s) ==
    /\ run[s].pc = "channels" /\ ActiveSeen(s) = {} /\ s \in Manual
    /\ Proceed(s, [run[s] EXCEPT !.pc = "commit"])
    /\ UNCHANGED <<db, tx, feed, bounds>>

(* get_open_cycle: the open cycle with the highest number. *)
FindOpenCycle(s) ==
    /\ run[s].pc = "cycle"
    /\ \/ /\ OpenSeen(s) = {}
          /\ Proceed(s, [run[s] EXCEPT !.pc = "number", !.tries = 1])
       \/ \E c \in OpenSeen(s) :
            /\ \A d \in OpenSeen(s) : d <= c
            /\ Proceed(s, [run[s] EXCEPT !.pc = "pick", !.cur = c, !.tries = 1])
    /\ UNCHANGED <<db, tx, feed, bounds>>

(* Mutant: numbers come from a counter that rollbacks do not turn back. *)
ReadHighest_Counter(s) ==
    /\ run[s].pc = "number"
    /\ LET taken == CyclesSeen(s) \cup UNION {tx[t].opened : t \in Session} IN
       \E h \in taken \cup {0} :
         /\ \A n \in taken : n <= h
         /\ Proceed(s, [run[s] EXCEPT !.pc = "open", !.cur = h + 1])
    /\ UNCHANGED <<db, tx, feed, bounds>>

(* open_next_cycle reads max(number) ... *)
ReadHighest(s) ==
    /\ run[s].pc = "number"
    /\ \E h \in CyclesSeen(s) \cup {0} :
         /\ \A n \in CyclesSeen(s) : n <= h
         /\ Proceed(s, [run[s] EXCEPT !.pc = "open", !.cur = h + 1])
    /\ UNCHANGED <<db, tx, feed, bounds>>

(* Mutant: a cycle's number is not unique: both sessions open the next. *)
OpenCycle_NotUnique(s) ==
    LET n == run[s].cur IN
    /\ run[s].pc = "open"
    /\ Write(s, [tx[s] EXCEPT !.opened = @ \cup {n}])
    /\ Proceed(s, [run[s] EXCEPT !.pc = IF run[s].tries <= ClaimAttempts THEN "pick"
                                                                        ELSE "commit"])
    /\ UNCHANGED <<db, feed, bounds>>

(* ... and inserts the row one above it.  After a rollover the claim goes
   round its loop again, which may have been the last attempt. *)
OpenCycle(s) ==
    LET n == run[s].cur IN
    /\ run[s].pc = "open" /\ Granted(s) /\ n \notin CyclesSeen(s)
    /\ Write(s, [tx[s] EXCEPT !.opened = @ \cup {n}, !.rows = @ \cup {CycleRow(n)}])
    /\ \/ /\ run[s].tries <= ClaimAttempts
          /\ Proceed(s, [run[s] EXCEPT !.pc = "pick"])
       \/ /\ run[s].tries > ClaimAttempts
          /\ Proceed(s, [run[s] EXCEPT !.pc = "commit"])
    /\ UNCHANGED <<db, feed, bounds>>

(* Another session committed that number meanwhile: UNIQUE(owner_id, number)
   fails inside flush(), which rolls the transaction back.  The job lets the
   error out of db.session(); the press's handler swallows it, and the commit
   its middleware then attempts is refused. *)
OpenCollides(s) ==
    /\ run[s].pc = "open" /\ Granted(s) /\ run[s].cur \in CyclesSeen(s)
    /\ Abort(s)

(* _pick_unused_question returned a question. *)
Pick(s) ==
    /\ run[s].pc = "pick"
    /\ \E q \in Unused(s) : Proceed(s, [run[s] EXCEPT !.pc = "insert", !.que = q])
    /\ UNCHANGED <<db, tx, feed, bounds>>

(* It returned None: roll over, unless this call already did.  In that case
   CycleExhaustedError is swallowed by send_batch and the run is committed. *)
PickNothing(s) ==
    /\ run[s].pc = "pick" /\ Unused(s) = {}
    /\ Proceed(s, [run[s] EXCEPT !.pc = IF run[s].rolled THEN "commit" ELSE "close"])
    /\ UNCHANGED <<db, tx, feed, bounds>>

(* Mutant: rolling over opens the next cycle without closing this one. *)
CloseCycle_Forgotten(s) ==
    /\ run[s].pc = "close" /\ Granted(s)
    /\ Proceed(s, [run[s] EXCEPT !.pc = "number", !.rolled = TRUE, !.tries = @ + 1])
    /\ UNCHANGED <<db, tx, feed, bounds>>

(* close_cycle: an UPDATE by primary key.  It waits for a transaction that is
   closing the same row and then writes completed_at again. *)
CloseCycle(s) ==
    LET c == run[s].cur IN
    /\ run[s].pc = "close" /\ Granted(s)
    /\ Write(s, [tx[s] EXCEPT !.shut = @ \cup {c}, !.rows = @ \cup {CycleRow(c)}])
    /\ Proceed(s, [run[s] EXCEPT !.pc = "number", !.rolled = TRUE, !.tries = @ + 1])
    /\ UNCHANGED <<db, feed, bounds>>

(* Mutant: the table has no unique constraint on (cycle_id, question_id). *)
InsertPost_NotUnique(s) ==
    LET p == CurrentPost(s) IN
    /\ run[s].pc = "insert"
    /\ Write(s, [tx[s] EXCEPT !.ins = @ \cup {p}])
    /\ Proceed(s, [run[s] EXCEPT !.pc = "send"])
    /\ UNCHANGED <<db, feed, bounds>>

(* The claim: INSERT INTO quiz_posts, waiting while another open transaction
   holds the same (cycle_id, question_id). *)
InsertPost(s) ==
    LET p == CurrentPost(s) IN
    /\ run[s].pc = "insert" /\ Granted(s) /\ p \notin Claims(s)
    /\ Write(s, [tx[s] EXCEPT !.ins = @ \cup {p}, !.rows = @ \cup {PostRow(p)}])
    /\ Proceed(s, [run[s] EXCEPT !.pc = "send"])
    /\ UNCHANGED <<db, feed, bounds>>

(* IntegrityError: the question was committed to this cycle meanwhile.  With a
   savepoint around the INSERT the loop picks again.  SQLAlchemy's
   begin_nested() flushes pending objects before it emits SAVEPOINT, so for
   the object added just above it the failed flush rolls the session's whole
   transaction back and the next statement raises PendingRollbackError. *)
InsertCollides(s) ==
    /\ run[s].pc = "insert" /\ Granted(s) /\ CurrentPost(s) \in Claims(s)
    /\ \/ ~SavepointIsolates /\ Abort(s)
       \/ /\ SavepointIsolates
          /\ Proceed(s, [run[s] EXCEPT
                            !.tries = @ + 1, !.que = NoQuestion,
                            !.pc = IF run[s].tries < ClaimAttempts THEN "pick" ELSE "commit"])
          /\ UNCHANGED <<db, tx, feed, bounds>>

(* The poll appears in the channel. *)
Appear(ch, p) ==
    /\ shown' = shown \cup {<<ch, p>>}
    /\ repeats' = repeats \cup ({<<ch, p>>} \cap shown)

(* _deliver to the next channel: create_pending, publish, mark_sent.  For a
   poll with a picture Telegram may have returned a file_id that is not the
   one in the question's row. *)
Publish(s) ==
    /\ run[s].pc = "send"
    /\ \E ch \in Channel, next \in {"send"} \cup (IF run[s].que \in Picture
                                                 THEN {"file_id"} ELSE {}) :
         /\ NextChannel(s, ch)
         /\ Appear(ch, CurrentPost(s))
         /\ Write(s, [tx[s] EXCEPT !.dlv = @ \cup {<<CurrentPost(s), ch, "sent">>}])
         /\ Proceed(s, [run[s] EXCEPT !.pc = next, !.todo = @ \ {ch}])
    /\ UNCHANGED <<db, bounds>>

(* set_file_id: an UPDATE of the question's row, which stays locked. *)
SetFileId(s) ==
    /\ run[s].pc = "file_id" /\ Granted(s)
    /\ Write(s, [tx[s] EXCEPT !.rows = @ \cup {QuestionRow(run[s].que)}])
    /\ Proceed(s, [run[s] EXCEPT !.pc = "send"])
    /\ UNCHANGED <<db, feed, bounds>>

(* The send raised, after its one retry if it was flood control; the FAILED
   delivery is written.  The channel row is written next, unless last_error
   already holds this reason.  A timed-out request may have been accepted. *)
Reject(s) ==
    /\ run[s].pc = "send"
    /\ \E ch \in Channel :
         /\ NextChannel(s, ch)
         /\ Write(s, [tx[s] EXCEPT !.dlv = @ \cup {<<CurrentPost(s), ch, "failed">>}])
         /\ \/ UNCHANGED feed /\ Proceed(s, [run[s] EXCEPT !.pc = "lost"])
            \/ /\ \/ UNCHANGED feed
                  \/ LateReplies /\ Appear(ch, CurrentPost(s))
               /\ \/ Proceed(s, [run[s] EXCEPT !.pc = "failed"])
                  \/ Proceed(s, [run[s] EXCEPT !.todo = @ \ {ch}])
    /\ UNCHANGED <<db, bounds>>

(* Mutant: a channel that failed is tried again until it works. *)
RecordFailure_Insists(s) ==
    /\ run[s].pc \in {"failed", "lost"} /\ Granted(s)
    /\ Proceed(s, [run[s] EXCEPT !.pc = "send"])
    /\ UNCHANGED <<db, tx, feed, bounds>>

(* mark_failed on the channel, and deactivate when access is gone. *)
RecordFailure(s) ==
    /\ run[s].pc \in {"failed", "lost"} /\ Granted(s)
    /\ \E ch \in Channel :
         /\ NextChannel(s, ch)
         /\ Write(s, [tx[s] EXCEPT
                         !.off = IF run[s].pc = "lost" THEN @ \cup {ch} ELSE @,
                         !.rows = @ \cup {ChannelRow(ch)}])
         /\ Proceed(s, [run[s] EXCEPT !.pc = "send", !.todo = @ \ {ch}])
    /\ UNCHANGED <<db, feed, bounds>>

Publishing(s) == run[s].pc \in {"send", "file_id", "failed", "lost"}
Reached(s) == \E ch \in Channel : <<CurrentPost(s), ch, "sent">> \in tx[s].dlv

(* Mutant: the batch counts one question too many. *)
NextQuestion_OneMore(s) ==
    Proceed(s, [Idle EXCEPT !.pc = IF run[s].left = 0 THEN "commit" ELSE "channels",
                            !.left = run[s].left - 1])

(* send_batch goes on to the next question, or is done. *)
NextQuestion(s) ==
    Proceed(s, [Idle EXCEPT !.pc = IF run[s].left = 1 THEN "commit" ELSE "channels",
                            !.left = run[s].left - 1])

(* Deleting the claim deletes its deliveries (ON DELETE CASCADE). *)
Release(s, p) ==
    Write(s, [tx[s] EXCEPT !.ins = @ \ {p}, !.dlv = {d \in @ : d[1] # p}])

(* Mutants: the deliveries stay; the claim stays; any failed channel releases
   it; the row is deleted by question, in whichever cycle it is. *)
Settle_NoCascade(s) ==
    /\ run[s].pc = "send" /\ run[s].todo = {}
    /\ tx' = IF Reached(s) THEN tx ELSE [tx EXCEPT ![s].ins = @ \ {CurrentPost(s)}]
    /\ NextQuestion(s) /\ UNCHANGED <<db, feed, bounds>>

Settle_KeepsClaim(s) ==
    /\ run[s].pc = "send" /\ run[s].todo = {}
    /\ NextQuestion(s) /\ UNCHANGED <<db, tx, feed, bounds>>

Settle_AnyFailure(s) ==
    /\ run[s].pc = "send" /\ run[s].todo = {}
    /\ IF \E d \in tx[s].dlv : d[1] = CurrentPost(s) /\ d[3] = "failed"
       THEN Release(s, CurrentPost(s)) ELSE UNCHANGED tx
    /\ NextQuestion(s) /\ UNCHANGED <<db, feed, bounds>>

Settle_ByQuestion(s) ==
    /\ run[s].pc = "send" /\ run[s].todo = {}
    /\ \/ Reached(s) /\ UNCHANGED <<tx, posts>>
       \/ /\ ~Reached(s)
          /\ Release(s, CurrentPost(s))
          /\ posts' = {p \in posts : p[2] # run[s].que}
    /\ NextQuestion(s)
    /\ UNCHANGED <<openCycles, closedCycles, deliveries, active, feed, bounds>>

(* Every channel tried: fully_failed releases the claim. *)
Settle(s) ==
    /\ run[s].pc = "send" /\ run[s].todo = {}
    /\ \/ Reached(s) /\ UNCHANGED tx
       \/ ~Reached(s) /\ Release(s, CurrentPost(s))
    /\ NextQuestion(s)
    /\ UNCHANGED <<db, feed, bounds>>

Commit(s) ==
    /\ run[s].pc = "commit"
    /\ posts' = posts \cup tx[s].ins
    /\ openCycles' = (openCycles \cup tx[s].opened) \ tx[s].shut
    /\ closedCycles' = closedCycles \cup tx[s].shut
    /\ deliveries' = deliveries \cup tx[s].dlv
    /\ active' = active \ tx[s].off
    /\ Write(s, NoWrites)
    /\ Proceed(s, Idle)
    /\ UNCHANGED <<feed, bounds>>

(* safe_edit passes a flood-control, network or other error on: the answer to a
   press failed, and DatabaseMiddleware rolls back what its batch recorded. *)
AnswerFails(s) == s \in Manual /\ AnswersFail /\ run[s].pc = "commit" /\ Abort(s)

(* PostgreSQL breaks a deadlock by failing one member's statement.  That is no
   IntegrityError: the whole run is rolled back. *)
DeadlockVictim(s) == Deadlocked(s) /\ Abort(s)

(* The process dies, or is stopped while batches run: every open transaction
   is gone.  The process then starts again. *)
Crash ==
    /\ crashes < MaxCrashes
    /\ \E s \in Session : run[s].pc # "idle"
    /\ crashes' = crashes + 1
    /\ tx' = [s \in Session |-> NoWrites]
    /\ run' = [s \in Session |-> Idle]
    /\ UNCHANGED <<db, feed, starts>>

(* All the runs the bound allows are over. *)
Quiescent ==
    /\ \A s \in Session : run[s].pc = "idle" /\ starts[s] = MaxRuns
    /\ UNCHANGED vars

Step(s) ==
    \/ ListChannels(s) \/ JobFindsNoChannel(s) \/ PressFindsNoChannel(s)
    \/ FindOpenCycle(s) \/ ReadHighest(s) \/ OpenCycle(s) \/ OpenCollides(s)
    \/ Pick(s) \/ PickNothing(s) \/ CloseCycle(s)
    \/ InsertPost(s) \/ InsertCollides(s)
    \/ Publish(s) \/ SetFileId(s) \/ Reject(s) \/ RecordFailure(s)
    \/ Settle(s) \/ Commit(s) \/ AnswerFails(s)

Next ==
    \/ \E s \in Session : Begin(s) \/ Step(s) \/ DeadlockVictim(s)
    \/ Crash
    \/ Quiescent

Spec == Init /\ [][Next]_vars

(* A started batch keeps being scheduled by the event loop, its Telegram calls
   end (bounded by the client's timeout), and PostgreSQL's deadlock detector
   runs.  Nothing makes a batch start or the process crash. *)
Fairness ==
    /\ \A s \in Session : WF_vars(Step(s))
    /\ WF_vars(\E s \in Session : DeadlockVictim(s))

FairSpec == Spec /\ Fairness

--------------------------------------------------------------------------------
TypeOK ==
    /\ posts \in SUBSET Post
    /\ openCycles \in SUBSET CycleNo
    /\ closedCycles \in SUBSET CycleNo
    /\ deliveries \in SUBSET Delivery
    /\ active \in SUBSET Channel
    /\ tx \in [Session -> Writes]
    /\ run \in [Session -> Locals]
    /\ shown \in SUBSET (Channel \X Post)
    /\ repeats \in SUBSET shown
    /\ starts \in [Session -> Nat]
    /\ crashes \in Nat

(* A cycle is closed only when every question has been used in it, whoever
   closed it and whatever the other sessions had claimed, released or rolled
   back meanwhile (claim_next_question's rollover). *)
CycleComplete ==
    \A c \in closedCycles, q \in Question : <<c, q>> \in posts

(* A claim that survives its transaction reached somebody: it is committed
   only with a SENT delivery.  A question no channel received is back in the
   pool (send_next's release). *)
ClaimReachedAudience ==
    \A p \in posts : \E ch \in Channel : <<p, ch, "sent">> \in deliveries

(* Deliveries never outlive or precede the claim they belong to, and each
   SENT row stands for a poll that is in the channel. *)
DeliveriesBacked ==
    \A d \in deliveries : d[1] \in posts /\ (d[3] = "sent" => <<d[2], d[1]>> \in shown)

(* Two sessions never hold the same question in the same cycle, and none
   holds one that is already committed: the promise of the unique constraint
   on (cycle_id, question_id) across waiting, collision and release. *)
ClaimsExclusive ==
    /\ \A s, t \in Session : s # t => tx[s].ins \cap tx[t].ins = {}
    /\ \A s \in Session : tx[s].ins \cap posts = {}

(* An owner's cycles are numbered 1, 2, 3, ... without a gap (open_next_cycle
   takes max + 1), also when sessions race to open one or roll back. *)
CyclesContiguous ==
    \A n \in openCycles \cup closedCycles :
        1..n \subseteq openCycles \cup closedCycles

(* completed_at is null "while the cycle is the active one": at most one
   committed cycle is open. *)
OneOpenCycle ==
    \A c, d \in openCycles : c = d

(* "A posted question is never re-served": the claim behind a poll that is
   standing in a channel is committed or still held by a running batch. *)
ShownStaysClaimed ==
    \A x \in shown : x[2] \in posts \/ \E s \in Session : x[2] \in tx[s].ins

(* Inside a cycle every question is posted at most once per channel. *)
NoRepeatInCycle == repeats = {}

(* Batches of one question lock rows in one order - cycles by number, the
   claim, channels by id - and never wait for each other in a circle.  Storing
   a file_id between two channels breaks this order: with three channels two
   batches with one illustrated question can. *)
NeverDeadlocked == \A s \in Session : ~Deadlocked(s)

(* Committed history only grows: no claim, closed cycle or delivery is taken
   back, no closed cycle reopens and no cycle disappears. *)
HistoryGrows ==
    [][ /\ posts \subseteq posts'
        /\ deliveries \subseteq deliveries'
        /\ closedCycles \subseteq closedCycles'
        /\ openCycles \subseteq openCycles' \cup closedCycles'
        /\ closedCycles' \cap openCycles' = {} ]_vars

(* "A failure part-way through leaves the earlier posts standing": a batch that
   ends without a crash commits the claims it still holds. *)
EarlierPostsStand ==
    [][ crashes' = crashes =>
          \A s \in Session : run'[s].pc = "idle" => tx[s].ins \subseteq posts' ]_vars

(* Every batch that starts ends. *)
BatchEnds ==
    \A s \in Session : run[s].pc # "idle" ~> run[s].pc = "idle"

--------------------------------------------------------------------------------
(* The inductive invariant: what each session may rely on between two of its
   statements, whatever the others do. *)

Claiming(s) == run[s].pc \in {"pick", "close", "insert"} \/ Publishing(s)

(* The locals a phase uses have been set by the phases before it. *)
LocalsSet(s) ==
    /\ run[s].pc \notin {"idle", "commit"} => run[s].left > 0
    /\ Claiming(s) => run[s].cur \in CyclesSeen(s) \ tx[s].shut
    /\ run[s].pc = "insert" \/ Publishing(s) => run[s].que \in Question
    /\ Publishing(s) => CurrentPost(s) \in tx[s].ins

(* Uncommitted rows are locked and not yet in the tables. *)
RowsHeld(s) ==
    /\ \A p \in tx[s].ins : PostRow(p) \in tx[s].rows /\ p \notin posts
    /\ \A n \in tx[s].opened :
          CycleRow(n) \in tx[s].rows /\ n \notin openCycles \cup closedCycles

(* A cycle s has closed, or is about to, is used up in the view of s. *)
ClosingComplete(s) ==
    /\ tx[s].shut \subseteq CyclesSeen(s)
    /\ \A c \in tx[s].shut, q \in Question : <<c, q>> \in Claims(s)
    /\ run[s].pc = "close" => Unused(s) = {}

(* The numbers s has opened, or is about to, continue those it sees. *)
NumbersContinue(s) ==
    /\ \A n \in tx[s].opened : 1..n \subseteq CyclesSeen(s)
    /\ run[s].pc = "open" => run[s].cur > 0 /\ 1..(run[s].cur - 1) \subseteq CyclesSeen(s)

(* Every claim s holds reached a channel, but for the one being published;
   its deliveries belong to claims it holds. *)
ClaimsAnswered(s) ==
    /\ \A p \in tx[s].ins :
          \/ \E ch \in Channel : <<p, ch, "sent">> \in tx[s].dlv
          \/ Publishing(s) /\ p = CurrentPost(s)
    /\ \A d \in tx[s].dlv :
          d[1] \in tx[s].ins /\ (d[3] = "sent" => <<d[2], d[1]>> \in shown)

SessionInv(s) ==
    LocalsSet(s) /\ RowsHeld(s) /\ ClosingComplete(s) /\ NumbersContinue(s) /\ ClaimsAnswered(s)

(* No row is locked by two transactions. *)
LocksExclusive ==
    \A s, t \in Session : s # t => tx[s].rows \cap tx[t].rows = {}

(* What the committed tables and the open transactions satisfy at every step:
   the strengthening under which the safety properties above are inductive. *)
IInv ==
    /\ TypeOK
    /\ LocksExclusive
    /\ \A s \in Session : SessionInv(s)
    /\ openCycles \cap closedCycles = {}
    /\ CycleComplete /\ CyclesContiguous
    /\ ClaimReachedAudience /\ DeliveriesBacked

(* A batch of one question holds only rows that come before the one it may want
   next: cycle rows in the order of their numbers, the claim's row, channel
   rows in the order they are tried.  The row of its question comes after a
   channel it reached. *)
LocksOrdered(s) ==
    LET pc == run[s].pc  rows == tx[s].rows IN
    /\ pc \in {"idle", "channels", "cycle"} => rows = {}
    /\ pc \in {"number", "open"} /\ ~run[s].rolled => rows = {}
    /\ pc = "number" => rows \subseteq {CycleRow(n) : n \in CyclesSeen(s)}
    /\ pc = "open" => rows \subseteq {CycleRow(n) : n \in 1..(run[s].cur - 1)}
    /\ pc \in {"pick", "close", "insert"} =>
          /\ \A r \in rows : r[1] = "cycles"
          /\ run[s].rolled \/ rows \subseteq {CycleRow(run[s].cur)}
    /\ pc = "close" => ~run[s].rolled
    /\ Publishing(s) =>
          /\ \A d \in Channel, ch \in run[s].todo : ChannelRow(d) \in rows => d < ch
          /\ \A q \in Question : QuestionRow(q) \in rows => q = run[s].que
    /\ pc = "file_id" \/ (Publishing(s) /\ QuestionRow(run[s].que) \in rows) =>
          /\ run[s].que \in Picture
          /\ \E c \in Channel : \A ch \in run[s].todo : c < ch
    /\ pc = "file_id" =>
          \E c \in Channel : \A d \in Channel : ChannelRow(d) \in rows => d < c

(* Its claim is made once and settled before anything can end the batch; the
   channels still to come have not seen the post. *)
ClaimInHand(s) ==
    /\ tx[s].ins # {} => Publishing(s) \/ run[s].pc = "commit"
    /\ Publishing(s) => \A ch \in run[s].todo : <<ch, CurrentPost(s)>> \notin shown

(* What stands in a channel was recorded by whoever holds the claim. *)
Recorded ==
    \A x \in shown :
        \/ x[2] \in posts
        \/ \E s \in Session : x[2] \in tx[s].ins /\ <<x[2], x[1], "sent">> \in tx[s].dlv

(* Why batches of one question never take a posted question back, short of a
   crash, of replies that come too late and of answers to a press that fail. *)
ShownInv ==
    /\ Recorded /\ NoRepeatInCycle
    /\ \A s \in Session : LocksOrdered(s) /\ ClaimInHand(s)
================================================================================
