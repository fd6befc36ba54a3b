--------------------------- MODULE QuizPostingProofs ---------------------------
(***************************************************************************)
(* Proofs about QuizPosting, for any sets of questions, channels and       *)
(* sessions, any batch size and attempt limit, and both readings of the    *)
(* library's savepoint.                                                    *)
(***************************************************************************)
EXTENDS QuizPosting, TLAPS

USE QuestionAssumption, PictureAssumption, ChannelAssumption, ManualAssumption, BatchAssumption,
    AttemptsAssumption, SwitchAssumption, BoundAssumption
    DEF Proceed, Write

--------------------------------------------------------------------------------
(* Types. *)

(* The idle locals and the empty transaction have their types. *)
LEMMA IdleTyped == Idle \in Locals /\ NoWrites \in Writes
  BY DEF Idle, Locals, Phase, NoWrites, Writes

(* The initial states are typed, also those whose first cycle is used up. *)
LEMMA InitTyped == ASSUME Init PROVE TypeOK
<1>1. 1 \in CycleNo
  BY DEF CycleNo
<1>2. posts \in SUBSET Post
  BY <1>1 DEF Init, Post
<1>3. deliveries \in SUBSET Delivery /\ shown \in SUBSET (Channel \X Post)
  BY <1>2 DEF Init, Delivery
<1>4. tx \in [Session -> Writes] /\ run \in [Session -> Locals]
  BY IdleTyped DEF Init
<1>5. openCycles \in SUBSET CycleNo /\ closedCycles \in SUBSET CycleNo
  BY <1>1 DEF Init
<1> QED BY <1>2, <1>3, <1>4, <1>5 DEF Init, TypeOK

(* What one session's step has to show about types: the tables do not change. *)
LEMMA StepTyped ==
  ASSUME TypeOK, NEW s \in Session, NEW w \in Writes, NEW l \in Locals,
         tx' = [tx EXCEPT ![s] = w], run' = [run EXCEPT ![s] = l],
         UNCHANGED <<db, bounds>>,
         shown' \in SUBSET (Channel \X Post), repeats' \in SUBSET shown'
  PROVE  TypeOK'
  BY DEF TypeOK, db, bounds

(* Sessions see cycles by number, and questions and channels that exist. *)
LEMMA SeenTyped ==
  ASSUME TypeOK, NEW s \in Session
  PROVE  /\ CyclesSeen(s) \subseteq CycleNo /\ OpenSeen(s) \subseteq CycleNo
         /\ Unused(s) \subseteq Question /\ ActiveSeen(s) \subseteq Channel
<1>1. tx[s].opened \subseteq CycleNo
  BY DEF TypeOK, Writes
<1> QED BY <1>1 DEF TypeOK, CyclesSeen, OpenSeen, Unused, ActiveSeen

--------------------------------------------------------------------------------
(* The frame: a step of one session that leaves the tables alone keeps what
   the others rely on. *)
LEMMA OthersKept ==
  ASSUME IInv, NEW s \in Session, NEW t \in Session, UNCHANGED <<db>>,
         tx'[t] = tx[t], run'[t] = run[t], shown \subseteq shown'
  PROVE  SessionInv(t)'
<1> USE DEF db, Claims, CyclesSeen, CurrentPost, Publishing, Claiming
<1>1. SessionInv(t)
  BY DEF IInv
<1>2. LocalsSet(t)'
  BY <1>1 DEF SessionInv, LocalsSet
<1>3. RowsHeld(t)'
  BY <1>1 DEF SessionInv, RowsHeld
<1>4. ClosingComplete(t)'
  BY <1>1 DEF SessionInv, ClosingComplete, Unused
<1>5. NumbersContinue(t)'
  BY <1>1 DEF SessionInv, NumbersContinue
<1>6. ClaimsAnswered(t)'
  BY <1>1 DEF SessionInv, ClaimsAnswered
<1> QED BY <1>2, <1>3, <1>4, <1>5, <1>6 DEF SessionInv

(* A step of one session that leaves the tables alone keeps the invariant
   when the session's own part holds again and its new rows were free. *)
LEMMA LocalStep ==
  ASSUME IInv, NEW s \in Session, NEW w \in Writes, NEW l \in Locals,
         tx' = [tx EXCEPT ![s] = w], run' = [run EXCEPT ![s] = l],
         UNCHANGED <<db, bounds>>,
         shown \subseteq shown', shown' \in SUBSET (Channel \X Post),
         repeats' \in SUBSET shown',
         SessionInv(s)',
         \A t \in Session \ {s} : w.rows \cap tx[t].rows = {}
  PROVE  IInv'
<1>0. TypeOK /\ LocksExclusive
  BY DEF IInv
<1>1. TypeOK'
  BY <1>0, StepTyped
<1>2. ASSUME NEW t \in Session PROVE SessionInv(t)'
  <2>1. CASE t = s
    BY <2>1
  <2>2. CASE t # s
    <3>1. tx'[t] = tx[t] /\ run'[t] = run[t]
      BY <2>2, <1>0 DEF TypeOK
    <3> QED BY <3>1, OthersKept
  <2> QED BY <2>1, <2>2
<1>3. tx'[s] = w /\ \A t \in Session \ {s} : tx'[t] = tx[t]
  BY <1>0 DEF TypeOK
<1>4. LocksExclusive'
  <2> SUFFICES ASSUME NEW a \in Session, NEW b \in Session, a # b
               PROVE  tx'[a].rows \cap tx'[b].rows = {}
    BY DEF LocksExclusive
  <2>1. CASE a = s
    BY <2>1, <1>3
  <2>2. CASE b = s
    BY <2>2, <1>3
  <2>3. CASE a # s /\ b # s
    BY <2>3, <1>0, <1>3 DEF LocksExclusive
  <2> QED BY <2>1, <2>2, <2>3
<1>5. /\ (openCycles \cap closedCycles = {})'
      /\ CycleComplete' /\ CyclesContiguous' /\ ClaimReachedAudience'
  BY DEF IInv, CycleComplete, CyclesContiguous, ClaimReachedAudience, db
<1>6. DeliveriesBacked'
  BY DEF IInv, DeliveriesBacked, db
<1> QED BY <1>1, <1>2, <1>4, <1>5, <1>6 DEF IInv

(* The same for a step that writes nothing: only the locals change. *)
LEMMA QuietStep ==
  ASSUME IInv, NEW s \in Session, NEW l \in Locals,
         run' = [run EXCEPT ![s] = l], UNCHANGED <<db, tx, feed, bounds>>,
         SessionInv(s)'
  PROVE  IInv'
<1>1. TypeOK /\ LocksExclusive
  BY DEF IInv
<1>2. tx[s] \in Writes /\ tx' = [tx EXCEPT ![s] = tx[s]]
  BY <1>1 DEF TypeOK
<1>3. /\ shown \subseteq shown' /\ shown' \in SUBSET (Channel \X Post)
      /\ repeats' \in SUBSET shown'
  BY <1>1 DEF TypeOK, feed
<1>4. \A t \in Session \ {s} : tx[s].rows \cap tx[t].rows = {}
  BY <1>1 DEF LocksExclusive
<1>5. UNCHANGED <<db, bounds>>
  BY DEF db, bounds
<1> QED BY <1>2, <1>3, <1>4, <1>5, LocalStep

(* A session whose transaction is gone relies on nothing. *)
LEMMA ResetHolds ==
  ASSUME NEW s \in Session, tx'[s] = NoWrites, run'[s] = Idle
  PROVE  SessionInv(s)'
<1> USE DEF NoWrites, Idle, Publishing, Claiming
<1>1. LocalsSet(s)'
  BY DEF LocalsSet
<1>2. RowsHeld(s)'
  BY DEF RowsHeld
<1>3. ClosingComplete(s)'
  BY DEF ClosingComplete
<1>4. NumbersContinue(s)'
  BY DEF NumbersContinue
<1>5. ClaimsAnswered(s)'
  BY DEF ClaimsAnswered
<1> QED BY <1>1, <1>2, <1>3, <1>4, <1>5 DEF SessionInv

(* A rollback keeps the invariant: the session relies on nothing any more. *)
LEMMA AbortInv == ASSUME IInv, NEW s \in Session, Abort(s) PROVE IInv'
<1>1. TypeOK
  BY DEF IInv
<1>2. SessionInv(s)'
  <2>1. tx'[s] = NoWrites /\ run'[s] = Idle
    BY <1>1 DEF Abort, TypeOK
  <2> QED BY <2>1, ResetHolds
<1>3. /\ shown \subseteq shown' /\ shown' \in SUBSET (Channel \X Post)
      /\ repeats' \in SUBSET shown'
  BY <1>1 DEF TypeOK, feed, Abort
<1>4. NoWrites.rows = {}
  BY DEF NoWrites
<1>5. UNCHANGED <<db, bounds>>
  BY DEF Abort, db, bounds
<1>6. tx' = [tx EXCEPT ![s] = NoWrites] /\ run' = [run EXCEPT ![s] = Idle]
  BY DEF Abort
<1> QED BY <1>2, <1>3, <1>4, <1>5, <1>6, IdleTyped, LocalStep

--------------------------------------------------------------------------------
(* The steps before the claim write nothing.  What is left to show for them is
   that the locals of the new phase are set. *)
LEMMA QuietInv ==
  ASSUME IInv, NEW s \in Session, NEW l \in Locals,
         run' = [run EXCEPT ![s] = l], UNCHANGED <<db, tx, feed, bounds>>,
         ~Publishing(s), LocalsSet(s)',
         l.pc = "close" => \A q \in Question : <<l.cur, q>> \in Claims(s),
         l.pc = "open" => l.cur > 0 /\ 1..(l.cur - 1) \subseteq CyclesSeen(s)
  PROVE  IInv'
<1>1. TypeOK /\ SessionInv(s)
  BY DEF IInv
<1>2. tx'[s] = tx[s] /\ run'[s] = l
  BY <1>1 DEF TypeOK
<1> USE DEF db, feed, Claims, CyclesSeen
<1>3. RowsHeld(s)'
  BY <1>1, <1>2 DEF SessionInv, RowsHeld
<1>4. ClosingComplete(s)'
  BY <1>1, <1>2 DEF SessionInv, ClosingComplete, Unused
<1>5. NumbersContinue(s)'
  BY <1>1, <1>2 DEF SessionInv, NumbersContinue
<1>6. ClaimsAnswered(s)'
  BY <1>1, <1>2 DEF SessionInv, ClaimsAnswered
<1>7. SessionInv(s)'
  BY <1>3, <1>4, <1>5, <1>6 DEF SessionInv
<1> QED BY <1>7, QuietStep

(* A batch that starts has a question to send and nothing written. *)
LEMMA BeginInv == ASSUME IInv, NEW s \in Session, Begin(s) PROVE IInv'
<1> DEFINE l == [Idle EXCEPT !.pc = "channels", !.left = BatchSize]
<1>1. TypeOK /\ SessionInv(s)
  BY DEF IInv
<1>2. l \in Locals
  <2>1. BatchSize \in 0..BatchSize
    OBVIOUS
  <2> QED BY <2>1, IdleTyped DEF Locals, Phase
<1>3. TypeOK'
  <2>1. starts' \in [Session -> Nat]
    BY <1>1 DEF Begin, TypeOK
  <2>2. run' \in [Session -> Locals]
    BY <1>1, <1>2 DEF Begin, TypeOK
  <2> QED BY <1>1, <2>1, <2>2 DEF Begin, TypeOK, db, feed
<1>4. /\ tx' = tx /\ run'[s] = l /\ UNCHANGED <<db, shown>>
      /\ \A t \in Session \ {s} : run'[t] = run[t]
  BY <1>1 DEF Begin, TypeOK, feed
<1>5. l.pc = "channels" /\ l.left = BatchSize
  BY DEF Idle
<1>6. SessionInv(s)'
  <2> USE DEF db, Claims, CyclesSeen, Publishing, Claiming
  <2> HIDE DEF l
  <2>1. LocalsSet(s)'
    BY <1>4, <1>5 DEF LocalsSet
  <2>2. RowsHeld(s)'
    BY <1>1, <1>4 DEF SessionInv, RowsHeld
  <2>3. ClosingComplete(s)'
    BY <1>1, <1>4, <1>5 DEF SessionInv, ClosingComplete
  <2>4. NumbersContinue(s)'
    BY <1>1, <1>4, <1>5 DEF SessionInv, NumbersContinue
  <2>5. run[s].pc = "idle"
    BY DEF Begin
  <2>6. ClaimsAnswered(s)'
    BY <1>1, <1>4, <2>5 DEF SessionInv, ClaimsAnswered
  <2> QED BY <2>1, <2>2, <2>3, <2>4, <2>6 DEF SessionInv
<1>7. ASSUME NEW t \in Session PROVE SessionInv(t)'
  BY <1>4, <1>6, OthersKept
<1>8. LocksExclusive'
  BY <1>4 DEF IInv, LocksExclusive
<1>9. /\ (openCycles \cap closedCycles = {})'
      /\ CycleComplete' /\ CyclesContiguous' /\ ClaimReachedAudience' /\ DeliveriesBacked'
  BY <1>4 DEF IInv, CycleComplete, CyclesContiguous, ClaimReachedAudience,
              DeliveriesBacked, db
<1> QED BY <1>3, <1>7, <1>8, <1>9 DEF IInv

(* send_next's first read changes only where the session is. *)
LEMMA ListChannelsInv == ASSUME IInv, NEW s \in Session, ListChannels(s) PROVE IInv'
<1> DEFINE l == [run[s] EXCEPT !.pc = "cycle", !.todo = ActiveSeen(s)]
<1>1. TypeOK /\ SessionInv(s) /\ run[s] \in Locals
  BY DEF IInv, TypeOK
<1>2. l \in Locals
  BY <1>1, SeenTyped DEF Locals, Phase
<1>3. run'[s] = l /\ l.pc = "cycle" /\ l.left = run[s].left
  BY <1>1 DEF ListChannels, TypeOK, Locals
<1>4. LocalsSet(s)'
  BY <1>1, <1>3 DEF SessionInv, LocalsSet, ListChannels, Publishing, Claiming
<1>5. ~Publishing(s)
  BY DEF ListChannels, Publishing
<1>6. l.pc # "close" /\ l.pc # "open"
  BY <1>3
<1>7. run' = [run EXCEPT ![s] = l] /\ UNCHANGED <<db, tx, feed, bounds>>
  BY DEF ListChannels
<1> HIDE DEF l
<1> QED BY <1>2, <1>4, <1>5, <1>6, <1>7, QuietInv

(* A press without channels goes to its commit with what it has written. *)
LEMMA PressFindsNoChannelInv ==
  ASSUME IInv, NEW s \in Session, PressFindsNoChannel(s) PROVE IInv'
<1> DEFINE l == [run[s] EXCEPT !.pc = "commit"]
<1>1. TypeOK /\ SessionInv(s) /\ run[s] \in Locals
  BY DEF IInv, TypeOK
<1>2. l \in Locals
  BY <1>1 DEF Locals, Phase
<1>3. run'[s] = l /\ l.pc = "commit"
  BY <1>1 DEF PressFindsNoChannel, TypeOK, Locals
<1>4. LocalsSet(s)'
  BY <1>3 DEF LocalsSet, Publishing, Claiming
<1>5. ~Publishing(s)
  BY DEF PressFindsNoChannel, Publishing
<1>6. l.pc # "close" /\ l.pc # "open"
  BY <1>3
<1>7. run' = [run EXCEPT ![s] = l] /\ UNCHANGED <<db, tx, feed, bounds>>
  BY DEF PressFindsNoChannel
<1> HIDE DEF l
<1> QED BY <1>2, <1>4, <1>5, <1>6, <1>7, QuietInv

(* The open cycle found is one the session sees and has not closed. *)
LEMMA FindOpenCycleInv == ASSUME IInv, NEW s \in Session, FindOpenCycle(s) PROVE IInv'
<1>1. TypeOK /\ SessionInv(s) /\ run[s] \in Locals
  BY DEF IInv, TypeOK
<1>2. ~Publishing(s) /\ run[s].left > 0
  BY <1>1 DEF FindOpenCycle, Publishing, SessionInv, LocalsSet
<1>3. CASE run' = [run EXCEPT ![s] = [run[s] EXCEPT !.pc = "number", !.tries = 1]]
  <2> DEFINE l == [run[s] EXCEPT !.pc = "number", !.tries = 1]
  <2>1. l \in Locals
    BY <1>1 DEF Locals, Phase
  <2>2. run'[s] = l /\ l.pc = "number" /\ l.left = run[s].left
    BY <1>1, <1>3 DEF TypeOK, Locals
  <2>3. LocalsSet(s)'
    BY <1>2, <2>2 DEF LocalsSet, Publishing, Claiming
  <2>4. l.pc # "close" /\ l.pc # "open"
    BY <2>2
  <2>5. run' = [run EXCEPT ![s] = l] /\ UNCHANGED <<db, tx, feed, bounds>>
    BY <1>3 DEF FindOpenCycle
  <2> HIDE DEF l
  <2> QED BY <1>2, <2>1, <2>3, <2>4, <2>5, QuietInv
<1>4. ASSUME NEW c \in OpenSeen(s),
             run' = [run EXCEPT ![s] = [run[s] EXCEPT !.pc = "pick", !.cur = c, !.tries = 1]]
      PROVE  IInv'
  <2> DEFINE l == [run[s] EXCEPT !.pc = "pick", !.cur = c, !.tries = 1]
  <2>1. c \in CycleNo /\ c \in CyclesSeen(s) \ tx[s].shut
    BY <1>1, SeenTyped DEF OpenSeen, CyclesSeen
  <2>2. l \in Locals
    BY <1>1, <2>1 DEF Locals, Phase, CycleNo
  <2>3. run'[s] = l /\ l.pc = "pick" /\ l.left = run[s].left /\ l.cur = c
    BY <1>1, <1>4 DEF TypeOK, Locals
  <2>4. UNCHANGED <<db, tx, feed, bounds>>
    BY DEF FindOpenCycle
  <2>5. LocalsSet(s)'
    BY <1>2, <2>1, <2>3, <2>4 DEF LocalsSet, Publishing, Claiming, CyclesSeen, db
  <2>6. l.pc # "close" /\ l.pc # "open"
    BY <2>3
  <2>7. run' = [run EXCEPT ![s] = l]
    BY <1>4
  <2> HIDE DEF l
  <2> QED BY <1>2, <2>2, <2>4, <2>5, <2>6, <2>7, QuietInv
<1> QED BY <1>3, <1>4 DEF FindOpenCycle

(* The number to open follows every number the session sees. *)
LEMMA ReadHighestInv == ASSUME IInv, NEW s \in Session, ReadHighest(s) PROVE IInv'
<1>1. TypeOK /\ SessionInv(s) /\ run[s] \in Locals
  BY DEF IInv, TypeOK
<1>2. PICK h \in CyclesSeen(s) \cup {0} :
        run' = [run EXCEPT ![s] = [run[s] EXCEPT !.pc = "open", !.cur = h + 1]]
  BY DEF ReadHighest
<1> DEFINE l == [run[s] EXCEPT !.pc = "open", !.cur = h + 1]
<1>3. h \in Nat /\ h + 1 \in Nat
  BY <1>1, SeenTyped DEF CycleNo
<1>4. l \in Locals
  BY <1>1, <1>3 DEF Locals, Phase
<1>5. run'[s] = l /\ l.pc = "open" /\ l.left = run[s].left /\ l.cur = h + 1
  BY <1>1, <1>2 DEF TypeOK, Locals
<1>6. ~Publishing(s) /\ run[s].left > 0
  BY <1>1 DEF ReadHighest, Publishing, SessionInv, LocalsSet
<1>7. LocalsSet(s)'
  BY <1>5, <1>6 DEF LocalsSet, Publishing, Claiming
<1>8. 1..h \subseteq CyclesSeen(s)
  <2>1. CASE h = 0
    BY <2>1
  <2>2. CASE h \in openCycles \cup closedCycles
    BY <2>2 DEF IInv, CyclesContiguous, CyclesSeen
  <2>3. CASE h \in tx[s].opened
    BY <1>1, <2>3 DEF SessionInv, NumbersContinue
  <2> QED BY <2>1, <2>2, <2>3 DEF CyclesSeen
<1>9. l.pc # "close" /\ l.cur > 0 /\ 1..(l.cur - 1) \subseteq CyclesSeen(s)
  <2>1. (h + 1) - 1 = h /\ h + 1 > 0
    BY <1>3
  <2>2. l.cur - 1 = h /\ l.cur > 0
    BY <1>5, <2>1
  <2> HIDE DEF l
  <2> QED BY <1>5, <1>8, <2>2
<1>10. run' = [run EXCEPT ![s] = l] /\ UNCHANGED <<db, tx, feed, bounds>>
  BY <1>2 DEF ReadHighest
<1> HIDE DEF l
<1> QED BY <1>4, <1>6, <1>7, <1>9, <1>10, QuietInv

(* The question picked exists. *)
LEMMA PickInv == ASSUME IInv, NEW s \in Session, Pick(s) PROVE IInv'
<1>1. TypeOK /\ SessionInv(s) /\ run[s] \in Locals
  BY DEF IInv, TypeOK
<1>2. PICK q \in Unused(s) :
        run' = [run EXCEPT ![s] = [run[s] EXCEPT !.pc = "insert", !.que = q]]
  BY DEF Pick
<1> DEFINE l == [run[s] EXCEPT !.pc = "insert", !.que = q]
<1>3. q \in Question
  BY <1>1, SeenTyped
<1>4. l \in Locals
  BY <1>1, <1>3 DEF Locals, Phase
<1>5. /\ run'[s] = l /\ l.pc = "insert" /\ l.left = run[s].left
      /\ l.cur = run[s].cur /\ l.que = q
  BY <1>1, <1>2 DEF TypeOK, Locals
<1>6. UNCHANGED <<db, tx, feed, bounds>>
  BY DEF Pick
<1>7. ~Publishing(s) /\ run[s].left > 0 /\ run[s].cur \in CyclesSeen(s) \ tx[s].shut
  BY <1>1 DEF Pick, Publishing, Claiming, SessionInv, LocalsSet
<1>8. LocalsSet(s)'
  BY <1>3, <1>5, <1>6, <1>7 DEF LocalsSet, Publishing, Claiming, CyclesSeen, db
<1>9. l.pc # "close" /\ l.pc # "open"
  BY <1>5
<1>10. run' = [run EXCEPT ![s] = l]
  BY <1>2
<1> HIDE DEF l
<1> QED BY <1>4, <1>6, <1>7, <1>8, <1>9, <1>10, QuietInv

(* A cycle about to be closed is used up in the session's view. *)
LEMMA PickNothingInv == ASSUME IInv, NEW s \in Session, PickNothing(s) PROVE IInv'
<1> DEFINE l == [run[s] EXCEPT !.pc = IF run[s].rolled THEN "commit" ELSE "close"]
<1>1. TypeOK /\ SessionInv(s) /\ run[s] \in Locals
  BY DEF IInv, TypeOK
<1>2. l \in Locals
  BY <1>1 DEF Locals, Phase
<1>3. /\ run'[s] = l /\ l.pc \in {"commit", "close"} /\ l.left = run[s].left
      /\ l.cur = run[s].cur
  BY <1>1 DEF PickNothing, TypeOK, Locals
<1>4. UNCHANGED <<db, tx, feed, bounds>>
  BY DEF PickNothing
<1>5. ~Publishing(s) /\ run[s].left > 0 /\ run[s].cur \in CyclesSeen(s) \ tx[s].shut
  BY <1>1 DEF PickNothing, Publishing, Claiming, SessionInv, LocalsSet
<1>6. LocalsSet(s)'
  BY <1>3, <1>4, <1>5 DEF LocalsSet, Publishing, Claiming, CyclesSeen, db
<1>7. \A q \in Question : <<l.cur, q>> \in Claims(s)
  BY <1>3 DEF PickNothing, Unused
<1>8. l.pc # "open"
  BY <1>3
<1>9. run' = [run EXCEPT ![s] = l]
  BY DEF PickNothing
<1> HIDE DEF l
<1> QED BY <1>2, <1>4, <1>5, <1>6, <1>7, <1>8, <1>9, QuietInv

--------------------------------------------------------------------------------
(* The steps that write.  Each locks the row it writes first, so no other open
   transaction holds it. *)
LEMMA RowsTyped ==
  /\ \A n \in CycleNo : CycleRow(n) \in Row
  /\ \A p \in Post : PostRow(p) \in Row
  /\ \A ch \in Channel : ChannelRow(ch) \in Row
  /\ \A q \in Question : QuestionRow(q) \in Row
  BY DEF Row, CycleRow, PostRow, ChannelRow, QuestionRow

(* A granted row is in no other transaction's locks. *)
LEMMA GrantedFree ==
  ASSUME NEW s \in Session, Granted(s), NEW r \in Wanted(s), NEW t \in Session \ {s}
  PROVE  r \notin tx[t].rows
  BY DEF Granted, Holders

(* What LocalStep asks of a writing step that publishes nothing and locks only
   what it was granted. *)
LEMMA WriteStep ==
  ASSUME IInv, NEW s \in Session, NEW w \in Writes, NEW l \in Locals,
         tx' = [tx EXCEPT ![s] = w], run' = [run EXCEPT ![s] = l],
         UNCHANGED <<db, feed, bounds>>, SessionInv(s)',
         Granted(s), w.rows \subseteq tx[s].rows \cup Wanted(s)
  PROVE  IInv'
<1>1. TypeOK /\ LocksExclusive
  BY DEF IInv
<1>2. /\ shown \subseteq shown' /\ shown' \in SUBSET (Channel \X Post)
      /\ repeats' \in SUBSET shown'
  BY <1>1 DEF TypeOK, feed
<1>3. ASSUME NEW t \in Session \ {s} PROVE w.rows \cap tx[t].rows = {}
  <2>1. tx[s].rows \cap tx[t].rows = {}
    BY <1>1 DEF LocksExclusive
  <2>2. Wanted(s) \cap tx[t].rows = {}
    BY GrantedFree
  <2> QED BY <2>1, <2>2
<1>4. UNCHANGED <<db, bounds>>
  BY DEF db, bounds
<1> QED BY <1>2, <1>3, <1>4, LocalStep

(* The cycle inserted is new to every table and transaction, and contiguous. *)
LEMMA OpenCycleInv == ASSUME IInv, NEW s \in Session, OpenCycle(s) PROVE IInv'
<1> DEFINE n == run[s].cur
           w == [tx[s] EXCEPT !.opened = @ \cup {n}, !.rows = @ \cup {CycleRow(n)}]
           l == [run[s] EXCEPT !.pc = IF run[s].tries <= ClaimAttempts
                                        THEN "pick" ELSE "commit"]
<1>1. TypeOK /\ SessionInv(s) /\ run[s] \in Locals /\ tx[s] \in Writes
  BY DEF IInv, TypeOK
<1>2. /\ run[s].pc = "open" /\ Granted(s) /\ n \notin CyclesSeen(s)
      /\ tx' = [tx EXCEPT ![s] = w] /\ UNCHANGED <<db, feed, bounds>>
  BY DEF OpenCycle
<1>3. run' = [run EXCEPT ![s] = l]
  BY <1>1 DEF OpenCycle, Locals
<1>4. n \in CycleNo /\ 1..(n - 1) \subseteq CyclesSeen(s) /\ run[s].left > 0
  BY <1>1, <1>2 DEF SessionInv, NumbersContinue, LocalsSet, Locals, CycleNo
<1>5. w \in Writes
  BY <1>1, <1>4, RowsTyped DEF Writes
<1>6. l \in Locals
  BY <1>1 DEF Locals, Phase
<1>7. /\ tx'[s] = w /\ w.ins = tx[s].ins /\ w.opened = tx[s].opened \cup {n}
      /\ w.shut = tx[s].shut /\ w.dlv = tx[s].dlv
      /\ w.rows = tx[s].rows \cup {CycleRow(n)}
  BY <1>1, <1>2 DEF TypeOK, Writes
<1>8. /\ run'[s] = l /\ l.pc \in {"pick", "commit"} /\ l.left = run[s].left
      /\ l.cur = n
  BY <1>1, <1>3 DEF TypeOK, Locals
<1>9. w.rows \subseteq tx[s].rows \cup Wanted(s)
  BY <1>2, <1>7 DEF Wanted
<1>10. n \notin tx[s].shut
  BY <1>1, <1>2 DEF SessionInv, ClosingComplete
<1>11. SessionInv(s)'
  <2> HIDE DEF w, l, n
  <2> USE DEF db, feed, CyclesSeen, Claims
  <2>1. LocalsSet(s)'
    BY <1>4, <1>7, <1>8, <1>10 DEF LocalsSet, Publishing, Claiming
  <2>2. RowsHeld(s)'
    BY <1>1, <1>2, <1>7 DEF SessionInv, RowsHeld
  <2>3. ClosingComplete(s)'
    BY <1>1, <1>2, <1>7, <1>8 DEF SessionInv, ClosingComplete
  <2>4. NumbersContinue(s)'
    <3>1. 1..n \subseteq CyclesSeen(s)'
      <4>1. 1..n \subseteq (1..(n - 1)) \cup {n}
        BY <1>4 DEF CycleNo
      <4> QED BY <4>1, <1>2, <1>4, <1>7
    <3> QED BY <3>1, <1>1, <1>2, <1>7, <1>8 DEF SessionInv, NumbersContinue
  <2>5. ~Publishing(s)
    BY <1>2 DEF Publishing
  <2>6. ClaimsAnswered(s)'
    BY <1>1, <1>2, <1>7, <2>5 DEF SessionInv, ClaimsAnswered
  <2> QED BY <2>1, <2>2, <2>3, <2>4, <2>6 DEF SessionInv
<1> HIDE DEF w, l
<1> QED BY <1>2, <1>3, <1>5, <1>6, <1>9, <1>11, WriteStep

(* Closing a cycle that is used up in the session's view keeps it so. *)
LEMMA CloseCycleInv == ASSUME IInv, NEW s \in Session, CloseCycle(s) PROVE IInv'
<1> DEFINE c == run[s].cur
           w == [tx[s] EXCEPT !.shut = @ \cup {c}, !.rows = @ \cup {CycleRow(c)}]
           l == [run[s] EXCEPT !.pc = "number", !.rolled = TRUE, !.tries = @ + 1]
<1>1. TypeOK /\ SessionInv(s) /\ run[s] \in Locals /\ tx[s] \in Writes
  BY DEF IInv, TypeOK
<1>2. /\ run[s].pc = "close" /\ Granted(s) /\ tx' = [tx EXCEPT ![s] = w]
      /\ run' = [run EXCEPT ![s] = l] /\ UNCHANGED <<db, feed, bounds>>
  BY DEF CloseCycle
<1>3. /\ run[s].left > 0 /\ c \in CyclesSeen(s)
      /\ \A q \in Question : <<c, q>> \in Claims(s)
  BY <1>1, <1>2 DEF SessionInv, LocalsSet, Claiming, ClosingComplete, Unused
<1>4. c \in CycleNo
  BY <1>1, <1>3, SeenTyped
<1>5. w \in Writes
  BY <1>1, <1>4, RowsTyped DEF Writes
<1>6. l \in Locals
  <2>1. run[s].tries + 1 \in Nat
    BY <1>1 DEF Locals
  <2> QED BY <1>1, <2>1 DEF Locals, Phase
<1>7. /\ tx'[s] = w /\ w.ins = tx[s].ins /\ w.opened = tx[s].opened
      /\ w.shut = tx[s].shut \cup {c} /\ w.dlv = tx[s].dlv
      /\ w.rows = tx[s].rows \cup {CycleRow(c)}
  BY <1>1, <1>2 DEF TypeOK, Writes
<1>8. run'[s] = l /\ l.pc = "number" /\ l.left = run[s].left
  BY <1>1, <1>2 DEF TypeOK, Locals
<1>9. w.rows \subseteq tx[s].rows \cup Wanted(s)
  BY <1>2, <1>7 DEF Wanted
<1>10. SessionInv(s)'
  <2> HIDE DEF w, l, c
  <2> USE DEF db, feed, CyclesSeen, Claims
  <2>1. LocalsSet(s)'
    BY <1>3, <1>8 DEF LocalsSet, Publishing, Claiming
  <2>2. RowsHeld(s)'
    BY <1>1, <1>2, <1>7 DEF SessionInv, RowsHeld
  <2>3. ClosingComplete(s)'
    BY <1>1, <1>2, <1>3, <1>7, <1>8 DEF SessionInv, ClosingComplete
  <2>4. NumbersContinue(s)'
    BY <1>1, <1>2, <1>7, <1>8 DEF SessionInv, NumbersContinue
  <2>5. ~Publishing(s)
    BY <1>2 DEF Publishing
  <2>6. ClaimsAnswered(s)'
    BY <1>1, <1>2, <1>7, <2>5 DEF SessionInv, ClaimsAnswered
  <2> QED BY <2>1, <2>2, <2>3, <2>4, <2>6 DEF SessionInv
<1> HIDE DEF w, l
<1> QED BY <1>2, <1>5, <1>6, <1>9, <1>10, WriteStep

(* A claim is inserted only when no other transaction and no table has it. *)
LEMMA InsertPostInv == ASSUME IInv, NEW s \in Session, InsertPost(s) PROVE IInv'
<1> DEFINE p == CurrentPost(s)
           w == [tx[s] EXCEPT !.ins = @ \cup {p}, !.rows = @ \cup {PostRow(p)}]
           l == [run[s] EXCEPT !.pc = "send"]
<1>1. TypeOK /\ SessionInv(s) /\ run[s] \in Locals /\ tx[s] \in Writes
  BY DEF IInv, TypeOK
<1>2. /\ run[s].pc = "insert" /\ Granted(s) /\ p \notin Claims(s)
      /\ tx' = [tx EXCEPT ![s] = w] /\ run' = [run EXCEPT ![s] = l]
      /\ UNCHANGED <<db, feed, bounds>>
  BY DEF InsertPost
<1>3. /\ run[s].left > 0 /\ run[s].cur \in CyclesSeen(s) \ tx[s].shut
      /\ run[s].que \in Question
  BY <1>1, <1>2 DEF SessionInv, LocalsSet, Claiming
<1>4. p \in Post
  BY <1>1, <1>3, SeenTyped DEF CurrentPost, Post
<1>5. w \in Writes
  BY <1>1, <1>4, RowsTyped DEF Writes
<1>6. l \in Locals
  BY <1>1 DEF Locals, Phase
<1>7. /\ tx'[s] = w /\ w.ins = tx[s].ins \cup {p} /\ w.opened = tx[s].opened
      /\ w.shut = tx[s].shut /\ w.dlv = tx[s].dlv
      /\ w.rows = tx[s].rows \cup {PostRow(p)}
  BY <1>1, <1>2 DEF TypeOK, Writes
<1>8. /\ run'[s] = l /\ l.pc = "send" /\ l.left = run[s].left
      /\ l.cur = run[s].cur /\ l.que = run[s].que
  BY <1>1, <1>2 DEF TypeOK, Locals
<1>9. w.rows \subseteq tx[s].rows \cup Wanted(s)
  BY <1>2, <1>7 DEF Wanted
<1>10. CurrentPost(s)' = p /\ p \notin posts
  BY <1>2, <1>8 DEF CurrentPost, Claims
<1>11. SessionInv(s)'
  <2> HIDE DEF w, l, p
  <2> USE DEF db, feed, CyclesSeen, Claims
  <2>1. LocalsSet(s)'
    BY <1>2, <1>3, <1>7, <1>8, <1>10 DEF LocalsSet, Publishing, Claiming
  <2>2. RowsHeld(s)'
    BY <1>1, <1>2, <1>7, <1>10 DEF SessionInv, RowsHeld
  <2>3. ClosingComplete(s)'
    BY <1>1, <1>2, <1>7, <1>8 DEF SessionInv, ClosingComplete
  <2>4. NumbersContinue(s)'
    BY <1>1, <1>2, <1>7, <1>8 DEF SessionInv, NumbersContinue
  <2>5. ~Publishing(s) /\ Publishing(s)'
    BY <1>2, <1>8 DEF Publishing
  <2>6. ClaimsAnswered(s)'
    BY <1>1, <1>2, <1>7, <1>10, <2>5 DEF SessionInv, ClaimsAnswered
  <2> QED BY <2>1, <2>2, <2>3, <2>4, <2>6 DEF SessionInv
<1> HIDE DEF w, l
<1> QED BY <1>2, <1>5, <1>6, <1>9, <1>11, WriteStep

(* A collision either rolls back or goes back to the pick. *)
LEMMA InsertCollidesInv ==
  ASSUME IInv, NEW s \in Session, InsertCollides(s) PROVE IInv'
<1>1. CASE Abort(s)
  BY <1>1, AbortInv
<1>2. CASE ~Abort(s)
  <2> DEFINE l == [run[s] EXCEPT !.tries = @ + 1, !.que = NoQuestion,
                     !.pc = IF run[s].tries < ClaimAttempts THEN "pick" ELSE "commit"]
  <2>1. TypeOK /\ SessionInv(s) /\ run[s] \in Locals
    BY DEF IInv, TypeOK
  <2>2. run[s].pc = "insert" /\ run' = [run EXCEPT ![s] = l]
        /\ UNCHANGED <<db, tx, feed, bounds>>
    BY <1>2 DEF InsertCollides
  <2>3. l \in Locals
    <3>1. run[s].tries + 1 \in Nat
      BY <2>1 DEF Locals
    <3> QED BY <2>1, <3>1 DEF Locals, Phase
  <2>4. /\ run'[s] = l /\ l.pc \in {"pick", "commit"} /\ l.left = run[s].left
        /\ l.cur = run[s].cur
    BY <2>1, <2>2 DEF TypeOK, Locals
  <2>5. ~Publishing(s) /\ run[s].left > 0 /\ run[s].cur \in CyclesSeen(s) \ tx[s].shut
    BY <2>1, <2>2 DEF Publishing, Claiming, SessionInv, LocalsSet
  <2>6. l.pc # "close" /\ l.pc # "open"
    BY <2>4
  <2> HIDE DEF l
  <2>7. LocalsSet(s)'
    BY <2>2, <2>4, <2>5 DEF LocalsSet, Publishing, Claiming, CyclesSeen, db
  <2> QED BY <2>2, <2>3, <2>5, <2>6, <2>7, QuietInv
<1> QED BY <1>1, <1>2

(* One channel's outcome: a delivery of the current post is written, and the
   poll may have appeared in that channel. *)
LEMMA SendStep ==
  ASSUME IInv, NEW s \in Session, NEW ch \in Channel, NEW st \in {"sent", "failed"},
         NEW l \in Locals, Publishing(s),
         Write(s, [tx[s] EXCEPT !.dlv = @ \cup {<<CurrentPost(s), ch, st>>}]),
         Proceed(s, l), l.pc \in {"send", "file_id", "failed", "lost"},
         l.left = run[s].left, l.cur = run[s].cur, l.que = run[s].que,
         UNCHANGED <<db, bounds>>,
         \/ UNCHANGED feed /\ st = "failed"
         \/ Appear(ch, CurrentPost(s))
  PROVE  IInv'
<1> DEFINE p == CurrentPost(s)
           d == <<p, ch, st>>
           w == [tx[s] EXCEPT !.dlv = @ \cup {d}]
<1>1. TypeOK /\ SessionInv(s) /\ run[s] \in Locals /\ tx[s] \in Writes
  BY DEF IInv, TypeOK
<1>2. p \in tx[s].ins /\ p \in Post
  BY <1>1 DEF SessionInv, LocalsSet, Writes
<1>3. w \in Writes
  BY <1>1, <1>2 DEF Writes, Delivery
<1>4. tx' = [tx EXCEPT ![s] = w] /\ run' = [run EXCEPT ![s] = l]
  OBVIOUS
<1>5. /\ tx'[s] = w /\ w.ins = tx[s].ins /\ w.opened = tx[s].opened
      /\ w.shut = tx[s].shut /\ w.dlv = tx[s].dlv \cup {d} /\ w.rows = tx[s].rows
  BY <1>1, <1>4 DEF TypeOK, Writes
<1>6. run'[s] = l
  BY <1>1, <1>4 DEF TypeOK
<1>7. CurrentPost(s)' = p /\ Publishing(s)'
  BY <1>6 DEF CurrentPost, Publishing
<1>8. /\ shown \subseteq shown' /\ shown' \in SUBSET (Channel \X Post)
      /\ repeats' \in SUBSET shown' /\ (st = "sent" => <<ch, p>> \in shown')
  BY <1>1, <1>2 DEF TypeOK, Appear, feed
<1>9. \A t \in Session \ {s} : w.rows \cap tx[t].rows = {}
  BY <1>5 DEF IInv, LocksExclusive
<1>10. SessionInv(s)'
  <2> HIDE DEF w, p, d
  <2> USE DEF db, CyclesSeen, Claims
  <2>1. LocalsSet(s)'
    BY <1>1, <1>2, <1>5, <1>6, <1>7 DEF SessionInv, LocalsSet, Publishing, Claiming
  <2>2. RowsHeld(s)'
    BY <1>1, <1>5 DEF SessionInv, RowsHeld
  <2>3. ClosingComplete(s)'
    BY <1>1, <1>5, <1>6 DEF SessionInv, ClosingComplete
  <2>4. NumbersContinue(s)'
    BY <1>1, <1>5, <1>6 DEF SessionInv, NumbersContinue
  <2>5. ASSUME NEW x \in tx[s].ins
        PROVE  \/ \E c \in Channel : <<x, c, "sent">> \in w.dlv
               \/ x = p
    BY <1>1, <1>5 DEF SessionInv, ClaimsAnswered, p
  <2>6. ASSUME NEW e \in w.dlv
        PROVE  e[1] \in tx[s].ins /\ (e[3] = "sent" => <<e[2], e[1]>> \in shown')
    BY <1>1, <1>2, <1>5, <1>8 DEF SessionInv, ClaimsAnswered, d
  <2>7. ClaimsAnswered(s)'
    BY <1>5, <1>7, <2>5, <2>6 DEF ClaimsAnswered
  <2> QED BY <2>1, <2>2, <2>3, <2>4, <2>7 DEF SessionInv
<1> HIDE DEF w
<1> QED BY <1>3, <1>4, <1>8, <1>9, <1>10, LocalStep

(* A poll published is recorded as sent, and stands in the channel. *)
LEMMA PublishInv == ASSUME IInv, NEW s \in Session, Publish(s) PROVE IInv'
<1>1. run[s] \in Locals
  BY DEF IInv, TypeOK
<1>2. PICK ch \in Channel, next \in {"send", "file_id"} :
        /\ Appear(ch, CurrentPost(s))
        /\ Write(s, [tx[s] EXCEPT !.dlv = @ \cup {<<CurrentPost(s), ch, "sent">>}])
        /\ Proceed(s, [run[s] EXCEPT !.pc = next, !.todo = @ \ {ch}])
  <2> HIDE DEF Proceed, Write
  <2> QED BY DEF Publish
<1> DEFINE l == [run[s] EXCEPT !.pc = next, !.todo = @ \ {ch}]
<1>3. l \in Locals
  BY <1>1 DEF Locals, Phase
<1>4. /\ l.pc \in {"send", "file_id"} /\ l.left = run[s].left /\ l.cur = run[s].cur
      /\ l.que = run[s].que
  BY <1>1 DEF Locals
<1>5. Publishing(s) /\ UNCHANGED <<db, bounds>>
  BY DEF Publish, Publishing
<1>6. Proceed(s, l)
  BY <1>2
<1> HIDE DEF l
<1> QED BY <1>2, <1>3, <1>4, <1>5, <1>6, SendStep

(* Storing a file_id locks the question's row and touches no claim. *)
LEMMA SetFileIdInv == ASSUME IInv, NEW s \in Session, SetFileId(s) PROVE IInv'
<1>1. TypeOK /\ SessionInv(s) /\ run[s] \in Locals /\ tx[s] \in Writes
  BY DEF IInv, TypeOK
<1> DEFINE w == [tx[s] EXCEPT !.rows = @ \cup {QuestionRow(run[s].que)}]
           l == [run[s] EXCEPT !.pc = "send"]
<1>2. /\ run[s].pc = "file_id" /\ Granted(s) /\ Publishing(s)
      /\ tx' = [tx EXCEPT ![s] = w] /\ run' = [run EXCEPT ![s] = l]
      /\ UNCHANGED <<db, feed, bounds>>
  BY DEF SetFileId, Publishing
<1>3. run[s].que \in Question
  BY <1>1, <1>2 DEF SessionInv, LocalsSet
<1>4. w \in Writes /\ l \in Locals
  BY <1>1, <1>3, RowsTyped DEF Writes, Locals, Phase
<1>5. /\ tx'[s] = w /\ w.ins = tx[s].ins /\ w.opened = tx[s].opened
      /\ w.shut = tx[s].shut /\ w.dlv = tx[s].dlv
      /\ w.rows = tx[s].rows \cup {QuestionRow(run[s].que)}
  BY <1>1, <1>2 DEF TypeOK, Writes
<1>6. /\ run'[s] = l /\ l.pc = "send" /\ l.left = run[s].left
      /\ l.cur = run[s].cur /\ l.que = run[s].que
  BY <1>1, <1>2 DEF TypeOK, Locals
<1>7. w.rows \subseteq tx[s].rows \cup Wanted(s)
  BY <1>2, <1>5 DEF Wanted
<1>8. SessionInv(s)'
  <2> HIDE DEF w, l
  <2> USE DEF db, feed, CyclesSeen, Claims
  <2>1. CurrentPost(s)' = CurrentPost(s) /\ Publishing(s)'
    BY <1>6 DEF CurrentPost, Publishing
  <2>2. LocalsSet(s)'
    BY <1>1, <1>2, <1>5, <1>6, <2>1 DEF SessionInv, LocalsSet, Publishing, Claiming
  <2>3. RowsHeld(s)'
    BY <1>1, <1>2, <1>5 DEF SessionInv, RowsHeld
  <2>4. ClosingComplete(s)'
    BY <1>1, <1>2, <1>5, <1>6 DEF SessionInv, ClosingComplete
  <2>5. NumbersContinue(s)'
    BY <1>1, <1>2, <1>5, <1>6 DEF SessionInv, NumbersContinue
  <2>6. ClaimsAnswered(s)'
    BY <1>1, <1>2, <1>5, <2>1 DEF SessionInv, ClaimsAnswered
  <2> QED BY <2>2, <2>3, <2>4, <2>5, <2>6 DEF SessionInv
<1> HIDE DEF w, l
<1> QED BY <1>2, <1>4, <1>7, <1>8, WriteStep

(* A rejected send is recorded as failed, also when the poll had appeared. *)
LEMMA RejectInv == ASSUME IInv, NEW s \in Session, Reject(s) PROVE IInv'
<1>1. run[s] \in Locals
  BY DEF IInv, TypeOK
<1>2. PICK ch \in Channel :
        /\ Write(s, [tx[s] EXCEPT !.dlv = @ \cup {<<CurrentPost(s), ch, "failed">>}])
        /\ UNCHANGED feed \/ Appear(ch, CurrentPost(s))
        /\ \/ Proceed(s, [run[s] EXCEPT !.pc = "lost"])
           \/ Proceed(s, [run[s] EXCEPT !.pc = "failed"])
           \/ Proceed(s, [run[s] EXCEPT !.todo = @ \ {ch}])
  BY DEF Reject
<1>3. run[s].pc = "send" /\ Publishing(s) /\ UNCHANGED <<db, bounds>>
  BY DEF Reject, Publishing
<1>4. PICK l \in Locals :
        /\ Proceed(s, l) /\ l.pc \in {"send", "failed", "lost"}
        /\ l.left = run[s].left /\ l.cur = run[s].cur /\ l.que = run[s].que
  <2> DEFINE l1 == [run[s] EXCEPT !.pc = "lost"]
             l2 == [run[s] EXCEPT !.pc = "failed"]
             l3 == [run[s] EXCEPT !.todo = @ \ {ch}]
  <2>1. l1 \in Locals /\ l2 \in Locals /\ l3 \in Locals
    BY <1>1 DEF Locals, Phase
  <2>2. /\ l1.pc = "lost" /\ l2.pc = "failed" /\ l3.pc = "send"
        /\ l1.left = run[s].left /\ l1.cur = run[s].cur /\ l1.que = run[s].que
        /\ l2.left = run[s].left /\ l2.cur = run[s].cur /\ l2.que = run[s].que
        /\ l3.left = run[s].left /\ l3.cur = run[s].cur /\ l3.que = run[s].que
    BY <1>1, <1>3 DEF Locals
  <2>3. Proceed(s, l1) \/ Proceed(s, l2) \/ Proceed(s, l3)
    BY <1>2
  <2> HIDE DEF l1, l2, l3, Proceed
  <2> QED BY <2>1, <2>2, <2>3
<1> QED BY <1>2, <1>3, <1>4, SendStep

(* Deactivating a channel touches no claim. *)
LEMMA RecordFailureInv ==
  ASSUME IInv, NEW s \in Session, RecordFailure(s) PROVE IInv'
<1>1. TypeOK /\ SessionInv(s) /\ run[s] \in Locals /\ tx[s] \in Writes
  BY DEF IInv, TypeOK
<1>2. PICK ch \in Channel :
        /\ NextChannel(s, ch)
        /\ Write(s, [tx[s] EXCEPT
                       !.off = IF run[s].pc = "lost" THEN @ \cup {ch} ELSE @,
                       !.rows = @ \cup {ChannelRow(ch)}])
        /\ Proceed(s, [run[s] EXCEPT !.pc = "send", !.todo = @ \ {ch}])
  BY DEF RecordFailure
<1> DEFINE w == [tx[s] EXCEPT !.off = IF run[s].pc = "lost" THEN @ \cup {ch} ELSE @,
                              !.rows = @ \cup {ChannelRow(ch)}]
           l == [run[s] EXCEPT !.pc = "send", !.todo = @ \ {ch}]
<1>3. /\ run[s].pc \in {"failed", "lost"} /\ Granted(s) /\ Publishing(s)
      /\ UNCHANGED <<db, feed, bounds>>
  BY DEF RecordFailure, Publishing
<1>4. tx' = [tx EXCEPT ![s] = w] /\ run' = [run EXCEPT ![s] = l]
  BY <1>2
<1>5. w \in Writes
  BY <1>1, RowsTyped DEF Writes
<1>6. l \in Locals
  BY <1>1 DEF Locals, Phase
<1>7. /\ tx'[s] = w /\ w.ins = tx[s].ins /\ w.opened = tx[s].opened
      /\ w.shut = tx[s].shut /\ w.dlv = tx[s].dlv
      /\ w.rows = tx[s].rows \cup {ChannelRow(ch)}
  BY <1>1, <1>4 DEF TypeOK, Writes
<1>8. /\ run'[s] = l /\ l.pc = "send" /\ l.left = run[s].left
      /\ l.cur = run[s].cur /\ l.que = run[s].que
  BY <1>1, <1>4 DEF TypeOK, Locals
<1>9. w.rows \subseteq tx[s].rows \cup Wanted(s)
  <2>1. ChannelRow(ch) \in Wanted(s)
    BY <1>2, <1>3 DEF Wanted
  <2> QED BY <1>7, <2>1
<1>10. SessionInv(s)'
  <2> HIDE DEF w, l
  <2> USE DEF db, feed, CyclesSeen, Claims
  <2>1. CurrentPost(s)' = CurrentPost(s) /\ Publishing(s)'
    BY <1>8 DEF CurrentPost, Publishing
  <2>2. LocalsSet(s)'
    BY <1>1, <1>3, <1>7, <1>8, <2>1 DEF SessionInv, LocalsSet, Publishing, Claiming
  <2>3. RowsHeld(s)'
    BY <1>1, <1>3, <1>7 DEF SessionInv, RowsHeld
  <2>4. ClosingComplete(s)'
    BY <1>1, <1>3, <1>7, <1>8 DEF SessionInv, ClosingComplete
  <2>5. NumbersContinue(s)'
    BY <1>1, <1>3, <1>7, <1>8 DEF SessionInv, NumbersContinue
  <2>6. ClaimsAnswered(s)'
    BY <1>1, <1>3, <1>7, <2>1 DEF SessionInv, ClaimsAnswered
  <2> QED BY <2>2, <2>3, <2>4, <2>5, <2>6 DEF SessionInv
<1> HIDE DEF w, l
<1> QED BY <1>3, <1>4, <1>5, <1>6, <1>9, <1>10, WriteStep

(* A claim nobody received leaves with its deliveries; what stays is answered. *)
LEMMA SettleInv == ASSUME IInv, NEW s \in Session, Settle(s) PROVE IInv'
<1> DEFINE p == CurrentPost(s)
           v == [tx[s] EXCEPT !.ins = @ \ {p}, !.dlv = {d \in @ : d[1] # p}]
           w == IF Reached(s) THEN tx[s] ELSE v
           l == [Idle EXCEPT !.pc = IF run[s].left = 1 THEN "commit" ELSE "channels",
                             !.left = run[s].left - 1]
<1>1. TypeOK /\ SessionInv(s) /\ run[s] \in Locals /\ tx[s] \in Writes
  BY DEF IInv, TypeOK
<1>2. /\ run[s].pc = "send" /\ Publishing(s) /\ UNCHANGED <<db, feed, bounds>>
      /\ run' = [run EXCEPT ![s] = l]
  BY DEF Settle, NextQuestion, Publishing
<1>3. tx' = [tx EXCEPT ![s] = w]
  BY <1>1 DEF Settle, Release, TypeOK
<1>4. /\ p \in tx[s].ins /\ run[s].cur \notin tx[s].shut
      /\ run[s].left \in 1..BatchSize /\ run[s].left - 1 \in 0..BatchSize
  BY <1>1, <1>2 DEF SessionInv, LocalsSet, Claiming, Locals
<1>5. v \in Writes
  BY <1>1 DEF Writes
<1>6. w \in Writes
  BY <1>1, <1>5
<1>7. l \in Locals
  BY <1>4, IdleTyped DEF Locals, Phase
<1>8. /\ v.ins = tx[s].ins \ {p} /\ v.opened = tx[s].opened /\ v.shut = tx[s].shut
      /\ v.dlv = {d \in tx[s].dlv : d[1] # p} /\ v.rows = tx[s].rows
  BY <1>1 DEF Writes
<1>9. /\ l.pc = IF run[s].left = 1 THEN "commit" ELSE "channels"
      /\ l.left = run[s].left - 1
  BY IdleTyped DEF Locals
<1> HIDE DEF v, l
<1>10. /\ tx'[s] = w /\ w.opened = tx[s].opened /\ w.shut = tx[s].shut
       /\ w.rows = tx[s].rows /\ tx[s].ins \ {p} \subseteq w.ins
       /\ w.ins \subseteq tx[s].ins
  BY <1>1, <1>3, <1>8 DEF TypeOK
<1>11. run'[s] = l /\ ~Publishing(s)'
  BY <1>1, <1>2, <1>9 DEF TypeOK, Publishing
<1>12. Granted(s)
  BY <1>2 DEF Granted, Holders, Wanted
<1>13. \A x \in w.ins : \E c \in Channel : <<x, c, "sent">> \in w.dlv
  <2> SUFFICES ASSUME NEW x \in w.ins
               PROVE  \E c \in Channel : <<x, c, "sent">> \in w.dlv
    OBVIOUS
  <2>1. CASE Reached(s)
    BY <1>1, <2>1 DEF SessionInv, ClaimsAnswered, Reached
  <2>2. CASE ~Reached(s)
    <3>1. x \in tx[s].ins /\ x # p
      BY <1>8, <2>2
    <3>2. PICK c \in Channel : <<x, c, "sent">> \in tx[s].dlv
      BY <1>1, <3>1 DEF SessionInv, ClaimsAnswered
    <3> QED BY <1>8, <2>2, <3>1, <3>2
  <2> QED BY <2>1, <2>2
<1>14. \A d \in w.dlv : d \in tx[s].dlv /\ d[1] \in w.ins
  BY <1>1, <1>8 DEF SessionInv, ClaimsAnswered
<1>15. SessionInv(s)'
  <2> HIDE DEF w, p
  <2> USE DEF db, feed, CyclesSeen, Claims
  <2>1. LocalsSet(s)'
    BY <1>4, <1>9, <1>11 DEF LocalsSet, Publishing, Claiming
  <2>2. RowsHeld(s)'
    BY <1>1, <1>2, <1>10 DEF SessionInv, RowsHeld
  <2>3. \A c \in tx[s].shut, q \in Question : <<c, q>> # p
    BY <1>4 DEF p, CurrentPost
  <2>4. ClosingComplete(s)'
    BY <1>1, <1>2, <1>9, <1>10, <1>11, <2>3 DEF SessionInv, ClosingComplete
  <2>5. NumbersContinue(s)'
    BY <1>1, <1>2, <1>9, <1>10, <1>11 DEF SessionInv, NumbersContinue
  <2>6. ClaimsAnswered(s)'
    BY <1>1, <1>2, <1>10, <1>13, <1>14 DEF SessionInv, ClaimsAnswered
  <2> QED BY <2>1, <2>2, <2>4, <2>5, <2>6 DEF SessionInv
<1> QED BY <1>2, <1>3, <1>6, <1>7, <1>10, <1>12, <1>15, WriteStep

--------------------------------------------------------------------------------
(* The two steps that reach further: a commit changes the tables under every
   other session, a crash ends all of them. *)

(* The tables a commit produces have their types. *)
LEMMA CommitTyped == ASSUME TypeOK, NEW s \in Session, Commit(s) PROVE TypeOK'
<1>1. tx[s] \in Writes
  BY DEF TypeOK
<1>2. tx' \in [Session -> Writes] /\ run' \in [Session -> Locals]
  BY IdleTyped DEF TypeOK, Commit
<1>3. /\ posts' \in SUBSET Post /\ openCycles' \in SUBSET CycleNo
      /\ deliveries' \in SUBSET Delivery /\ active' \in SUBSET Channel
  BY <1>1 DEF TypeOK, Commit, Writes
<1>4. closedCycles' \in SUBSET CycleNo
  BY <1>1 DEF TypeOK, Commit, Writes
<1> QED BY <1>2, <1>3, <1>4 DEF TypeOK, Commit, feed, bounds

(* What other sessions rely on survives the growth of the tables: they hold
   other rows, and what they have seen stays. *)
LEMMA CommitOthers ==
  ASSUME IInv, NEW s \in Session, Commit(s), NEW t \in Session, t # s
  PROVE  SessionInv(t)'
<1>1. TypeOK /\ SessionInv(t) /\ SessionInv(s) /\ LocksExclusive
  BY DEF IInv
<1>2. tx'[t] = tx[t] /\ run'[t] = run[t] /\ shown' = shown
  BY <1>1 DEF Commit, TypeOK, feed
<1>3. /\ posts' = posts \cup tx[s].ins /\ closedCycles' = closedCycles \cup tx[s].shut
      /\ openCycles' \cup closedCycles' = openCycles \cup closedCycles
                                            \cup tx[s].opened \cup tx[s].shut
      /\ tx[s].shut \subseteq CyclesSeen(s)
  BY <1>1 DEF Commit, SessionInv, ClosingComplete
<1>4. openCycles' \cup closedCycles' = openCycles \cup closedCycles \cup tx[s].opened
  BY <1>3 DEF CyclesSeen
<1>5. CyclesSeen(t) \subseteq CyclesSeen(t)' /\ Claims(t) \subseteq Claims(t)'
  BY <1>2, <1>3, <1>4 DEF CyclesSeen, Claims
<1>6. tx[s].rows \cap tx[t].rows = {}
  BY <1>1 DEF LocksExclusive
<1>7. tx[s].ins \cap tx[t].ins = {} /\ tx[s].opened \cap tx[t].opened = {}
  BY <1>1, <1>6 DEF SessionInv, RowsHeld
<1>8. CurrentPost(t)' = CurrentPost(t) /\ (Publishing(t)' <=> Publishing(t))
  BY <1>2 DEF CurrentPost, Publishing
<1>9. LocalsSet(t)'
  BY <1>1, <1>2, <1>5, <1>8 DEF SessionInv, LocalsSet, Claiming
<1>10. RowsHeld(t)'
  BY <1>1, <1>2, <1>3, <1>4, <1>7 DEF SessionInv, RowsHeld
<1>11. ClosingComplete(t)'
  BY <1>1, <1>2, <1>5 DEF SessionInv, ClosingComplete, Unused
<1>12. NumbersContinue(t)'
  BY <1>1, <1>2, <1>5 DEF SessionInv, NumbersContinue
<1>13. ClaimsAnswered(t)'
  BY <1>1, <1>2, <1>8 DEF SessionInv, ClaimsAnswered
<1> QED BY <1>9, <1>10, <1>11, <1>12, <1>13 DEF SessionInv

(* The table properties pass from the committing session's view to the tables. *)
LEMMA CommitTables ==
  ASSUME IInv, NEW s \in Session, Commit(s)
  PROVE  /\ (openCycles \cap closedCycles = {})'
         /\ CycleComplete' /\ CyclesContiguous' /\ ClaimReachedAudience'
         /\ DeliveriesBacked'
<1>1. TypeOK /\ SessionInv(s) /\ run[s].pc = "commit"
  BY DEF IInv, Commit
<1>2. /\ posts' = Claims(s) /\ closedCycles' = closedCycles \cup tx[s].shut
      /\ openCycles' = (openCycles \cup tx[s].opened) \ tx[s].shut
      /\ deliveries' = deliveries \cup tx[s].dlv /\ shown' = shown
  BY DEF Commit, Claims, feed
<1>3. openCycles' \cup closedCycles' = CyclesSeen(s)
  BY <1>1, <1>2 DEF SessionInv, ClosingComplete, CyclesSeen
<1>4. (openCycles \cap closedCycles = {})'
  BY <1>1, <1>2 DEF IInv, SessionInv, RowsHeld
<1>5. CycleComplete'
  BY <1>1, <1>2 DEF IInv, CycleComplete, SessionInv, ClosingComplete, Claims
<1>6. CyclesContiguous'
  <2> SUFFICES ASSUME NEW n \in CyclesSeen(s) PROVE 1..n \subseteq CyclesSeen(s)
    BY <1>3 DEF CyclesContiguous
  <2>1. CASE n \in openCycles \cup closedCycles
    BY <2>1 DEF IInv, CyclesContiguous, CyclesSeen
  <2>2. CASE n \in tx[s].opened
    BY <1>1, <2>2 DEF SessionInv, NumbersContinue
  <2> QED BY <2>1, <2>2 DEF CyclesSeen
<1>7. ClaimReachedAudience'
  BY <1>1, <1>2 DEF IInv, ClaimReachedAudience, SessionInv, ClaimsAnswered,
                    Publishing, Claims
<1>8. DeliveriesBacked'
  BY <1>1, <1>2 DEF IInv, DeliveriesBacked, SessionInv, ClaimsAnswered, Claims
<1> QED BY <1>4, <1>5, <1>6, <1>7, <1>8

(* A commit keeps the invariant. *)
LEMMA CommitInv == ASSUME IInv, NEW s \in Session, Commit(s) PROVE IInv'
<1>1. TypeOK /\ LocksExclusive
  BY DEF IInv
<1>2. /\ tx'[s] = NoWrites /\ run'[s] = Idle
      /\ \A t \in Session \ {s} : tx'[t] = tx[t]
  BY <1>1 DEF Commit, TypeOK
<1>3. ASSUME NEW t \in Session PROVE SessionInv(t)'
  BY <1>2, ResetHolds, CommitOthers
<1>4. LocksExclusive'
  <2> SUFFICES ASSUME NEW a \in Session, NEW b \in Session, a # b
               PROVE  tx'[a].rows \cap tx'[b].rows = {}
    BY DEF LocksExclusive
  <2>1. CASE a = s \/ b = s
    BY <1>2, <2>1 DEF NoWrites
  <2>2. CASE a # s /\ b # s
    BY <1>1, <1>2, <2>2 DEF LocksExclusive
  <2> QED BY <2>1, <2>2
<1>5. TypeOK'
  BY <1>1, CommitTyped
<1> QED BY <1>3, <1>4, <1>5, CommitTables DEF IInv

(* After a crash no session holds or relies on anything. *)
LEMMA CrashInv == ASSUME IInv, Crash PROVE IInv'
<1>1. TypeOK'
  BY IdleTyped DEF IInv, TypeOK, Crash, db, feed
<1>2. \A t \in Session : tx'[t] = NoWrites /\ run'[t] = Idle
  BY DEF Crash
<1>3. ASSUME NEW t \in Session PROVE SessionInv(t)'
  BY <1>2, ResetHolds
<1>4. LocksExclusive'
  BY <1>2 DEF LocksExclusive, NoWrites
<1>5. /\ (openCycles \cap closedCycles = {})'
      /\ CycleComplete' /\ CyclesContiguous' /\ ClaimReachedAudience'
  BY DEF IInv, CycleComplete, CyclesContiguous, ClaimReachedAudience, Crash, db
<1>6. DeliveriesBacked'
  BY DEF IInv, DeliveriesBacked, Crash, db, feed
<1> QED BY <1>1, <1>3, <1>4, <1>5, <1>6 DEF IInv

--------------------------------------------------------------------------------
(* The theorems. *)

(* Every step of a batch keeps the invariant. *)
LEMMA StepInv == ASSUME IInv, NEW s \in Session, Step(s) PROVE IInv'
<1>1. CASE ListChannels(s)
  BY <1>1, ListChannelsInv
<1>2. CASE JobFindsNoChannel(s)
  BY <1>2, AbortInv DEF JobFindsNoChannel
<1>3. CASE PressFindsNoChannel(s)
  BY <1>3, PressFindsNoChannelInv
<1>4. CASE FindOpenCycle(s)
  BY <1>4, FindOpenCycleInv
<1>5. CASE ReadHighest(s)
  BY <1>5, ReadHighestInv
<1>6. CASE OpenCycle(s)
  BY <1>6, OpenCycleInv
<1>7. CASE OpenCollides(s)
  BY <1>7, AbortInv DEF OpenCollides
<1>8. CASE Pick(s)
  BY <1>8, PickInv
<1>9. CASE PickNothing(s)
  BY <1>9, PickNothingInv
<1>10. CASE CloseCycle(s)
  BY <1>10, CloseCycleInv
<1>11. CASE InsertPost(s)
  BY <1>11, InsertPostInv
<1>12. CASE InsertCollides(s)
  BY <1>12, InsertCollidesInv
<1>13. CASE Publish(s)
  BY <1>13, PublishInv
<1>14. CASE Reject(s)
  BY <1>14, RejectInv
<1>15. CASE RecordFailure(s)
  BY <1>15, RecordFailureInv
<1>16. CASE Settle(s)
  BY <1>16, SettleInv
<1>17. CASE Commit(s)
  BY <1>17, CommitInv
<1>18. CASE SetFileId(s)
  BY <1>18, SetFileIdInv
<1>19. CASE AnswerFails(s)
  BY <1>19, AbortInv DEF AnswerFails
<1> QED BY <1>1, <1>2, <1>3, <1>4, <1>5, <1>6, <1>7, <1>8, <1>9, <1>10, <1>11,
           <1>12, <1>13, <1>14, <1>15, <1>16, <1>17, <1>18, <1>19 DEF Step

(* So does stuttering. *)
LEMMA StutterInv == ASSUME IInv, UNCHANGED vars PROVE IInv'
<1> USE DEF vars, db, feed, bounds
<1>1. TypeOK'
  BY DEF IInv, TypeOK
<1>2. ASSUME NEW t \in Session PROVE SessionInv(t)'
  BY OthersKept
<1>3. LocksExclusive'
  BY DEF IInv, LocksExclusive
<1>4. /\ (openCycles \cap closedCycles = {})'
      /\ CycleComplete' /\ CyclesContiguous' /\ ClaimReachedAudience'
  BY DEF IInv, CycleComplete, CyclesContiguous, ClaimReachedAudience
<1>5. DeliveriesBacked'
  BY DEF IInv, DeliveriesBacked
<1> QED BY <1>1, <1>2, <1>3, <1>4, <1>5 DEF IInv

(* The initial states satisfy the inductive invariant. *)
LEMMA InitInv == ASSUME Init PROVE IInv
<1>1. TypeOK
  BY InitTyped
<1>2. ASSUME NEW t \in Session PROVE SessionInv(t)
  <2>1. tx[t] = NoWrites /\ run[t] = Idle
    BY DEF Init
  <2> USE DEF NoWrites, Idle, Publishing, Claiming
  <2>2. LocalsSet(t) /\ RowsHeld(t)
    BY <2>1 DEF LocalsSet, RowsHeld
  <2>3. ClosingComplete(t) /\ NumbersContinue(t)
    BY <2>1 DEF ClosingComplete, NumbersContinue
  <2>4. ClaimsAnswered(t)
    BY <2>1 DEF ClaimsAnswered
  <2> QED BY <2>2, <2>3, <2>4 DEF SessionInv
<1>3. LocksExclusive
  BY DEF Init, LocksExclusive, NoWrites
<1>4. openCycles \cap closedCycles = {} /\ CycleComplete /\ CyclesContiguous
  BY DEF Init, CycleComplete, CyclesContiguous
<1>5. ClaimReachedAudience /\ DeliveriesBacked
  BY DEF Init, ClaimReachedAudience, DeliveriesBacked
<1> QED BY <1>1, <1>2, <1>3, <1>4, <1>5 DEF IInv

(* Every step of the program keeps it. *)
LEMMA NextInv == ASSUME IInv, [Next]_vars PROVE IInv'
<1>1. ASSUME NEW s \in Session, Begin(s) PROVE IInv'
  BY <1>1, BeginInv
<1>2. ASSUME NEW s \in Session, Step(s) PROVE IInv'
  BY <1>2, StepInv
<1>3. ASSUME NEW s \in Session, DeadlockVictim(s) PROVE IInv'
  BY <1>3, AbortInv DEF DeadlockVictim
<1>4. CASE Crash
  BY <1>4, CrashInv
<1>5. CASE UNCHANGED vars
  BY <1>5, StutterInv
<1> QED BY <1>1, <1>2, <1>3, <1>4, <1>5 DEF Next, Quiescent

(* In every reachable state the tables are consistent and every session may
   rely on what its locals assume: whatever sessions race, collide, are rolled
   back or crash. *)
THEOREM Inductive == Spec => []IInv
<1>1. Init => IInv
  BY InitInv
<1>2. IInv /\ [Next]_vars => IInv'
  BY NextInv
<1> QED BY <1>1, <1>2, PTL DEF Spec

(* Every variable has its type. *)
THEOREM TypeCorrect == Spec => []TypeOK
<1>1. IInv => TypeOK
  BY DEF IInv
<1> QED BY <1>1, Inductive, PTL

(* A closed cycle has used every question of the pool: the rollover of
   claim_next_question never retires a question that was not posted. *)
THEOREM CyclesComplete == Spec => []CycleComplete
<1>1. IInv => CycleComplete
  BY DEF IInv
<1> QED BY <1>1, Inductive, PTL

(* A committed claim has a SENT delivery: send_next releases the others. *)
THEOREM ClaimsReach == Spec => []ClaimReachedAudience
<1>1. IInv => ClaimReachedAudience
  BY DEF IInv
<1> QED BY <1>1, Inductive, PTL

(* Deliveries belong to committed claims, and sent ones to polls on show. *)
THEOREM DeliveriesHold == Spec => []DeliveriesBacked
<1>1. IInv => DeliveriesBacked
  BY DEF IInv
<1> QED BY <1>1, Inductive, PTL

(* Cycle numbers have no gap. *)
THEOREM NumbersHold == Spec => []CyclesContiguous
<1>1. IInv => CyclesContiguous
  BY DEF IInv
<1> QED BY <1>1, Inductive, PTL

(* No question is claimed twice in one cycle: uncommitted claims are disjoint
   from each other and from the committed ones. *)
THEOREM ClaimsDisjoint == Spec => []ClaimsExclusive
<1>1. IInv => ClaimsExclusive
  <2> SUFFICES ASSUME IInv PROVE ClaimsExclusive
    OBVIOUS
  <2>1. ASSUME NEW s \in Session, NEW t \in Session, s # t
        PROVE  tx[s].ins \cap tx[t].ins = {}
    BY <2>1 DEF IInv, LocksExclusive, SessionInv, RowsHeld
  <2>2. ASSUME NEW s \in Session PROVE tx[s].ins \cap posts = {}
    BY DEF IInv, SessionInv, RowsHeld
  <2> QED BY <2>1, <2>2 DEF ClaimsExclusive
<1> QED BY <1>1, Inductive, PTL

(* Only a commit changes the tables. *)
LEMMA TablesFrozen ==
  ASSUME Next, \A s \in Session : ~Commit(s)
  PROVE  UNCHANGED <<posts, openCycles, closedCycles, deliveries>>
<1> USE DEF db
<1>1. CASE Crash
  BY <1>1 DEF Crash
<1>2. CASE Quiescent
  BY <1>2 DEF Quiescent, vars
<1>3. ASSUME NEW s \in Session, Begin(s) \/ Step(s) \/ DeadlockVictim(s)
      PROVE  UNCHANGED <<posts, openCycles, closedCycles, deliveries>>
  <2>1. CASE Abort(s)
    BY <2>1 DEF Abort
  <2>2. CASE ListChannels(s) \/ PressFindsNoChannel(s) \/ FindOpenCycle(s) \/ ReadHighest(s)
    BY <2>2 DEF ListChannels, PressFindsNoChannel, FindOpenCycle, ReadHighest
  <2>3. CASE OpenCycle(s) \/ Pick(s) \/ PickNothing(s) \/ CloseCycle(s) \/ InsertPost(s)
    BY <2>3 DEF OpenCycle, Pick, PickNothing, CloseCycle, InsertPost
  <2>4. CASE Publish(s) \/ SetFileId(s) \/ Reject(s) \/ RecordFailure(s) \/ Settle(s)
    BY <2>4 DEF Publish, SetFileId, Reject, RecordFailure, Settle
  <2>5. CASE Begin(s) \/ DeadlockVictim(s)
    BY <2>5, <2>1 DEF Begin, DeadlockVictim
  <2>6. CASE InsertCollides(s) \/ JobFindsNoChannel(s) \/ OpenCollides(s) \/ AnswerFails(s)
    BY <2>6, <2>1 DEF InsertCollides, JobFindsNoChannel, OpenCollides, AnswerFails
  <2> QED BY <1>3, <2>2, <2>3, <2>4, <2>5, <2>6 DEF Step
<1> QED BY <1>1, <1>2, <1>3 DEF Next

(* Nothing committed is ever taken back, by a commit of any session, a
   rollback, a deadlock or a crash. *)
THEOREM HistoryStands == Spec => HistoryGrows
<1>1. ASSUME IInv, IInv', [Next]_vars
      PROVE  [ /\ posts \subseteq posts'
               /\ deliveries \subseteq deliveries'
               /\ closedCycles \subseteq closedCycles'
               /\ openCycles \subseteq openCycles' \cup closedCycles'
               /\ closedCycles' \cap openCycles' = {} ]_vars
  <2>1. CASE UNCHANGED vars
    BY <2>1
  <2>2. closedCycles' \cap openCycles' = {}
    BY <1>1 DEF IInv
  <2>3. CASE \E s \in Session : Commit(s)
    BY <2>2, <2>3 DEF Commit
  <2>4. CASE Next /\ \A s \in Session : ~Commit(s)
    BY <2>2, <2>4, TablesFrozen
  <2> QED BY <1>1, <2>1, <2>3, <2>4
<1> QED BY <1>1, Inductive, PTL DEF Spec, HistoryGrows
================================================================================
