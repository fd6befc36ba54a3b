---------------------------- MODULE QuizShownProofs ----------------------------
(***************************************************************************)
(* Batches of one question, for any number of them at once: where no       *)
(* picture's file_id is stored between two others' channels they never     *)
(* deadlock, and short of a crash, of late replies and of answers to a     *)
(* press that fail, what was posted stays claimed and is posted once       *)
(* (QuizPosting).                                                          *)
(***************************************************************************)
EXTENDS QuizPostingProofs, WellFoundedInduction

USE QuestionAssumption, PictureAssumption, ChannelAssumption, ManualAssumption, BatchAssumption,
    AttemptsAssumption, SwitchAssumption, BoundAssumption
    DEF Proceed, Write

--------------------------------------------------------------------------------
(* Why an order of the locks excludes deadlock. *)

(* A set of numbers that is not empty has a least one. *)
LEMMA Least ==
    ASSUME NEW S \in SUBSET Nat, S # {} PROVE \E n \in S : \A m \in S : n <= m
  <1>1. IsWellFoundedOn(OpToRel(<, Nat), Nat)
    BY NatLessThanWellFounded
  <1>2. PICK n \in S : \A m \in S : <<m, n>> \notin OpToRel(<, Nat)
    BY <1>1, WFMin
  <1>3. \A m \in S : ~(m < n)
    BY <1>2 DEF OpToRel
  <1> QED
    BY <1>3

(* Where storing a file_id cannot break the order of the locks: no question has
   a picture, or a batch has at most two channels, so that the row is locked
   before the first or after the last of them that others may wait for. *)
FileIdsInOrder ==
    Picture = {} \/ \A a, b, c \in Channel : ~(a < b /\ b < c)

(* The rows of the four tables differ. *)
LEMMA RowsDiffer ==
    /\ \A n, m : CycleRow(n) = CycleRow(m) => n = m
    /\ \A c, d : ChannelRow(c) = ChannelRow(d) => c = d
    /\ \A n, p : CycleRow(n) # PostRow(p)
    /\ \A n, c : CycleRow(n) # ChannelRow(c)
    /\ \A p, c : PostRow(p) # ChannelRow(c)
    /\ \A q, x : QuestionRow(q) = QuestionRow(x) => q = x
    /\ \A q, n : QuestionRow(q) # CycleRow(n)
    /\ \A q, p : QuestionRow(q) # PostRow(p)
    /\ \A q, c : QuestionRow(q) # ChannelRow(c)
  BY DEF CycleRow, PostRow, ChannelRow, QuestionRow

(* In a deadlock everyone holds a row that another of them wants. *)
LEMMA Wanting ==
    ASSUME NEW W \in SUBSET Session, UNION {Holders(t) : t \in W} = W, NEW u \in W
    PROVE  \E t \in W : t # u /\ \E r \in Wanted(t) : r \in tx[u].rows
  <1>1. PICK t \in W : u \in Holders(t)
    OBVIOUS
  <1> QED
    BY <1>1 DEF Holders

(* What a session wants, by where it is. *)
LEMMA WantedRows ==
    ASSUME NEW s \in Session, NEW r \in Wanted(s)
    PROVE  \/ run[s].pc = "insert" /\ r = PostRow(CurrentPost(s))
           \/ run[s].pc \in {"open", "close"} /\ r = CycleRow(run[s].cur)
           \/ /\ Publishing(s)
              /\ \/ run[s].pc = "file_id" /\ r = QuestionRow(run[s].que)
                 \/ \E ch \in Channel : ch \in run[s].todo /\ r = ChannelRow(ch)
                                        /\ \A d \in run[s].todo : ch <= d
  BY DEF Wanted, NextChannel, Publishing

(* A publishing session that waits for a channel or a question holds, of the
   questions' rows, at most its own question's, and that only after it asked. *)
LEMMA OneQuestionRow ==
    ASSUME IInv, NEW v \in Session, LocksOrdered(v), Publishing(v),
           NEW q \in Question, QuestionRow(q) \in tx[v].rows
    PROVE  /\ q = run[v].que
           /\ \A u \in Session \ {v} : QuestionRow(q) \notin tx[u].rows
  BY DEF LocksOrdered, IInv, LocksExclusive

(* A session storing a file_id holds no question's row that is wanted while it
   waits for one itself. *)
LEMMA StoringHoldsNone ==
    ASSUME IInv, NEW v \in Session, LocksOrdered(v), run[v].pc = "file_id",
           NEW u \in Session \ {v}, QuestionRow(run[v].que) \in tx[u].rows,
           NEW q \in Question
    PROVE  QuestionRow(q) \notin tx[v].rows
  <1>1. Publishing(v)
    BY DEF Publishing
  <1> QED
    BY <1>1, OneQuestionRow

(* Not all who wait on a circle are publishing.  Of those that are, the one that
   waits for the least channel's row holds none of the channels' that is waited
   for, so it stored a file_id, after a channel before that one; who waits for
   that holds only channels' rows, and has reached one after those. *)
LEMMA NoChannelCircle ==
    ASSUME IInv, FileIdsInOrder, \A s \in Session : LocksOrdered(s),
           NEW W \in SUBSET Session, UNION {Holders(t) : t \in W} = W,
           NEW x \in W
    PROVE  \E t \in W : ~Publishing(t) /\ Wanted(t) # {}
  <1> SUFFICES ASSUME \A t \in W : Wanted(t) # {} => Publishing(t) PROVE FALSE
    OBVIOUS
  <1> DEFINE C == {ch \in Channel : \E t \in W : ChannelRow(ch) \in Wanted(t)}
  <1>0. ASSUME NEW t \in W, Publishing(t) PROVE run[t].que \in Question
    BY <1>0 DEF IInv, SessionInv, LocalsSet
  <1>1. ASSUME NEW u \in W
        PROVE  \E v \in W : \E r \in Wanted(v) :
                  /\ v # u /\ r \in tx[u].rows /\ Publishing(v)
                  /\ \/ run[v].pc = "file_id" /\ r = QuestionRow(run[v].que)
                     \/ \E ch \in C : r = ChannelRow(ch)
    <2>1. PICK v \in W : v # u /\ \E r \in Wanted(v) : r \in tx[u].rows
      BY Wanting
    <2>2. PICK r \in Wanted(v) : r \in tx[u].rows
      BY <2>1
    <2>3. Publishing(v)
      BY <2>2
    <2>4. \/ run[v].pc = "file_id" /\ r = QuestionRow(run[v].que)
          \/ \E ch \in Channel : r = ChannelRow(ch)
      BY <2>2, <2>3, WantedRows DEF Publishing
    <2> QED
      BY <2>1, <2>2, <2>3, <2>4
  <1>2. CASE C = {}
    <2>1. PICK v \in W : \E r \in Wanted(v) :
             v # x /\ r \in tx[x].rows /\ run[v].pc = "file_id" /\ r = QuestionRow(run[v].que)
      BY <1>1, <1>2
    <2>2. PICK u \in W : \E r \in Wanted(u) :
             u # v /\ r \in tx[v].rows /\ Publishing(u) /\ r = QuestionRow(run[u].que)
      BY <1>1, <1>2
    <2>3. run[u].que \in Question
      BY <1>0, <2>2
    <2> QED
      BY <2>1, <2>2, <2>3, StoringHoldsNone
  <1>3. CASE C # {}
    <2>1. C \in SUBSET Nat
      OBVIOUS
    <2>2. PICK ch \in C : \A d \in C : ch <= d
      BY <1>3, <2>1, Least
    <2>3. PICK t \in W : ChannelRow(ch) \in Wanted(t)
      BY <2>2
    <2>4. Publishing(t) /\ ch \in run[t].todo
      BY <2>3, WantedRows, RowsDiffer
    <2>5. PICK v \in W : \E r \in Wanted(v) :
             /\ v # t /\ r \in tx[t].rows /\ Publishing(v)
             /\ \/ run[v].pc = "file_id" /\ r = QuestionRow(run[v].que)
                \/ \E d \in C : r = ChannelRow(d)
      BY <1>1
    <2>6. ASSUME NEW d \in C, ChannelRow(d) \in tx[t].rows PROVE FALSE
      <3>1. d < ch
        BY <2>4, <2>6 DEF LocksOrdered
      <3> QED
        BY <2>1, <2>2, <3>1
    <2>7. run[v].pc = "file_id" /\ QuestionRow(run[v].que) \in tx[t].rows /\ v # t
      BY <2>5, <2>6
    <2>8. run[v].que = run[t].que
      BY <1>0, <2>4, <2>5, <2>7, OneQuestionRow
    <2>9. PICK c \in Channel : c < ch
      BY <2>4, <2>7, <2>8 DEF LocksOrdered
    <2>10. PICK w \in W : \E r \in Wanted(w) :
             /\ w # v /\ r \in tx[v].rows /\ Publishing(w)
             /\ \/ run[w].pc = "file_id" /\ r = QuestionRow(run[w].que)
                \/ \E d \in C : r = ChannelRow(d)
      BY <1>1
    <2>11. QuestionRow(run[w].que) \notin tx[v].rows
      BY <1>0, <2>7, <2>10, StoringHoldsNone
    <2>12. PICK d \in C : ChannelRow(d) \in tx[v].rows
      BY <2>10, <2>11
    <2>13. PICK e \in Channel : d < e
      BY <2>7, <2>12 DEF LocksOrdered
    <2>14. c < ch /\ ch < e
      BY <2>1, <2>2, <2>9, <2>12, <2>13
    <2>15. run[v].que \in Picture
      BY <2>7 DEF LocksOrdered
    <2> QED
      BY <2>14, <2>15 DEF FileIdsInOrder
  <1> QED
    BY <1>2, <1>3

(* A waiter for a claim or a cycle row holds cycle rows only, and for a cycle
   row only such with lower or the same number. *)
LEMMA EarlyRows ==
    ASSUME TypeOK, NEW s \in Session, LocksOrdered(s), NEW r \in tx[s].rows,
           run[s].pc \in {"insert", "open", "close"}
    PROVE  \E n \in CycleNo : r = CycleRow(n) /\ (run[s].pc # "insert" => n <= run[s].cur)
  <1>1. tx[s].rows \subseteq Row /\ run[s].cur \in Nat
    BY DEF TypeOK, Writes, Locals
  <1>2. r[1] = "cycles" => \E n \in CycleNo : r = CycleRow(n)
    BY <1>1 DEF Row, CycleRow
  <1>3. CASE run[s].pc = "insert"
    BY <1>2, <1>3 DEF LocksOrdered
  <1>4. CASE run[s].pc = "open"
    <2>1. PICK n \in 1..(run[s].cur - 1) : r = CycleRow(n)
      BY <1>4 DEF LocksOrdered
    <2> QED
      BY <1>1, <1>4, <2>1 DEF CycleNo
  <1>5. CASE run[s].pc = "close"
    <2>1. r = CycleRow(run[s].cur) /\ r[1] = "cycles"
      BY <1>5 DEF LocksOrdered
    <2> QED
      BY <1>1, <1>2, <1>5, <2>1, RowsDiffer
  <1> QED
    BY <1>3, <1>4, <1>5

(* Locks taken in order cannot deadlock. *)
LEMMA OrderedNeverDeadlocked ==
    ASSUME IInv, FileIdsInOrder, \A s \in Session : LocksOrdered(s) PROVE NeverDeadlocked
  <1> SUFFICES ASSUME NEW W \in SUBSET Session, NEW s \in W,
                      UNION {Holders(t) : t \in W} = W
               PROVE  FALSE
    BY DEF NeverDeadlocked, Deadlocked, Circle
  <1>0. TypeOK /\ LocksExclusive
    BY DEF IInv
  <1>1. PICK t \in W : ~Publishing(t) /\ Wanted(t) # {}
    BY NoChannelCircle
  <1> DEFINE N == {n \in CycleNo : \E v \in W : run[v].pc \in {"open", "close"} /\ run[v].cur = n}
  <1>2. ASSUME NEW u \in W, run[u].pc \in {"insert", "open", "close"}
        PROVE  \E v \in W, n \in CycleNo :
                  /\ v # u /\ run[v].pc \in {"open", "close"} /\ run[v].cur = n
                  /\ CycleRow(n) \in tx[u].rows
                  /\ run[u].pc # "insert" => n <= run[u].cur
    <2>1. PICK v \in W : v # u /\ \E r \in Wanted(v) : r \in tx[u].rows
      BY Wanting
    <2>2. PICK r \in Wanted(v) : r \in tx[u].rows
      BY <2>1
    <2>3. PICK n \in CycleNo : r = CycleRow(n) /\ (run[u].pc # "insert" => n <= run[u].cur)
      BY <1>0, <1>2, <2>2, EarlyRows
    <2>4. run[v].pc \in {"open", "close"} /\ r = CycleRow(run[v].cur)
      BY <2>2, <2>3, WantedRows, RowsDiffer
    <2>5. run[v].cur = n
      BY <2>3, <2>4, RowsDiffer
    <2> QED
      BY <2>1, <2>2, <2>3, <2>4, <2>5
  <1>3. run[t].pc \in {"insert", "open", "close"}
    BY <1>1, WantedRows
  <1>4. N # {} /\ N \in SUBSET Nat
    BY <1>2, <1>3 DEF CycleNo
  <1>5. PICK n \in N : \A m \in N : n <= m
    BY <1>4, Least
  <1>6. PICK u \in W : run[u].pc \in {"open", "close"} /\ run[u].cur = n
    BY <1>5
  <1>7. ASSUME NEW x \in W, run[x].pc \in {"open", "close"}, run[x].cur = n
        PROVE  \E v \in W : v # x /\ run[v].pc \in {"open", "close"} /\ run[v].cur = n
                            /\ CycleRow(n) \in tx[x].rows
    <2>1. PICK v \in W, m \in CycleNo :
             /\ v # x /\ run[v].pc \in {"open", "close"} /\ run[v].cur = m
             /\ CycleRow(m) \in tx[x].rows /\ m <= n
      BY <1>2, <1>7
    <2>2. m \in N /\ n <= m /\ n \in Nat /\ m \in Nat
      BY <1>4, <1>5, <2>1
    <2>3. m = n
      BY <2>1, <2>2
    <2> QED
      BY <2>1, <2>3
  <1>8. PICK v \in W : /\ v # u /\ run[v].pc \in {"open", "close"} /\ run[v].cur = n
                       /\ CycleRow(n) \in tx[u].rows
    BY <1>6, <1>7
  <1>9. CycleRow(n) \in tx[v].rows
    BY <1>7, <1>8
  <1> QED
    BY <1>0, <1>8, <1>9 DEF LocksExclusive


--------------------------------------------------------------------------------
(* That batches of one question take their locks in order. *)

(* What the steps that write nothing do to the locals. *)
LEMMA LookShape ==
    ASSUME TypeOK, NEW s \in Session,
           \/ Begin(s) \/ ListChannels(s) \/ PressFindsNoChannel(s) \/ FindOpenCycle(s)
           \/ ReadHighest(s) \/ Pick(s) \/ PickNothing(s) \/ (InsertCollides(s) /\ ~Abort(s))
    PROVE  /\ UNCHANGED <<db, tx, feed>> /\ \A t \in Session \ {s} : run'[t] = run[t]
           /\ \/ run[s].pc = "idle" /\ run'[s].pc = "channels"
              \/ run[s].pc = "channels" /\ run'[s].pc \in {"cycle", "commit"}
              \/ /\ run'[s].rolled = run[s].rolled
                 /\ \/ run[s].pc = "cycle" /\ run'[s].pc \in {"number", "pick"}
                    \/ /\ run[s].pc = "number" /\ run'[s].pc = "open"
                       /\ \A n \in CyclesSeen(s) : n <= run'[s].cur - 1
                    \/ /\ run[s].pc \in {"pick", "insert"} /\ run'[s].cur = run[s].cur
                       /\ \/ run'[s].pc \in {"pick", "insert", "commit"}
                          \/ run'[s].pc = "close" /\ ~run[s].rolled
  <1>0. run[s] \in Locals /\ CyclesSeen(s) \subseteq CycleNo
    BY SeenTyped DEF TypeOK
  <1>1. CASE Begin(s)
    BY <1>1 DEF Begin, TypeOK, Idle
  <1>2. CASE ListChannels(s)
    <2>1. run' = [run EXCEPT ![s] = [run[s] EXCEPT !.pc = "cycle", !.todo = ActiveSeen(s)]]
      BY <1>2 DEF ListChannels
    <2> QED
      BY <1>0, <1>2, <2>1 DEF ListChannels, TypeOK, Locals
  <1>3. CASE PressFindsNoChannel(s)
    <2>1. run' = [run EXCEPT ![s] = [run[s] EXCEPT !.pc = "commit"]]
      BY <1>3 DEF PressFindsNoChannel
    <2> QED
      BY <1>0, <1>3, <2>1 DEF PressFindsNoChannel, TypeOK, Locals
  <1>4. CASE FindOpenCycle(s)
    <2>1. \/ run' = [run EXCEPT ![s] = [run[s] EXCEPT !.pc = "number", !.tries = 1]]
          \/ \E c \in OpenSeen(s) :
               run' = [run EXCEPT ![s] = [run[s] EXCEPT !.pc = "pick", !.cur = c, !.tries = 1]]
      BY <1>4 DEF FindOpenCycle
    <2>2. run[s].pc = "cycle" /\ UNCHANGED <<db, tx, feed>>
      BY <1>4 DEF FindOpenCycle
    <2>3. run'[s].rolled = run[s].rolled /\ run'[s].pc \in {"number", "pick"}
      <3>1. CASE run' = [run EXCEPT ![s] = [run[s] EXCEPT !.pc = "number", !.tries = 1]]
        BY <1>0, <3>1 DEF TypeOK, Locals
      <3>2. ASSUME NEW c,
                   run' = [run EXCEPT ![s] = [run[s] EXCEPT !.pc = "pick", !.cur = c, !.tries = 1]]
            PROVE  run'[s].rolled = run[s].rolled /\ run'[s].pc = "pick"
        BY <1>0, <3>2 DEF TypeOK, Locals
      <3> QED
        BY <2>1, <3>1, <3>2
    <2>4. \A t \in Session \ {s} : run'[t] = run[t]
      BY <2>1 DEF TypeOK
    <2> QED
      BY <2>2, <2>3, <2>4
  <1>5. CASE ReadHighest(s)
    <2>1. PICK h \in CyclesSeen(s) \cup {0} :
             /\ \A n \in CyclesSeen(s) : n <= h
             /\ run' = [run EXCEPT ![s] = [run[s] EXCEPT !.pc = "open", !.cur = h + 1]]
      BY <1>5 DEF ReadHighest
    <2>2. run[s].pc = "number" /\ UNCHANGED <<db, tx, feed>>
      BY <1>5 DEF ReadHighest
    <2>3. /\ run'[s].rolled = run[s].rolled /\ run'[s].pc = "open" /\ run'[s].cur = h + 1
          /\ \A t \in Session \ {s} : run'[t] = run[t]
      BY <1>0, <2>1 DEF TypeOK, Locals
    <2>4. run'[s].cur - 1 = h
      BY <1>0, <2>3 DEF CycleNo
    <2> QED
      BY <2>1, <2>2, <2>3, <2>4
  <1>6. CASE Pick(s)
    <2>1. PICK q \in Unused(s) :
             run' = [run EXCEPT ![s] = [run[s] EXCEPT !.pc = "insert", !.que = q]]
      BY <1>6 DEF Pick
    <2> QED
      BY <1>0, <1>6, <2>1 DEF Pick, TypeOK, Locals
  <1>7. CASE PickNothing(s)
    <2>1. run' = [run EXCEPT ![s] =
                     [run[s] EXCEPT !.pc = IF run[s].rolled THEN "commit" ELSE "close"]]
      BY <1>7 DEF PickNothing
    <2> QED
      BY <1>0, <1>7, <2>1 DEF PickNothing, TypeOK, Locals
  <1>8. CASE InsertCollides(s) /\ ~Abort(s)
    <2>1. /\ run[s].pc = "insert" /\ UNCHANGED <<db, tx, feed>>
          /\ run' = [run EXCEPT ![s] = [run[s] EXCEPT
                       !.tries = @ + 1, !.que = NoQuestion,
                       !.pc = IF run[s].tries < ClaimAttempts THEN "pick" ELSE "commit"]]
      BY <1>8 DEF InsertCollides
    <2> QED
      BY <1>0, <2>1 DEF TypeOK, Locals
  <1> QED
    BY <1>1, <1>2, <1>3, <1>4, <1>5, <1>6, <1>7, <1>8

(* They keep the order. *)
LEMMA LookOrdered ==
    ASSUME IInv, NEW s \in Session, LocksOrdered(s),
           \/ Begin(s) \/ ListChannels(s) \/ PressFindsNoChannel(s) \/ FindOpenCycle(s)
           \/ ReadHighest(s) \/ Pick(s) \/ PickNothing(s) \/ (InsertCollides(s) /\ ~Abort(s))
    PROVE  LocksOrdered(s)'
  <1>0. TypeOK /\ CyclesSeen(s) \subseteq CycleNo
    BY SeenTyped DEF IInv
  <1>1. /\ tx'[s].rows = tx[s].rows /\ CyclesSeen(s)' = CyclesSeen(s)
    BY <1>0, LookShape DEF CyclesSeen, db
  <1>2. ~Publishing(s)'
    BY <1>0, LookShape DEF Publishing
  <1>3. CASE tx[s].rows = {}
    <2>1. run'[s].pc = "close" => ~run'[s].rolled
      BY <1>0, LookShape
    <2>2. run'[s].pc # "file_id"
      BY <1>2 DEF Publishing
    <2> QED
      BY <1>1, <1>2, <1>3, <2>1, <2>2 DEF LocksOrdered
  <1>4. CASE tx[s].rows # {}
    <2>1. run[s].pc \notin {"idle", "channels", "cycle"}
      BY <1>4 DEF LocksOrdered
    <2>2. CASE run[s].pc = "number"
      <3>1. /\ run'[s].pc = "open" /\ run'[s].rolled = run[s].rolled
            /\ \A n \in CyclesSeen(s) : n <= run'[s].cur - 1
        BY <1>0, <2>2, LookShape
      <3>2. tx[s].rows \subseteq {CycleRow(n) : n \in CyclesSeen(s)}
        BY <2>2 DEF LocksOrdered
      <3>3. \A n \in CyclesSeen(s) : n \in 1..(run'[s].cur - 1)
        <4>1. run'[s].cur \in Nat
          <5>1. IInv'
            BY BeginInv, ListChannelsInv, PressFindsNoChannelInv, FindOpenCycleInv,
               ReadHighestInv, PickInv, PickNothingInv, InsertCollidesInv
          <5> QED
            BY <5>1 DEF IInv, TypeOK, Locals
        <4> QED
          BY <1>0, <3>1, <4>1 DEF CycleNo
      <3>4. tx[s].rows \subseteq {CycleRow(n) : n \in 1..(run'[s].cur - 1)}
        BY <3>2, <3>3
      <3>5. run[s].rolled
        BY <1>4, <2>2 DEF LocksOrdered
      <3> QED
        BY <1>1, <1>2, <3>1, <3>4, <3>5 DEF LocksOrdered
    <2>3. CASE run[s].pc # "number"
      <3>1. /\ run[s].pc \in {"pick", "insert"} /\ run'[s].cur = run[s].cur
            /\ run'[s].rolled = run[s].rolled
            /\ \/ run'[s].pc \in {"pick", "insert", "commit"}
               \/ run'[s].pc = "close" /\ ~run[s].rolled
        BY <1>0, <2>1, <2>3, LookShape
      <3> QED
        BY <1>1, <1>2, <3>1 DEF LocksOrdered
    <2> QED
      BY <2>2, <2>3
  <1> QED
    BY <1>3, <1>4


(* The row of the cycle it opens comes after those it holds. *)
LEMMA OpenCycleShape ==
    ASSUME TypeOK, NEW s \in Session, OpenCycle(s)
    PROVE  /\ UNCHANGED <<db, feed>> /\ run[s].pc = "open" /\ run'[s].pc \in {"pick", "commit"}
           /\ \A t \in Session \ {s} : run'[t] = run[t] /\ tx'[t] = tx[t]
           /\ run'[s].cur = run[s].cur /\ run'[s].rolled = run[s].rolled
           /\ tx'[s].rows = tx[s].rows \cup {CycleRow(run[s].cur)}
           /\ tx'[s].ins = tx[s].ins /\ tx'[s].dlv = tx[s].dlv
  <1>1. run[s] \in Locals /\ tx[s] \in Writes
    BY DEF TypeOK
  <1>2. /\ tx' = [tx EXCEPT ![s] = [tx[s] EXCEPT !.opened = @ \cup {run[s].cur},
                                                 !.rows = @ \cup {CycleRow(run[s].cur)}]]
        /\ run[s].pc = "open" /\ UNCHANGED <<db, feed>>
    BY DEF OpenCycle
  <1>3. run' = [run EXCEPT ![s] = [run[s] EXCEPT !.pc = IF run[s].tries <= ClaimAttempts
                                                         THEN "pick" ELSE "commit"]]
    BY <1>1 DEF OpenCycle, Locals
  <1>4. /\ tx'[s].rows = tx[s].rows \cup {CycleRow(run[s].cur)}
        /\ tx'[s].ins = tx[s].ins /\ tx'[s].dlv = tx[s].dlv
        /\ \A t \in Session \ {s} : tx'[t] = tx[t]
    BY <1>1, <1>2 DEF TypeOK, Writes
  <1>5. /\ run'[s].pc \in {"pick", "commit"} /\ run'[s].cur = run[s].cur
        /\ run'[s].rolled = run[s].rolled /\ \A t \in Session \ {s} : run'[t] = run[t]
    BY <1>1, <1>3 DEF TypeOK, Locals
  <1> QED
    BY <1>2, <1>4, <1>5

(* The row of the cycle it closes is the only one it holds. *)
LEMMA CloseCycleShape ==
    ASSUME TypeOK, NEW s \in Session, CloseCycle(s)
    PROVE  /\ UNCHANGED <<db, feed>> /\ run[s].pc = "close" /\ run'[s].pc = "number"
           /\ \A t \in Session \ {s} : run'[t] = run[t] /\ tx'[t] = tx[t]
           /\ run'[s].rolled
           /\ tx'[s].rows = tx[s].rows \cup {CycleRow(run[s].cur)}
           /\ tx'[s].opened = tx[s].opened
           /\ tx'[s].ins = tx[s].ins /\ tx'[s].dlv = tx[s].dlv
  <1>1. run[s] \in Locals /\ tx[s] \in Writes
    BY DEF TypeOK
  <1>2. /\ tx' = [tx EXCEPT ![s] = [tx[s] EXCEPT !.shut = @ \cup {run[s].cur},
                                                 !.rows = @ \cup {CycleRow(run[s].cur)}]]
        /\ run' = [run EXCEPT ![s] =
                      [run[s] EXCEPT !.pc = "number", !.rolled = TRUE, !.tries = @ + 1]]
        /\ run[s].pc = "close" /\ UNCHANGED <<db, feed>>
    BY DEF CloseCycle
  <1>3. /\ tx'[s].rows = tx[s].rows \cup {CycleRow(run[s].cur)}
        /\ tx'[s].ins = tx[s].ins /\ tx'[s].dlv = tx[s].dlv /\ tx'[s].opened = tx[s].opened
        /\ \A t \in Session \ {s} : tx'[t] = tx[t]
    BY <1>1, <1>2 DEF TypeOK, Writes
  <1>4. /\ run'[s].pc = "number" /\ run'[s].rolled
        /\ \A t \in Session \ {s} : run'[t] = run[t]
    BY <1>1, <1>2 DEF TypeOK, Locals
  <1> QED
    BY <1>2, <1>3, <1>4

(* The claim's row joins those of the cycles. *)
LEMMA InsertPostShape ==
    ASSUME TypeOK, NEW s \in Session, InsertPost(s)
    PROVE  /\ UNCHANGED <<db, feed>> /\ run[s].pc = "insert" /\ run'[s].pc = "send"
           /\ \A t \in Session \ {s} : run'[t] = run[t] /\ tx'[t] = tx[t]
           /\ run'[s].todo = run[s].todo /\ CurrentPost(s)' = CurrentPost(s)
           /\ tx'[s].rows = tx[s].rows \cup {PostRow(CurrentPost(s))}
           /\ tx'[s].ins = tx[s].ins \cup {CurrentPost(s)} /\ tx'[s].dlv = tx[s].dlv
           /\ Granted(s) /\ CurrentPost(s) \notin Claims(s)
  <1>1. run[s] \in Locals /\ tx[s] \in Writes
    BY DEF TypeOK
  <1> DEFINE p == CurrentPost(s)
  <1>2. /\ tx' = [tx EXCEPT ![s] = [tx[s] EXCEPT !.ins = @ \cup {p},
                                                 !.rows = @ \cup {PostRow(p)}]]
        /\ run' = [run EXCEPT ![s] = [run[s] EXCEPT !.pc = "send"]]
        /\ run[s].pc = "insert" /\ UNCHANGED <<db, feed>> /\ Granted(s) /\ p \notin Claims(s)
    BY DEF InsertPost
  <1>3. /\ tx'[s].rows = tx[s].rows \cup {PostRow(p)}
        /\ tx'[s].ins = tx[s].ins \cup {p} /\ tx'[s].dlv = tx[s].dlv
        /\ \A t \in Session \ {s} : tx'[t] = tx[t]
    <2> HIDE DEF p
    <2> QED
      BY <1>1, <1>2 DEF TypeOK, Writes
  <1>4. /\ run'[s].pc = "send" /\ run'[s].todo = run[s].todo
        /\ run'[s].cur = run[s].cur /\ run'[s].que = run[s].que
        /\ \A t \in Session \ {s} : run'[t] = run[t]
    BY <1>1, <1>2 DEF TypeOK, Locals
  <1>5. CurrentPost(s)' = CurrentPost(s)
    BY <1>4 DEF CurrentPost
  <1> QED
    BY <1>2, <1>3, <1>4, <1>5


(* A send is recorded for one channel, the least of those to come. *)
LEMMA PublishShape ==
    ASSUME TypeOK, NEW s \in Session, Publish(s)
    PROVE  /\ UNCHANGED db /\ run[s].pc = "send" /\ run'[s].pc \in {"send", "file_id"}
           /\ run'[s].pc = "file_id" => run[s].que \in Picture
           /\ \A t \in Session \ {s} : run'[t] = run[t] /\ tx'[t] = tx[t]
           /\ CurrentPost(s)' = CurrentPost(s) /\ run'[s].que = run[s].que
           /\ tx'[s].rows = tx[s].rows /\ tx'[s].ins = tx[s].ins
           /\ \E ch \in Channel :
                /\ NextChannel(s, ch) /\ Appear(ch, CurrentPost(s))
                /\ run'[s].todo = run[s].todo \ {ch}
                /\ tx'[s].dlv = tx[s].dlv \cup {<<CurrentPost(s), ch, "sent">>}
  <1>1. run[s] \in Locals /\ tx[s] \in Writes
    BY DEF TypeOK
  <1> DEFINE p == CurrentPost(s)
  <1>2. PICK ch \in Channel, next \in {"send", "file_id"} :
           /\ next = "file_id" => run[s].que \in Picture
           /\ NextChannel(s, ch) /\ Appear(ch, p)
           /\ Write(s, [tx[s] EXCEPT !.dlv = @ \cup {<<p, ch, "sent">>}])
           /\ Proceed(s, [run[s] EXCEPT !.pc = next, !.todo = @ \ {ch}])
    <2> HIDE DEF Proceed, Write
    <2> QED
      BY DEF Publish
  <1>3. run[s].pc = "send" /\ UNCHANGED db
    BY DEF Publish
  <1>4. /\ tx'[s].rows = tx[s].rows /\ tx'[s].ins = tx[s].ins
        /\ tx'[s].dlv = tx[s].dlv \cup {<<p, ch, "sent">>}
        /\ \A t \in Session \ {s} : tx'[t] = tx[t]
    <2> HIDE DEF p
    <2> QED
      BY <1>1, <1>2 DEF TypeOK, Writes
  <1>5. /\ run'[s].pc = next /\ run'[s].todo = run[s].todo \ {ch}
        /\ run'[s].cur = run[s].cur /\ run'[s].que = run[s].que
        /\ \A t \in Session \ {s} : run'[t] = run[t]
    BY <1>1, <1>2, <1>3 DEF TypeOK, Locals
  <1>6. CurrentPost(s)' = CurrentPost(s)
    BY <1>5 DEF CurrentPost
  <1> QED
    BY <1>2, <1>3, <1>4, <1>5, <1>6

(* Storing a file_id locks the question's row. *)
LEMMA SetFileIdShape ==
    ASSUME TypeOK, NEW s \in Session, SetFileId(s)
    PROVE  /\ UNCHANGED <<db, feed>> /\ run[s].pc = "file_id" /\ run'[s].pc = "send"
           /\ \A t \in Session \ {s} : run'[t] = run[t] /\ tx'[t] = tx[t]
           /\ run'[s].todo = run[s].todo /\ run'[s].que = run[s].que
           /\ CurrentPost(s)' = CurrentPost(s)
           /\ tx'[s].rows = tx[s].rows \cup {QuestionRow(run[s].que)}
           /\ tx'[s].ins = tx[s].ins /\ tx'[s].dlv = tx[s].dlv
  <1>1. run[s] \in Locals /\ tx[s] \in Writes
    BY DEF TypeOK
  <1>2. /\ tx' = [tx EXCEPT ![s] = [tx[s] EXCEPT !.rows = @ \cup {QuestionRow(run[s].que)}]]
        /\ run' = [run EXCEPT ![s] = [run[s] EXCEPT !.pc = "send"]]
        /\ run[s].pc = "file_id" /\ UNCHANGED <<db, feed>>
    BY DEF SetFileId
  <1>3. /\ tx'[s].rows = tx[s].rows \cup {QuestionRow(run[s].que)}
        /\ tx'[s].ins = tx[s].ins /\ tx'[s].dlv = tx[s].dlv
        /\ \A t \in Session \ {s} : tx'[t] = tx[t]
    BY <1>1, <1>2 DEF TypeOK, Writes
  <1>4. /\ run'[s].pc = "send" /\ run'[s].todo = run[s].todo
        /\ run'[s].cur = run[s].cur /\ run'[s].que = run[s].que
        /\ \A t \in Session \ {s} : run'[t] = run[t]
    BY <1>1, <1>2 DEF TypeOK, Locals
  <1>5. CurrentPost(s)' = CurrentPost(s)
    BY <1>4 DEF CurrentPost
  <1> QED
    BY <1>2, <1>3, <1>4, <1>5

(* A rejection takes no lock; short of a late reply it leaves the feed. *)
LEMMA RejectShape ==
    ASSUME TypeOK, NEW s \in Session, Reject(s)
    PROVE  /\ UNCHANGED db /\ run[s].pc = "send" /\ run'[s].pc \in {"send", "failed", "lost"}
           /\ \A t \in Session \ {s} : run'[t] = run[t] /\ tx'[t] = tx[t]
           /\ CurrentPost(s)' = CurrentPost(s) /\ run'[s].que = run[s].que
           /\ tx'[s].rows = tx[s].rows /\ tx'[s].ins = tx[s].ins
           /\ tx[s].dlv \subseteq tx'[s].dlv /\ run'[s].todo \subseteq run[s].todo
           /\ ~LateReplies => UNCHANGED feed
  <1>1. run[s] \in Locals /\ tx[s] \in Writes
    BY DEF TypeOK
  <1> DEFINE p == CurrentPost(s)
  <1>2. PICK ch \in Channel :
           /\ tx' = [tx EXCEPT ![s] = [tx[s] EXCEPT !.dlv = @ \cup {<<p, ch, "failed">>}]]
           /\ \/ run' = [run EXCEPT ![s] = [run[s] EXCEPT !.pc = "lost"]]
              \/ run' = [run EXCEPT ![s] = [run[s] EXCEPT !.pc = "failed"]]
              \/ run' = [run EXCEPT ![s] = [run[s] EXCEPT !.todo = @ \ {ch}]]
    BY DEF Reject
  <1>3. run[s].pc = "send" /\ UNCHANGED db /\ (~LateReplies => UNCHANGED feed)
    BY DEF Reject
  <1>4. /\ tx'[s].rows = tx[s].rows /\ tx'[s].ins = tx[s].ins
        /\ tx[s].dlv \subseteq tx'[s].dlv
        /\ \A t \in Session \ {s} : tx'[t] = tx[t]
    <2> HIDE DEF p
    <2> QED
      BY <1>1, <1>2 DEF TypeOK, Writes
  <1>5. /\ run'[s].pc \in {"send", "failed", "lost"} /\ run'[s].todo \subseteq run[s].todo
        /\ run'[s].cur = run[s].cur /\ run'[s].que = run[s].que
        /\ \A t \in Session \ {s} : run'[t] = run[t]
    <2>1. CASE run' = [run EXCEPT ![s] = [run[s] EXCEPT !.pc = "lost"]]
      BY <1>1, <2>1 DEF TypeOK, Locals
    <2>2. CASE run' = [run EXCEPT ![s] = [run[s] EXCEPT !.pc = "failed"]]
      BY <1>1, <2>2 DEF TypeOK, Locals
    <2>3. CASE run' = [run EXCEPT ![s] = [run[s] EXCEPT !.todo = @ \ {ch}]]
      BY <1>1, <1>3, <2>3 DEF TypeOK, Locals
    <2> QED
      BY <1>2, <2>1, <2>2, <2>3
  <1>6. CurrentPost(s)' = CurrentPost(s)
    BY <1>5 DEF CurrentPost
  <1> QED
    BY <1>3, <1>4, <1>5, <1>6

(* Recording a failure locks the row of the channel it has done with. *)
LEMMA RecordFailureShape ==
    ASSUME TypeOK, NEW s \in Session, RecordFailure(s)
    PROVE  /\ UNCHANGED <<db, feed>> /\ Publishing(s) /\ run'[s].pc = "send"
           /\ \A t \in Session \ {s} : run'[t] = run[t] /\ tx'[t] = tx[t]
           /\ CurrentPost(s)' = CurrentPost(s) /\ run'[s].que = run[s].que
           /\ tx'[s].ins = tx[s].ins /\ tx'[s].dlv = tx[s].dlv
           /\ \E ch \in Channel :
                /\ NextChannel(s, ch) /\ run'[s].todo = run[s].todo \ {ch}
                /\ tx'[s].rows = tx[s].rows \cup {ChannelRow(ch)}
  <1>1. run[s] \in Locals /\ tx[s] \in Writes
    BY DEF TypeOK
  <1>2. PICK ch \in Channel :
           /\ NextChannel(s, ch)
           /\ tx' = [tx EXCEPT ![s] = [tx[s] EXCEPT
                       !.off = IF run[s].pc = "lost" THEN @ \cup {ch} ELSE @,
                       !.rows = @ \cup {ChannelRow(ch)}]]
           /\ run' = [run EXCEPT ![s] = [run[s] EXCEPT !.pc = "send", !.todo = @ \ {ch}]]
    BY DEF RecordFailure
  <1>3. UNCHANGED <<db, feed>> /\ Publishing(s)
    BY DEF RecordFailure, Publishing
  <1>4. /\ tx'[s].rows = tx[s].rows \cup {ChannelRow(ch)}
        /\ tx'[s].ins = tx[s].ins /\ tx'[s].dlv = tx[s].dlv
        /\ \A t \in Session \ {s} : tx'[t] = tx[t]
    BY <1>1, <1>2 DEF TypeOK, Writes
  <1>5. /\ run'[s].pc = "send" /\ run'[s].todo = run[s].todo \ {ch}
        /\ run'[s].cur = run[s].cur /\ run'[s].que = run[s].que
        /\ \A t \in Session \ {s} : run'[t] = run[t]
    BY <1>1, <1>2 DEF TypeOK, Locals
  <1>6. CurrentPost(s)' = CurrentPost(s)
    BY <1>5 DEF CurrentPost
  <1> QED
    BY <1>2, <1>3, <1>4, <1>5, <1>6

(* With its only question settled a batch goes on to commit; the claim is
   released only if no channel was recorded as reached. *)
LEMMA SettleShape ==
    ASSUME BatchSize = 1, IInv, NEW s \in Session, Settle(s)
    PROVE  /\ UNCHANGED <<db, feed>> /\ run[s].pc = "send" /\ run'[s].pc = "commit"
           /\ \A t \in Session \ {s} : run'[t] = run[t] /\ tx'[t] = tx[t]
           /\ \/ tx'[s] = tx[s]
              \/ /\ ~Reached(s) /\ tx'[s].ins = tx[s].ins \ {CurrentPost(s)}
                 /\ tx'[s].dlv = {d \in tx[s].dlv : d[1] # CurrentPost(s)}
  <1>1. TypeOK /\ SessionInv(s) /\ run[s] \in Locals /\ tx[s] \in Writes
    BY DEF IInv, TypeOK
  <1> DEFINE p == CurrentPost(s)
  <1>2. /\ \/ tx' = tx
           \/ ~Reached(s) /\ tx' = [tx EXCEPT ![s] = [tx[s] EXCEPT
                                 !.ins = @ \ {p}, !.dlv = {d \in @ : d[1] # p}]]
        /\ run' = [run EXCEPT ![s] =
              [Idle EXCEPT !.pc = IF run[s].left = 1 THEN "commit" ELSE "channels",
                           !.left = run[s].left - 1]]
        /\ run[s].pc = "send" /\ UNCHANGED <<db, feed>>
    BY DEF Settle, NextQuestion, Release
  <1>3. run[s].left = 1
    <2>1. run[s].left > 0 /\ run[s].left \in 0..BatchSize
      BY <1>1, <1>2 DEF SessionInv, LocalsSet, Locals
    <2> QED
      BY <2>1
  <1>4. run'[s].pc = "commit" /\ \A t \in Session \ {s} : run'[t] = run[t]
    BY <1>1, <1>2, <1>3 DEF TypeOK, Idle
  <1>5. CASE tx' = tx
    BY <1>2, <1>4, <1>5
  <1>6. CASE ~Reached(s) /\ tx' = [tx EXCEPT ![s] = [tx[s] EXCEPT
                                 !.ins = @ \ {p}, !.dlv = {d \in @ : d[1] # p}]]
    <2>1. /\ tx'[s].ins = tx[s].ins \ {p} /\ tx'[s].dlv = {d \in tx[s].dlv : d[1] # p}
          /\ \A t \in Session \ {s} : tx'[t] = tx[t]
      <3> HIDE DEF p
      <3> QED
        BY <1>1, <1>6 DEF TypeOK, Writes
    <2> QED
      BY <1>2, <1>4, <1>6, <2>1
  <1> QED
    BY <1>2, <1>5, <1>6


(* A transaction that is over holds nothing. *)
LEMMA OverOrdered ==
    ASSUME NEW s \in Session, tx'[s] = NoWrites, run'[s] = Idle PROVE LocksOrdered(s)'
  BY DEF LocksOrdered, NoWrites, Idle, Publishing

(* What the other sessions do does not disorder the locks of this one. *)
LEMMA OthersOrdered ==
    ASSUME NEW t \in Session, LocksOrdered(t), tx'[t] = tx[t], run'[t] = run[t],
           openCycles \cup closedCycles \subseteq openCycles' \cup closedCycles'
    PROVE  LocksOrdered(t)'
  <1>1. CyclesSeen(t) \subseteq CyclesSeen(t)'
    BY DEF CyclesSeen
  <1>2. {CycleRow(n) : n \in CyclesSeen(t)} \subseteq {CycleRow(n) : n \in CyclesSeen(t)'}
    BY <1>1
  <1>3. run[t].pc = "number" => tx[t].rows \subseteq {CycleRow(n) : n \in CyclesSeen(t)}
    BY DEF LocksOrdered
  <1>4. run[t].pc = "number" => tx[t].rows \subseteq {CycleRow(n) : n \in CyclesSeen(t)'}
    BY <1>2, <1>3
  <1> HIDE DEF CyclesSeen
  <1> QED
    BY <1>4 DEF LocksOrdered, Publishing

(* The steps that take a lock take the next one in the order. *)
LEMMA WriteOrdered ==
    ASSUME BatchSize = 1, IInv, NEW s \in Session, LocksOrdered(s),
           \/ OpenCycle(s) \/ CloseCycle(s) \/ InsertPost(s) \/ Publish(s) \/ SetFileId(s)
           \/ Reject(s) \/ RecordFailure(s) \/ Settle(s)
    PROVE  LocksOrdered(s)'
  <1>0. TypeOK /\ SessionInv(s) /\ run[s] \in Locals /\ tx[s].rows \subseteq Row
    BY DEF IInv, TypeOK, Writes
  <1>1. CASE OpenCycle(s)
    <2>1. /\ run[s].pc = "open" /\ run'[s].pc \in {"pick", "commit"}
          /\ run'[s].cur = run[s].cur /\ run'[s].rolled = run[s].rolled
          /\ tx'[s].rows = tx[s].rows \cup {CycleRow(run[s].cur)}
      BY <1>0, <1>1, OpenCycleShape
    <2>2. /\ \A r \in tx[s].rows : r[1] = "cycles"
          /\ ~run[s].rolled => tx[s].rows = {}
      BY <2>1 DEF LocksOrdered, CycleRow
    <2>3. CycleRow(run[s].cur)[1] = "cycles"
      BY DEF CycleRow
    <2>4. /\ \A r \in tx'[s].rows : r[1] = "cycles"
          /\ run'[s].rolled \/ tx'[s].rows \subseteq {CycleRow(run'[s].cur)}
      BY <2>1, <2>2, <2>3
    <2> QED
      BY <2>1, <2>4 DEF LocksOrdered, Publishing
  <1>2. CASE CloseCycle(s)
    <2>1. /\ run[s].pc = "close" /\ run'[s].pc = "number" /\ run'[s].rolled
          /\ tx'[s].rows = tx[s].rows \cup {CycleRow(run[s].cur)}
          /\ tx'[s].opened = tx[s].opened /\ UNCHANGED db
      BY <1>0, <1>2, CloseCycleShape
    <2>2. tx'[s].rows \subseteq {CycleRow(run[s].cur)}
      BY <2>1 DEF LocksOrdered
    <2>3. run[s].cur \in CyclesSeen(s)'
      BY <1>0, <2>1 DEF SessionInv, LocalsSet, Claiming, CyclesSeen, db
    <2>4. tx'[s].rows \subseteq {CycleRow(n) : n \in CyclesSeen(s)'}
      BY <2>2, <2>3
    <2> HIDE DEF CyclesSeen
    <2> QED
      BY <2>1, <2>4 DEF LocksOrdered, Publishing
  <1>3. CASE InsertPost(s)
    <2>1. /\ run[s].pc = "insert" /\ run'[s].pc = "send"
          /\ tx'[s].rows = tx[s].rows \cup {PostRow(CurrentPost(s))}
      BY <1>0, <1>3, InsertPostShape
    <2>2. /\ \A d \in Channel : ChannelRow(d) \notin tx'[s].rows
          /\ \A q : QuestionRow(q) \notin tx'[s].rows
      BY <2>1, RowsDiffer DEF LocksOrdered, ChannelRow, QuestionRow
    <2> QED
      BY <2>1, <2>2 DEF LocksOrdered, Publishing
  <1>4. CASE Publish(s)
    <2>1. /\ Publishing(s) /\ run'[s].pc \in {"send", "file_id"}
          /\ run'[s].pc = "file_id" => run[s].que \in Picture
          /\ tx'[s].rows = tx[s].rows /\ run'[s].que = run[s].que
      BY <1>0, <1>4, PublishShape DEF Publishing
    <2>2. PICK ch \in Channel : NextChannel(s, ch) /\ run'[s].todo = run[s].todo \ {ch}
      BY <1>0, <1>4, PublishShape
    <2>3. run'[s].todo \subseteq run[s].todo /\ \A e \in run'[s].todo : ch < e
      <3>1. /\ run[s].todo \subseteq Channel
            /\ \A e \in run[s].todo : ch <= e /\ e \in Nat /\ ch \in Nat
        BY <1>0, <2>2 DEF NextChannel, Locals
      <3> QED
        BY <2>2, <3>1
    <2>4. \A d \in Channel : ChannelRow(d) \in tx[s].rows => d < ch
      BY <2>1, <2>2 DEF LocksOrdered, NextChannel
    <2>5. /\ \A d \in Channel, e \in run'[s].todo : ChannelRow(d) \in tx'[s].rows => d < e
          /\ \A q \in Question : QuestionRow(q) \in tx'[s].rows => q = run'[s].que
      BY <2>1, <2>3 DEF LocksOrdered
    <2>6. run'[s].pc = "file_id" \/ QuestionRow(run'[s].que) \in tx'[s].rows =>
             run'[s].que \in Picture /\ \E c \in Channel : \A e \in run'[s].todo : c < e
      BY <2>1, <2>3 DEF LocksOrdered
    <2>7. \E c \in Channel : \A d \in Channel : ChannelRow(d) \in tx'[s].rows => d < c
      BY <2>1, <2>4
    <2> QED
      BY <2>1, <2>5, <2>6, <2>7 DEF LocksOrdered
  <1>7. CASE SetFileId(s)
    <2>1. /\ Publishing(s) /\ run[s].pc = "file_id" /\ run'[s].pc = "send"
          /\ run'[s].todo = run[s].todo /\ run'[s].que = run[s].que
          /\ tx'[s].rows = tx[s].rows \cup {QuestionRow(run[s].que)}
      BY <1>0, <1>7, SetFileIdShape DEF Publishing
    <2>2. \A d \in Channel, e \in run'[s].todo : ChannelRow(d) \in tx'[s].rows => d < e
      BY <2>1, RowsDiffer DEF LocksOrdered
    <2>3. \A q \in Question : QuestionRow(q) \in tx'[s].rows => q = run'[s].que
      BY <2>1, RowsDiffer DEF LocksOrdered
    <2>4. run'[s].que \in Picture /\ \E c \in Channel : \A e \in run'[s].todo : c < e
      BY <2>1 DEF LocksOrdered
    <2> QED
      BY <2>1, <2>2, <2>3, <2>4 DEF LocksOrdered
  <1>8. CASE Reject(s)
    <2>1. /\ Publishing(s) /\ run'[s].pc \in {"send", "failed", "lost"}
          /\ tx'[s].rows = tx[s].rows /\ run'[s].todo \subseteq run[s].todo
          /\ run'[s].que = run[s].que
      BY <1>0, <1>8, RejectShape DEF Publishing
    <2>2. QuestionRow(run'[s].que) \in tx'[s].rows =>
             run'[s].que \in Picture /\ \E c \in Channel : \A e \in run'[s].todo : c < e
      BY <2>1 DEF LocksOrdered
    <2> QED
      BY <2>1, <2>2 DEF LocksOrdered
  <1>5. CASE RecordFailure(s)
    <2>1. /\ Publishing(s) /\ run'[s].pc = "send" /\ run'[s].que = run[s].que
      BY <1>0, <1>5, RecordFailureShape
    <2>2. PICK ch \in Channel :
             /\ NextChannel(s, ch) /\ run'[s].todo = run[s].todo \ {ch}
             /\ tx'[s].rows = tx[s].rows \cup {ChannelRow(ch)}
      BY <1>0, <1>5, RecordFailureShape
    <2>3. ASSUME NEW d \in Channel, NEW e \in run'[s].todo, ChannelRow(d) \in tx'[s].rows
          PROVE  d < e
      <3>1. e \in run[s].todo /\ e # ch /\ ch <= e /\ e \in Nat /\ ch \in Nat
        BY <1>0, <2>2, <2>3 DEF NextChannel, Locals
      <3>2. CASE d = ch
        BY <3>1, <3>2
      <3>3. CASE ChannelRow(d) \in tx[s].rows
        BY <2>1, <3>1, <3>3 DEF LocksOrdered
      <3> QED
        BY <2>2, <2>3, <3>2, <3>3, RowsDiffer
    <2>4. \A q : QuestionRow(q) \in tx'[s].rows => QuestionRow(q) \in tx[s].rows
      BY <2>2, RowsDiffer
    <2>5. \A q \in Question : QuestionRow(q) \in tx'[s].rows => q = run'[s].que
      BY <2>1, <2>4 DEF LocksOrdered
    <2>6. QuestionRow(run'[s].que) \in tx'[s].rows =>
             run'[s].que \in Picture /\ \E c \in Channel : \A e \in run'[s].todo : c < e
      BY <2>1, <2>2, <2>4 DEF LocksOrdered
    <2> QED
      BY <2>1, <2>3, <2>5, <2>6 DEF LocksOrdered
  <1>6. CASE Settle(s)
    <2>1. run'[s].pc = "commit"
      BY <1>6, SettleShape
    <2> QED
      BY <2>1 DEF LocksOrdered, Publishing
  <1> QED
    BY <1>1, <1>2, <1>3, <1>4, <1>5, <1>6, <1>7, <1>8

(* No step, of whichever session, disorders the locks of any. *)
LEMMA NextOrdered ==
    ASSUME BatchSize = 1, IInv, [Next]_vars, \A t \in Session : LocksOrdered(t)
    PROVE  \A t \in Session : LocksOrdered(t)'
  <1>0. TypeOK
    BY DEF IInv
  <1>1. CASE UNCHANGED vars
    BY <1>1, OthersOrdered DEF vars, db
  <1>2. CASE Crash
    BY <1>2, OverOrdered DEF Crash
  <1>3. ASSUME NEW s \in Session, Begin(s) \/ Step(s) \/ DeadlockVictim(s)
        PROVE  \A t \in Session : LocksOrdered(t)'
    <2>1. CASE Abort(s)
      <3>1. /\ tx'[s] = NoWrites /\ run'[s] = Idle /\ UNCHANGED db
            /\ \A t \in Session \ {s} : tx'[t] = tx[t] /\ run'[t] = run[t]
        BY <1>0, <2>1 DEF Abort, TypeOK
      <3> QED
        BY <3>1, OverOrdered, OthersOrdered DEF db
    <2>2. CASE \/ Begin(s) \/ ListChannels(s) \/ PressFindsNoChannel(s) \/ FindOpenCycle(s)
               \/ ReadHighest(s) \/ Pick(s) \/ PickNothing(s) \/ (InsertCollides(s) /\ ~Abort(s))
      <3>1. UNCHANGED <<db, tx>> /\ \A t \in Session \ {s} : run'[t] = run[t]
        BY <1>0, <2>2, LookShape
      <3>2. LocksOrdered(s)'
        BY <2>2, LookOrdered
      <3> QED
        BY <3>1, <3>2, OthersOrdered DEF db
    <2>3. CASE \/ OpenCycle(s) \/ CloseCycle(s) \/ InsertPost(s) \/ Publish(s) \/ SetFileId(s)
               \/ Reject(s) \/ RecordFailure(s) \/ Settle(s)
      <3>1. UNCHANGED db /\ \A t \in Session \ {s} : run'[t] = run[t] /\ tx'[t] = tx[t]
        BY <1>0, <2>3, OpenCycleShape, CloseCycleShape, InsertPostShape, PublishShape,
           SetFileIdShape, RejectShape, RecordFailureShape, SettleShape
      <3>2. LocksOrdered(s)'
        BY <2>3, WriteOrdered
      <3> QED
        BY <3>1, <3>2, OthersOrdered DEF db
    <2>4. CASE Commit(s)
      <3>1. /\ tx'[s] = NoWrites /\ run'[s] = Idle
            /\ \A t \in Session \ {s} : tx'[t] = tx[t] /\ run'[t] = run[t]
        BY <1>0, <2>4 DEF Commit, TypeOK
      <3>2. openCycles \cup closedCycles \subseteq openCycles' \cup closedCycles'
        BY <2>4 DEF Commit
      <3> QED
        BY <3>1, <3>2, OverOrdered, OthersOrdered
    <2>5. CASE DeadlockVictim(s) \/ JobFindsNoChannel(s) \/ OpenCollides(s) \/ AnswerFails(s)
      BY <2>1, <2>5 DEF DeadlockVictim, JobFindsNoChannel, OpenCollides, AnswerFails
    <2> QED
      BY <1>3, <2>1, <2>2, <2>3, <2>4, <2>5 DEF Step
  <1> QED
    BY <1>1, <1>2, <1>3 DEF Next, Quiescent

(* However many batches of one question run at once, and whatever crashes or
   fails, no circle of them waits for each other, where no question has a
   picture or an owner at most two channels: their rows are locked in one order,
   the cycles' by number, the claim's, the channels' by id, and the question's
   (set_file_id) where it cannot close a circle. *)
THEOREM BatchesNeverDeadlock ==
    ASSUME BatchSize = 1, FileIdsInOrder PROVE Spec => []NeverDeadlocked
  <1> DEFINE LInv == IInv /\ \A t \in Session : LocksOrdered(t)
  <1>1. Init => LInv
    <2> SUFFICES ASSUME Init PROVE LInv
      OBVIOUS
    <2>1. \A t \in Session : LocksOrdered(t)
      BY DEF Init, NoWrites, Idle, LocksOrdered, Publishing
    <2> QED
      BY <2>1, InitInv
  <1>2. LInv /\ [Next]_vars => LInv'
    BY NextInv, NextOrdered
  <1>3. LInv => NeverDeadlocked
    BY OrderedNeverDeadlocked
  <1> QED
    BY <1>1, <1>2, <1>3, PTL DEF Spec


--------------------------------------------------------------------------------
(* That what such batches posted stays claimed, and is posted once. *)

(* A step that leaves the channels' content and this session alone. *)
LEMMA OthersInHand ==
    ASSUME NEW t \in Session, ClaimInHand(t), tx'[t] = tx[t], run'[t] = run[t],
           Publishing(t) => \A ch \in run[t].todo : <<ch, CurrentPost(t)>> \notin shown'
    PROVE  ClaimInHand(t)'
  BY DEF ClaimInHand, Publishing, CurrentPost

(* What is recorded stays so while no record is taken back. *)
LEMMA RecordsStay ==
    ASSUME Recorded, shown' = shown,
           \A x \in shown, t \in Session :
              x[2] \in tx[t].ins /\ <<x[2], x[1], "sent">> \in tx[t].dlv =>
                 \/ x[2] \in posts'
                 \/ x[2] \in tx'[t].ins /\ <<x[2], x[1], "sent">> \in tx'[t].dlv,
           posts \subseteq posts'
    PROVE  Recorded'
  BY DEF Recorded

(* Before its claim a session has nothing to lose. *)
LEMMA NothingYet ==
    ASSUME NEW s \in Session, ClaimInHand(s), ~Publishing(s), run[s].pc # "commit"
    PROVE  tx[s].ins = {}
  BY DEF ClaimInHand

(* So a rollback then takes nothing back. *)
LEMMA AbortShown ==
    ASSUME IInv, ShownInv, NEW s \in Session, Abort(s), tx[s].ins = {}
    PROVE  Recorded' /\ NoRepeatInCycle' /\ \A t \in Session : ClaimInHand(t)'
  <1>0. TypeOK /\ Recorded /\ NoRepeatInCycle /\ \A t \in Session : ClaimInHand(t)
    BY DEF IInv, ShownInv
  <1>1. /\ tx'[s] = NoWrites /\ run'[s] = Idle /\ UNCHANGED <<db, feed>>
        /\ \A t \in Session \ {s} : tx'[t] = tx[t] /\ run'[t] = run[t]
    BY <1>0 DEF Abort, TypeOK
  <1>2. posts' = posts /\ shown' = shown /\ repeats' = repeats
    BY <1>1 DEF db, feed
  <1>3. Recorded'
    BY <1>0, <1>1, <1>2, RecordsStay
  <1>4. ClaimInHand(s)'
    BY <1>1 DEF ClaimInHand, NoWrites, Idle, Publishing
  <1>5. ASSUME NEW t \in Session \ {s} PROVE ClaimInHand(t)'
    <2>1. Publishing(t) => \A ch \in run[t].todo : <<ch, CurrentPost(t)>> \notin shown'
      BY <1>0, <1>2 DEF ClaimInHand
    <2> QED
      BY <1>0, <1>1, <2>1, OthersInHand
  <1> QED
    BY <1>0, <1>2, <1>3, <1>4, <1>5 DEF NoRepeatInCycle

(* The steps that look or lock, and the ones that record a failure. *)
LEMMA SilentShown ==
    ASSUME IInv, ShownInv, NEW s \in Session,
           UNCHANGED <<db, feed>>, \A t \in Session \ {s} : tx'[t] = tx[t] /\ run'[t] = run[t],
           tx'[s].ins = tx[s].ins, tx[s].dlv \subseteq tx'[s].dlv,
           \/ ~Publishing(s) /\ run[s].pc # "commit" /\ ~Publishing(s)'
           \/ /\ Publishing(s) /\ Publishing(s)' /\ CurrentPost(s)' = CurrentPost(s)
              /\ run'[s].todo \subseteq run[s].todo
    PROVE  Recorded' /\ NoRepeatInCycle' /\ \A t \in Session : ClaimInHand(t)'
  <1>0. TypeOK /\ Recorded /\ NoRepeatInCycle /\ \A t \in Session : ClaimInHand(t)
    BY DEF IInv, ShownInv
  <1>1. posts' = posts /\ shown' = shown /\ repeats' = repeats
    BY DEF db, feed
  <1>2. \A x \in shown, t \in Session :
           x[2] \in tx[t].ins /\ <<x[2], x[1], "sent">> \in tx[t].dlv =>
              x[2] \in tx'[t].ins /\ <<x[2], x[1], "sent">> \in tx'[t].dlv
    OBVIOUS
  <1>3. Recorded'
    BY <1>0, <1>1, <1>2, RecordsStay
  <1>4. CASE ~Publishing(s) /\ run[s].pc # "commit" /\ ~Publishing(s)'
    <2>1. tx'[s].ins = {}
      BY <1>0, <1>4, NothingYet
    <2> QED
      <3>1. ClaimInHand(s)'
        BY <1>4, <2>1 DEF ClaimInHand
      <3>2. ASSUME NEW t \in Session \ {s} PROVE ClaimInHand(t)'
        <4>1. Publishing(t) => \A ch \in run[t].todo : <<ch, CurrentPost(t)>> \notin shown'
          BY <1>0, <1>1 DEF ClaimInHand
        <4> QED
          BY <1>0, <4>1, OthersInHand
      <3> QED
        BY <1>0, <1>1, <1>3, <3>1, <3>2 DEF NoRepeatInCycle
  <1>5. CASE /\ Publishing(s) /\ Publishing(s)' /\ CurrentPost(s)' = CurrentPost(s)
             /\ run'[s].todo \subseteq run[s].todo
    <2>1. \A ch \in run[s].todo : <<ch, CurrentPost(s)>> \notin shown
      BY <1>0, <1>5 DEF ClaimInHand
    <2>2. \A ch \in run'[s].todo : <<ch, CurrentPost(s)'>> \notin shown'
      BY <1>1, <1>5, <2>1
    <2>3. ClaimInHand(s)'
      BY <1>5, <2>2 DEF ClaimInHand
    <2>4. ASSUME NEW t \in Session \ {s} PROVE ClaimInHand(t)'
      <3>1. Publishing(t) => \A ch \in run[t].todo : <<ch, CurrentPost(t)>> \notin shown'
        BY <1>0, <1>1 DEF ClaimInHand
      <3> QED
        BY <1>0, <3>1, OthersInHand
    <2> QED
      BY <1>0, <1>1, <1>3, <2>3, <2>4 DEF NoRepeatInCycle
  <1> QED
    BY <1>4, <1>5

(* A question can be claimed again only if nobody has seen it in this cycle. *)
LEMMA InsertShown ==
    ASSUME IInv, ShownInv, NEW s \in Session, InsertPost(s)
    PROVE  Recorded' /\ NoRepeatInCycle' /\ \A t \in Session : ClaimInHand(t)'
  <1>0. TypeOK /\ Recorded /\ NoRepeatInCycle /\ \A t \in Session : ClaimInHand(t) /\ RowsHeld(t)
    BY DEF IInv, ShownInv, SessionInv
  <1> DEFINE p == CurrentPost(s)
  <1>1. /\ UNCHANGED <<db, feed>> /\ run[s].pc = "insert" /\ run'[s].pc = "send"
        /\ \A t \in Session \ {s} : run'[t] = run[t] /\ tx'[t] = tx[t]
        /\ CurrentPost(s)' = p /\ tx'[s].ins = tx[s].ins \cup {p} /\ tx'[s].dlv = tx[s].dlv
        /\ Granted(s) /\ p \notin posts /\ p \notin tx[s].ins
    BY <1>0, InsertPostShape DEF Claims
  <1>2. posts' = posts /\ shown' = shown /\ repeats' = repeats
    BY <1>1 DEF db, feed
  <1>3. \A x \in shown : x[2] # p
    <2> SUFFICES ASSUME NEW x \in shown, x[2] = p PROVE FALSE
      OBVIOUS
    <2>0. x[2] \in posts \/ \E t \in Session : x[2] \in tx[t].ins
      BY <1>0 DEF Recorded
    <2>1. PICK t \in Session : p \in tx[t].ins
      BY <1>1, <2>0
    <2>2. t # s /\ PostRow(p) \in tx[t].rows
      BY <1>0, <1>1, <2>1 DEF RowsHeld
    <2>3. PostRow(p) \in Wanted(s)
      BY <1>1 DEF Wanted
    <2> QED
      BY <1>1, <2>2, <2>3 DEF Granted, Holders
  <1>4. \A ch : <<ch, p>> \notin shown
    BY <1>3
  <1>5. ClaimInHand(s)'
    <2>1. Publishing(s)' /\ \A ch \in run'[s].todo : <<ch, CurrentPost(s)'>> \notin shown'
      BY <1>1, <1>2, <1>4 DEF Publishing
    <2> QED
      BY <2>1 DEF ClaimInHand
  <1>6. ASSUME NEW t \in Session \ {s} PROVE ClaimInHand(t)'
    <2>1. Publishing(t) => \A ch \in run[t].todo : <<ch, CurrentPost(t)>> \notin shown'
      BY <1>0, <1>2 DEF ClaimInHand
    <2> QED
      BY <1>0, <1>1, <2>1, OthersInHand
  <1>7. Recorded'
    BY <1>0, <1>1, <1>2, RecordsStay
  <1> QED
    BY <1>0, <1>2, <1>5, <1>6, <1>7 DEF NoRepeatInCycle

(* A poll appears in a channel that had not seen it, and is recorded there. *)
LEMMA PublishShown ==
    ASSUME IInv, ShownInv, NEW s \in Session, Publish(s)
    PROVE  Recorded' /\ NoRepeatInCycle' /\ \A t \in Session : ClaimInHand(t)'
  <1>0. /\ TypeOK /\ LocksExclusive /\ Recorded /\ NoRepeatInCycle
        /\ \A t \in Session : ClaimInHand(t) /\ RowsHeld(t) /\ LocalsSet(t)
    BY DEF IInv, ShownInv, SessionInv
  <1> DEFINE p == CurrentPost(s)
  <1>1. /\ UNCHANGED db /\ run[s].pc = "send" /\ run'[s].pc \in {"send", "file_id"}
        /\ \A t \in Session \ {s} : run'[t] = run[t] /\ tx'[t] = tx[t]
        /\ CurrentPost(s)' = p /\ tx'[s].ins = tx[s].ins
    BY <1>0, PublishShape
  <1>2. PICK ch \in Channel :
           /\ ch \in run[s].todo /\ Appear(ch, p)
           /\ run'[s].todo = run[s].todo \ {ch}
           /\ tx'[s].dlv = tx[s].dlv \cup {<<p, ch, "sent">>}
    BY <1>0, PublishShape DEF NextChannel
  <1>3. Publishing(s) /\ Publishing(s)' /\ p \in tx[s].ins
    BY <1>0, <1>1 DEF Publishing, LocalsSet
  <1>4. \A c \in run[s].todo : <<c, p>> \notin shown
    BY <1>0, <1>3 DEF ClaimInHand
  <1>5. shown' = shown \cup {<<ch, p>>} /\ repeats' = {}
    BY <1>0, <1>2, <1>4 DEF Appear, NoRepeatInCycle
  <1>6. Recorded'
    <2> SUFFICES ASSUME NEW x \in shown'
                 PROVE  \/ x[2] \in posts'
                        \/ \E t \in Session :
                              x[2] \in tx'[t].ins /\ <<x[2], x[1], "sent">> \in tx'[t].dlv
      BY DEF Recorded
    <2>1. CASE x \in shown
      BY <1>0, <1>1, <1>2, <2>1 DEF Recorded, db
    <2>2. CASE x = <<ch, p>>
      <3>1. x[1] = ch /\ x[2] = p
        BY <2>2
      <3> QED
        BY <1>1, <1>2, <1>3, <3>1
    <2> QED
      BY <1>5, <2>1, <2>2
  <1>7. ClaimInHand(s)'
    <2>1. \A c \in run'[s].todo : <<c, CurrentPost(s)'>> \notin shown'
      BY <1>1, <1>2, <1>4, <1>5
    <2> QED
      BY <1>3, <2>1 DEF ClaimInHand
  <1>8. ASSUME NEW t \in Session \ {s} PROVE ClaimInHand(t)'
    <2>1. ASSUME Publishing(t), NEW c \in run[t].todo PROVE <<c, CurrentPost(t)>> \notin shown'
      <3>1. CurrentPost(t) \in tx[t].ins
        BY <1>0, <2>1 DEF LocalsSet
      <3>2. CurrentPost(t) # p
        BY <1>0, <1>3, <3>1 DEF RowsHeld, LocksExclusive
      <3>3. <<c, CurrentPost(t)>> \notin shown
        BY <1>0, <2>1 DEF ClaimInHand
      <3> QED
        BY <1>5, <3>2, <3>3
    <2> QED
      BY <1>0, <1>1, <2>1, OthersInHand
  <1> QED
    BY <1>5, <1>6, <1>7, <1>8 DEF NoRepeatInCycle


(* Only a claim that reached nobody is given back. *)
LEMMA SettleShown ==
    ASSUME BatchSize = 1, IInv, ShownInv, NEW s \in Session, Settle(s)
    PROVE  Recorded' /\ NoRepeatInCycle' /\ \A t \in Session : ClaimInHand(t)'
  <1>0. TypeOK /\ Recorded /\ NoRepeatInCycle /\ \A t \in Session : ClaimInHand(t)
    BY DEF IInv, ShownInv
  <1> DEFINE p == CurrentPost(s)
  <1>1. /\ UNCHANGED <<db, feed>> /\ run'[s].pc = "commit"
        /\ \A t \in Session \ {s} : run'[t] = run[t] /\ tx'[t] = tx[t]
        /\ \/ tx'[s] = tx[s]
           \/ /\ ~Reached(s) /\ tx'[s].ins = tx[s].ins \ {p}
              /\ tx'[s].dlv = {d \in tx[s].dlv : d[1] # p}
    BY <1>0, SettleShape
  <1>2. posts' = posts /\ shown' = shown /\ repeats' = repeats
    BY <1>1 DEF db, feed
  <1>3. ASSUME NEW x \in shown, x[2] \in tx[s].ins, <<x[2], x[1], "sent">> \in tx[s].dlv
        PROVE  x[2] \in tx'[s].ins /\ <<x[2], x[1], "sent">> \in tx'[s].dlv
    <2>1. x[1] \in Channel
      BY <1>0 DEF TypeOK
    <2>2. ~Reached(s) => x[2] # p
      BY <1>3, <2>1 DEF Reached
    <2> HIDE DEF p
    <2> QED
      BY <1>1, <1>3, <2>2
  <1>4. Recorded'
    BY <1>0, <1>1, <1>2, <1>3, RecordsStay
  <1>5. ClaimInHand(s)'
    BY <1>1 DEF ClaimInHand, Publishing
  <1>6. ASSUME NEW t \in Session \ {s} PROVE ClaimInHand(t)'
    <2>1. Publishing(t) => \A ch \in run[t].todo : <<ch, CurrentPost(t)>> \notin shown'
      BY <1>0, <1>2 DEF ClaimInHand
    <2> QED
      BY <1>0, <1>1, <2>1, OthersInHand
  <1> QED
    BY <1>0, <1>2, <1>4, <1>5, <1>6 DEF NoRepeatInCycle

(* A commit keeps the claims with their records. *)
LEMMA CommitShown ==
    ASSUME IInv, ShownInv, NEW s \in Session, Commit(s)
    PROVE  Recorded' /\ NoRepeatInCycle' /\ \A t \in Session : ClaimInHand(t)'
  <1>0. TypeOK /\ Recorded /\ NoRepeatInCycle /\ \A t \in Session : ClaimInHand(t)
    BY DEF IInv, ShownInv
  <1>1. /\ tx'[s] = NoWrites /\ run'[s] = Idle /\ posts' = posts \cup tx[s].ins
        /\ \A t \in Session \ {s} : run'[t] = run[t] /\ tx'[t] = tx[t]
    BY <1>0 DEF Commit, TypeOK
  <1>2. shown' = shown /\ repeats' = repeats
    BY DEF Commit, feed
  <1>3. Recorded'
    BY <1>0, <1>1, <1>2, RecordsStay
  <1>4. ClaimInHand(s)'
    BY <1>1 DEF ClaimInHand, Publishing, NoWrites, Idle
  <1>5. ASSUME NEW t \in Session \ {s} PROVE ClaimInHand(t)'
    <2>1. Publishing(t) => \A ch \in run[t].todo : <<ch, CurrentPost(t)>> \notin shown'
      BY <1>0, <1>2 DEF ClaimInHand
    <2> QED
      BY <1>0, <1>1, <2>1, OthersInHand
  <1> QED
    BY <1>0, <1>2, <1>3, <1>4, <1>5 DEF NoRepeatInCycle

(* Batches of one question that cannot deadlock, while the process stays up, no
   send is reported failed that Telegram took, and the answer to a press gets
   through: nothing rolls back what such a batch has posted. *)
Undisturbed ==
    BatchSize = 1 /\ FileIdsInOrder /\ MaxCrashes = 0 /\ ~LateReplies /\ ~AnswersFail

(* Every step keeps records and claims together. *)
LEMMA NextShown ==
    ASSUME Undisturbed, IInv, ShownInv, [Next]_vars
    PROVE  ShownInv'
  <1> USE DEF Undisturbed
  <1>0. /\ TypeOK /\ Recorded /\ NoRepeatInCycle
        /\ \A t \in Session : ClaimInHand(t) /\ LocksOrdered(t)
    BY DEF IInv, ShownInv
  <1>1. \A t \in Session : LocksOrdered(t)'
    BY <1>0, NextOrdered
  <1>2. CASE UNCHANGED vars
    <2>1. /\ posts' = posts /\ shown' = shown /\ repeats' = repeats
          /\ \A t \in Session : tx'[t] = tx[t] /\ run'[t] = run[t]
      BY <1>2 DEF vars, db, feed
    <2>2. Recorded'
      BY <1>0, <2>1, RecordsStay
    <2>3. ASSUME NEW t \in Session PROVE ClaimInHand(t)'
      <3>1. Publishing(t) => \A ch \in run[t].todo : <<ch, CurrentPost(t)>> \notin shown'
        BY <1>0, <2>1 DEF ClaimInHand
      <3> QED
        BY <1>0, <2>1, <3>1, OthersInHand
    <2> QED
      BY <1>0, <1>1, <2>1, <2>2, <2>3 DEF NoRepeatInCycle, ShownInv
  <1>3. ~Crash
    BY <1>0 DEF Crash, TypeOK
  <1>4. ASSUME NEW s \in Session, Begin(s) \/ Step(s) \/ DeadlockVictim(s)
        PROVE  Recorded' /\ NoRepeatInCycle' /\ \A t \in Session : ClaimInHand(t)'
    <2>1. CASE Abort(s) /\ run[s].pc \in {"channels", "open", "insert"}
      <3>1. tx[s].ins = {}
        BY <1>0, <2>1, NothingYet DEF Publishing
      <3> QED
        BY <2>1, <3>1, AbortShown
    <2>2. CASE \/ Begin(s) \/ ListChannels(s) \/ PressFindsNoChannel(s) \/ FindOpenCycle(s)
               \/ ReadHighest(s) \/ Pick(s) \/ PickNothing(s) \/ (InsertCollides(s) /\ ~Abort(s))
      <3>1. /\ UNCHANGED <<db, tx, feed>> /\ \A t \in Session \ {s} : run'[t] = run[t]
            /\ ~Publishing(s) /\ run[s].pc # "commit" /\ ~Publishing(s)'
        BY <1>0, <2>2, LookShape DEF Publishing
      <3> QED
        BY <3>1, SilentShown
    <2>3. CASE OpenCycle(s) \/ CloseCycle(s)
      <3>1. /\ UNCHANGED <<db, feed>>
            /\ \A t \in Session \ {s} : run'[t] = run[t] /\ tx'[t] = tx[t]
            /\ tx'[s].ins = tx[s].ins /\ tx'[s].dlv = tx[s].dlv
            /\ ~Publishing(s) /\ run[s].pc # "commit" /\ ~Publishing(s)'
        BY <1>0, <2>3, OpenCycleShape, CloseCycleShape DEF Publishing
      <3> QED
        BY <3>1, SilentShown
    <2>4. CASE SetFileId(s) \/ Reject(s) \/ RecordFailure(s)
      <3>1. /\ UNCHANGED <<db, feed>>
            /\ \A t \in Session \ {s} : run'[t] = run[t] /\ tx'[t] = tx[t]
            /\ tx'[s].ins = tx[s].ins /\ tx[s].dlv \subseteq tx'[s].dlv
            /\ Publishing(s) /\ Publishing(s)' /\ CurrentPost(s)' = CurrentPost(s)
            /\ run'[s].todo \subseteq run[s].todo
        BY <1>0, <2>4, SetFileIdShape, RejectShape, RecordFailureShape DEF Publishing
      <3> QED
        BY <3>1, SilentShown
    <2>5. ~DeadlockVictim(s)
      BY <1>0, OrderedNeverDeadlocked DEF DeadlockVictim, NeverDeadlocked
    <2>6. CASE JobFindsNoChannel(s) \/ OpenCollides(s) \/ InsertCollides(s)
      BY <2>1, <2>2, <2>6 DEF JobFindsNoChannel, OpenCollides, InsertCollides
    <2>7. CASE InsertPost(s)
      BY <2>7, InsertShown
    <2>8. CASE Publish(s)
      BY <2>8, PublishShown
    <2>9. CASE Settle(s)
      BY <2>9, SettleShown
    <2>10. CASE Commit(s)
      BY <2>10, CommitShown
    <2> QED
      BY <1>4, <2>2, <2>3, <2>4, <2>5, <2>6, <2>7, <2>8, <2>9, <2>10 DEF Step, AnswerFails
  <1>5. CASE \E s \in Session : Begin(s) \/ Step(s) \/ DeadlockVictim(s)
    BY <1>1, <1>4, <1>5 DEF ShownInv
  <1> QED
    BY <1>2, <1>3, <1>5 DEF Next, Quiescent

(* Undisturbed batches of one question, however many at once, keep every poll
   that stands in a channel on record with its claim, and show it there once. *)
THEOREM ShownInductive ==
    ASSUME Undisturbed PROVE Spec => []ShownInv
  <1>1. Init => ShownInv
    <2> SUFFICES ASSUME Init PROVE ShownInv
      OBVIOUS
    <2>1. \A t \in Session : LocksOrdered(t) /\ ClaimInHand(t)
      BY DEF Init, NoWrites, Idle, LocksOrdered, ClaimInHand, Publishing
    <2>2. Recorded /\ NoRepeatInCycle
      BY DEF Init, Recorded, NoRepeatInCycle
    <2> QED
      BY <2>1, <2>2 DEF ShownInv
  <1>2. IInv /\ ShownInv /\ [Next]_vars => ShownInv'
    BY NextShown
  <1> QED
    BY <1>1, <1>2, Inductive, PTL DEF Spec

(* A posted question is not served again: its claim stays. *)
THEOREM PostedStaysClaimed ==
    ASSUME Undisturbed PROVE Spec => []ShownStaysClaimed
  <1>1. ShownInv => ShownStaysClaimed
    BY DEF ShownInv, Recorded, ShownStaysClaimed
  <1> QED
    BY <1>1, ShownInductive, PTL

(* No channel sees a question twice in one cycle. *)
THEOREM PostedOnce ==
    ASSUME Undisturbed PROVE Spec => []NoRepeatInCycle
  <1>1. ShownInv => NoRepeatInCycle
    BY DEF ShownInv
  <1> QED
    BY <1>1, ShownInductive, PTL
================================================================================
