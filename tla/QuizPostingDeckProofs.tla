------------------------- MODULE QuizPostingDeckProofs -------------------------
(***************************************************************************)
(* For every set of questions and channels, any batch size, failures and   *)
(* crashes: a single writer keeps one cycle open, and implements           *)
(* QuestionDeck step by step (QuizPostingDeck).                            *)
(***************************************************************************)
EXTENDS QuizPostingDeck, QuizPostingProofs

USE QuestionAssumption, ChannelAssumption, ManualAssumption, BatchAssumption,
    AttemptsAssumption, SwitchAssumption, BoundAssumption
    DEF Proceed, Write

(* The tables and the writes that decide what a session sees of the cycles. *)
View(s) == <<openCycles, closedCycles, posts, tx[s].ins, tx[s].opened, tx[s].shut>>

--------------------------------------------------------------------------------
(* The highest number of a set that has one. *)
LEMMA HighestIs ==
    ASSUME NEW S \in SUBSET Nat, NEW n \in S, \A m \in S : m <= n
    PROVE  Highest(S) = n
  <1> DEFINE h == CHOOSE x \in S : \A m \in S : m <= x
  <1>1. h \in S /\ \A m \in S : m <= h
    OBVIOUS
  <1>2. h <= n /\ n <= h /\ h \in Nat /\ n \in Nat
    BY <1>1
  <1>3. Highest(S) = h
    BY DEF Highest
  <1> HIDE DEF h
  <1> QED
    BY <1>2, <1>3

(* Where no cycle is above an open one, the current cycle is the last one. *)
LEMMA CurrentIs ==
    ASSUME NEW open \in SUBSET Nat, NEW all \in SUBSET Nat, open \subseteq all,
           \A c \in open, n \in all : n <= c
    PROVE  /\ \A n \in all : (\A m \in all : m <= n) => CurrentCycle(open, all) = n
           /\ \A c \in open : CurrentCycle(open, all) = c
           /\ all = {} => CurrentCycle(open, all) = 0
  <1>1. ASSUME NEW c \in open PROVE CurrentCycle(open, all) = c
    <2>1. Highest(open) = c
      BY HighestIs
    <2> QED
      BY <2>1 DEF CurrentCycle
  <1>2. ASSUME NEW n \in all, \A m \in all : m <= n PROVE CurrentCycle(open, all) = n
    <2>1. CASE open = {}
      <3>1. Highest(all) = n
        BY <1>2, HighestIs
      <3> QED
        BY <2>1, <3>1 DEF CurrentCycle
    <2>2. ASSUME NEW c \in open PROVE CurrentCycle(open, all) = n
      <3>1. c <= n /\ n <= c /\ c \in Nat /\ n \in Nat
        BY <1>2
      <3> QED
        BY <3>1, <1>1
    <2> QED
      BY <2>1, <2>2
  <1>3. all = {} => CurrentCycle(open, all) = 0
    BY DEF CurrentCycle, Highest
  <1> QED
    BY <1>1, <1>2, <1>3

(* Cycle numbers are positive, and what a session sees open it sees. *)
LEMMA Numbers ==
    ASSUME TypeOK, NEW s \in Session
    PROVE  /\ CyclesSeen(s) \in SUBSET Nat /\ \A n \in CyclesSeen(s) : n > 0
           /\ OpenSeen(s) \subseteq CyclesSeen(s) /\ OpenSeen(s) \in SUBSET Nat
           /\ openCycles \in SUBSET Nat /\ closedCycles \in SUBSET Nat
  <1>1. CyclesSeen(s) \subseteq CycleNo /\ openCycles \subseteq CycleNo
        /\ closedCycles \subseteq CycleNo
    BY SeenTyped DEF TypeOK
  <1>2. OpenSeen(s) \subseteq CyclesSeen(s)
    BY DEF OpenSeen, CyclesSeen
  <1> QED
    BY <1>1, <1>2 DEF CycleNo

--------------------------------------------------------------------------------
(* The writer's invariant, step by step. *)

(* A step that leaves the view alone keeps it when the new phase has what it
   relies on. *)
LEMMA ViewKept ==
    ASSUME NEW s \in Session, WriterInv(s), SavedInv, View(s)' = View(s),
           run'[s].pc \in {"number", "open"} => OpenSeen(s) = {},
           run'[s].pc = "open" => /\ run'[s].cur - 1 \in CyclesSeen(s) \cup {0}
                                  /\ \A n \in CyclesSeen(s) : n < run'[s].cur,
           Claiming(s)' => run'[s].cur \in OpenSeen(s)
    PROVE  WriterInv(s)' /\ SavedInv'
  <1>1. /\ openCycles' = openCycles /\ closedCycles' = closedCycles /\ posts' = posts
        /\ tx'[s].ins = tx[s].ins /\ tx'[s].opened = tx[s].opened
        /\ tx'[s].shut = tx[s].shut
    BY DEF View
  <1>2. /\ OpenSeen(s)' = OpenSeen(s) /\ CyclesSeen(s)' = CyclesSeen(s)
        /\ Claims(s)' = Claims(s)
    BY <1>1 DEF OpenSeen, CyclesSeen, Claims
  <1>3. SavedInv'
    BY <1>1 DEF SavedInv
  <1>4. WriterInv(s)'
    BY <1>2 DEF WriterInv
  <1> QED
    BY <1>3, <1>4

(* The steps that decide what to do next. *)
LEMMA LookKept ==
    ASSUME IInv, NEW s \in Session, WriterInv(s), SavedInv,
           \/ Begin(s) \/ ListChannels(s) \/ PressFindsNoChannel(s)
           \/ FindOpenCycle(s) \/ ReadHighest(s) \/ Pick(s) \/ PickNothing(s)
    PROVE  View(s)' = View(s) /\ WriterInv(s)' /\ SavedInv'
  <1>0. TypeOK /\ run[s] \in Locals /\ CyclesSeen(s) \in SUBSET Nat
    BY Numbers DEF IInv, TypeOK
  <1>1. UNCHANGED <<db, tx>>
    BY DEF Begin, ListChannels, PressFindsNoChannel, FindOpenCycle, ReadHighest, Pick,
           PickNothing
  <1>2. View(s)' = View(s)
    BY <1>1 DEF db, View
  <1>3. CASE Begin(s) \/ ListChannels(s) \/ PressFindsNoChannel(s)
    <2>a. Begin(s) => run'[s].pc = "channels"
      BY <1>0 DEF Begin, TypeOK, Idle
    <2>b. ListChannels(s) => run'[s].pc = "cycle"
      BY <1>0 DEF ListChannels, TypeOK, Locals
    <2>c. PressFindsNoChannel(s) => run'[s].pc = "commit"
      BY <1>0 DEF PressFindsNoChannel, TypeOK, Locals
    <2>1. run'[s].pc \in {"channels", "cycle", "commit"}
      BY <1>3, <2>a, <2>b, <2>c
    <2>2. ~Claiming(s)'
      BY <2>1 DEF Claiming, Publishing
    <2> QED
      BY <1>2, <2>1, <2>2, ViewKept
  <1>4. CASE FindOpenCycle(s)
    <2>1. \/ run'[s].pc = "number" /\ OpenSeen(s) = {}
          \/ run'[s].pc = "pick" /\ run'[s].cur \in OpenSeen(s)
      <3>1. \/ /\ run' = [run EXCEPT ![s] = [run[s] EXCEPT !.pc = "number", !.tries = 1]]
               /\ OpenSeen(s) = {}
            \/ \E c \in OpenSeen(s) :
                 run' = [run EXCEPT ![s] = [run[s] EXCEPT !.pc = "pick", !.cur = c, !.tries = 1]]
        BY <1>4 DEF FindOpenCycle
      <3>2. CASE /\ run' = [run EXCEPT ![s] = [run[s] EXCEPT !.pc = "number", !.tries = 1]]
                 /\ OpenSeen(s) = {}
        <4>1. run'[s] = [run[s] EXCEPT !.pc = "number", !.tries = 1]
          BY <1>0, <3>2 DEF TypeOK
        <4>2. run'[s].pc = "number"
          BY <1>0, <4>1 DEF Locals
        <4> QED
          BY <3>2, <4>2
      <3>3. CASE \E c \in OpenSeen(s) :
                   run' = [run EXCEPT ![s] = [run[s] EXCEPT !.pc = "pick", !.cur = c, !.tries = 1]]
        <4>1. PICK c \in OpenSeen(s) :
                 run' = [run EXCEPT ![s] = [run[s] EXCEPT !.pc = "pick", !.cur = c, !.tries = 1]]
          BY <3>3
        <4>2. run'[s] = [run[s] EXCEPT !.pc = "pick", !.cur = c, !.tries = 1]
          BY <1>0, <4>1 DEF TypeOK
        <4>3. run'[s].pc = "pick" /\ run'[s].cur = c
          BY <1>0, <4>2 DEF Locals
        <4> QED
          BY <4>3
      <3> QED
        BY <3>1, <3>2, <3>3
    <2>2. run'[s].pc = "number" => ~Claiming(s)'
      BY DEF Claiming, Publishing
    <2> QED
      BY <1>2, <2>1, <2>2, ViewKept
  <1>5. CASE ReadHighest(s)
    <2>1. PICK h \in CyclesSeen(s) \cup {0} :
             /\ \A n \in CyclesSeen(s) : n <= h
             /\ run' = [run EXCEPT ![s] = [run[s] EXCEPT !.pc = "open", !.cur = h + 1]]
      BY <1>5 DEF ReadHighest
    <2>2. run[s].pc = "number" /\ run'[s].pc = "open" /\ run'[s].cur = h + 1
      BY <1>0, <1>5, <2>1 DEF ReadHighest, TypeOK, Locals
    <2>3. h \in Nat /\ \A n \in CyclesSeen(s) : n < h + 1
      BY <1>0, <2>1
    <2>4. run'[s].cur - 1 = h /\ OpenSeen(s) = {}
      BY <2>2, <2>3 DEF WriterInv
    <2>5. ~Claiming(s)'
      BY <2>2 DEF Claiming, Publishing
    <2> QED
      BY <1>2, <2>1, <2>2, <2>3, <2>4, <2>5, ViewKept
  <1>6. CASE Pick(s) \/ PickNothing(s)
    <2>1. /\ run[s].pc = "pick" /\ run'[s].cur = run[s].cur
          /\ run'[s].pc \in {"insert", "commit", "close"}
      <3>1. CASE Pick(s)
        <4>1. PICK q \in Unused(s) :
                 run' = [run EXCEPT ![s] = [run[s] EXCEPT !.pc = "insert", !.que = q]]
          BY <3>1 DEF Pick
        <4> QED
          BY <1>0, <3>1, <4>1 DEF Pick, TypeOK, Locals
      <3>2. CASE PickNothing(s)
        BY <1>0, <3>2 DEF PickNothing, TypeOK, Locals
      <3> QED
        BY <1>6, <3>1, <3>2
    <2>2. run[s].cur \in OpenSeen(s)
      BY <2>1 DEF WriterInv, Claiming
    <2> QED
      BY <1>2, <2>1, <2>2, ViewKept
  <1> QED
    BY <1>2, <1>3, <1>4, <1>5, <1>6

(* The sends do not touch cycles or claims. *)
LEMMA SendKept ==
    ASSUME IInv, NEW s \in Session, WriterInv(s), SavedInv,
           Publish(s) \/ SetFileId(s) \/ Reject(s) \/ RecordFailure(s)
    PROVE  View(s)' = View(s) /\ WriterInv(s)' /\ SavedInv'
  <1>0. TypeOK /\ run[s] \in Locals /\ tx[s] \in Writes
    BY DEF IInv, TypeOK
  <1>1. /\ Publishing(s) /\ UNCHANGED db
        /\ tx'[s].ins = tx[s].ins /\ tx'[s].opened = tx[s].opened
        /\ tx'[s].shut = tx[s].shut
        /\ run'[s].cur = run[s].cur /\ run'[s].pc \in {"send", "file_id", "failed", "lost"}
    <2>1. CASE Publish(s)
      <3>1. PICK ch \in Channel, next \in {"send", "file_id"} :
              /\ Write(s, [tx[s] EXCEPT !.dlv = @ \cup {<<CurrentPost(s), ch, "sent">>}])
              /\ Proceed(s, [run[s] EXCEPT !.pc = next, !.todo = @ \ {ch}])
        <4> HIDE DEF Proceed, Write
        <4> QED
          BY <2>1 DEF Publish
      <3>2. run[s].pc = "send" /\ UNCHANGED db
        BY <2>1 DEF Publish
      <3>3. tx'[s] = [tx[s] EXCEPT !.dlv = @ \cup {<<CurrentPost(s), ch, "sent">>}]
        BY <1>0, <3>1 DEF TypeOK
      <3>4. run'[s].cur = run[s].cur /\ run'[s].pc \in {"send", "file_id"}
        BY <1>0, <3>1 DEF TypeOK, Locals
      <3> QED
        BY <1>0, <3>2, <3>3, <3>4 DEF Publishing, Writes
    <2>4. CASE SetFileId(s)
      <3>1. /\ run[s].pc = "file_id" /\ UNCHANGED db
            /\ tx'[s] = [tx[s] EXCEPT !.rows = @ \cup {QuestionRow(run[s].que)}]
            /\ run'[s] = [run[s] EXCEPT !.pc = "send"]
        BY <1>0, <2>4 DEF SetFileId, TypeOK
      <3> QED
        BY <1>0, <3>1 DEF Publishing, Locals, Writes
    <2>2. CASE Reject(s)
      <3>1. PICK ch \in Channel :
              /\ tx' = [tx EXCEPT ![s] = [tx[s] EXCEPT !.dlv = @ \cup {<<CurrentPost(s), ch, "failed">>}]]
              /\ \/ run' = [run EXCEPT ![s] = [run[s] EXCEPT !.pc = "lost"]]
                 \/ run' = [run EXCEPT ![s] = [run[s] EXCEPT !.pc = "failed"]]
                 \/ run' = [run EXCEPT ![s] = [run[s] EXCEPT !.todo = @ \ {ch}]]
        BY <2>2 DEF Reject
      <3>2. run[s].pc = "send" /\ UNCHANGED db
        BY <2>2 DEF Reject
      <3>3. tx'[s] = [tx[s] EXCEPT !.dlv = @ \cup {<<CurrentPost(s), ch, "failed">>}]
        BY <1>0, <3>1 DEF TypeOK
      <3>4. run'[s].cur = run[s].cur /\ run'[s].pc \in {"send", "failed", "lost"}
        BY <1>0, <3>1, <3>2 DEF TypeOK, Locals
      <3> QED
        BY <1>0, <3>2, <3>3, <3>4 DEF Publishing, Writes
    <2>3. CASE RecordFailure(s)
      <3>1. PICK ch \in Channel :
              /\ tx' = [tx EXCEPT ![s] = [tx[s] EXCEPT
                         !.off = IF run[s].pc = "lost" THEN @ \cup {ch} ELSE @,
                         !.rows = @ \cup {ChannelRow(ch)}]]
              /\ run' = [run EXCEPT ![s] = [run[s] EXCEPT !.pc = "send", !.todo = @ \ {ch}]]
        BY <2>3 DEF RecordFailure
      <3> QED
        BY <1>0, <2>3, <3>1 DEF RecordFailure, Publishing, TypeOK, Locals, Writes
    <2> QED
      BY <2>1, <2>2, <2>3, <2>4
  <1>2. View(s)' = View(s)
    BY <1>1 DEF View, db
  <1>3. run[s].cur \in OpenSeen(s)
    BY <1>1 DEF WriterInv, Claiming
  <1> QED
    BY <1>1, <1>2, <1>3, ViewKept


(* The writer opens the cycle above all it sees. *)
LEMMA OpenKept ==
    ASSUME IInv, NEW s \in Session, WriterInv(s), SavedInv, OpenCycle(s)
    PROVE  /\ WriterInv(s)' /\ SavedInv'
           /\ run[s].cur \notin CyclesSeen(s)
           /\ OpenSeen(s)' = {run[s].cur} /\ Claims(s)' = Claims(s)
           /\ CyclesSeen(s)' = CyclesSeen(s) \cup {run[s].cur}
  <1> DEFINE n == run[s].cur
  <1>0. TypeOK /\ run[s] \in Locals /\ tx[s] \in Writes /\ SessionInv(s)
        /\ CyclesSeen(s) \in SUBSET Nat /\ OpenSeen(s) = {}
    BY Numbers DEF IInv, TypeOK, OpenCycle, WriterInv
  <1>1. /\ UNCHANGED db /\ n \notin CyclesSeen(s) /\ run[s].pc = "open"
        /\ tx'[s].ins = tx[s].ins /\ tx'[s].opened = tx[s].opened \cup {n}
        /\ tx'[s].shut = tx[s].shut
        /\ run'[s].cur = n /\ run'[s].pc \in {"pick", "commit"}
    <2>1. tx'[s] = [tx[s] EXCEPT !.opened = @ \cup {n}, !.rows = @ \cup {CycleRow(n)}]
      BY <1>0 DEF OpenCycle, TypeOK
    <2>2. \/ run' = [run EXCEPT ![s] = [run[s] EXCEPT !.pc = "pick"]]
          \/ run' = [run EXCEPT ![s] = [run[s] EXCEPT !.pc = "commit"]]
      BY DEF OpenCycle
    <2>3. run'[s].cur = n /\ run'[s].pc \in {"pick", "commit"}
      BY <1>0, <2>2 DEF TypeOK, Locals
    <2>4. UNCHANGED db /\ n \notin CyclesSeen(s) /\ run[s].pc = "open"
      BY DEF OpenCycle
    <2> QED
      BY <1>0, <2>1, <2>3, <2>4 DEF Writes
  <1>2. n \notin tx[s].shut
    BY <1>0, <1>1 DEF SessionInv, ClosingComplete
  <1>3. /\ CyclesSeen(s)' = CyclesSeen(s) \cup {n} /\ Claims(s)' = Claims(s)
        /\ OpenSeen(s)' = {n}
    BY <1>0, <1>1, <1>2 DEF CyclesSeen, OpenSeen, Claims, db
  <1>4. /\ \A m \in CyclesSeen(s) : m < n /\ m \in Nat
        /\ n \in Nat
    BY <1>0, <1>1 DEF WriterInv, Locals
  <1>5. \A m \in CyclesSeen(s) \cup {n} : m <= n
    BY <1>4
  <1>6. WriterInv(s)'
    <2>1. \A p \in Claims(s) : p[1] \in CyclesSeen(s)
      BY DEF WriterInv
    <2> HIDE DEF n
    <2> QED
      BY <1>1, <1>3, <1>5, <2>1 DEF WriterInv
  <1>7. SavedInv'
    BY <1>1 DEF SavedInv, db
  <1> QED
    BY <1>1, <1>3, <1>6, <1>7

(* It closes the only one it sees open. *)
LEMMA CloseKept ==
    ASSUME IInv, NEW s \in Session, WriterInv(s), SavedInv, CloseCycle(s)
    PROVE  /\ WriterInv(s)' /\ SavedInv'
           /\ run[s].cur \in OpenSeen(s) /\ OpenSeen(s)' = {}
           /\ CyclesSeen(s)' = CyclesSeen(s) /\ Claims(s)' = Claims(s)
  <1> DEFINE c == run[s].cur
  <1>0. TypeOK /\ run[s] \in Locals /\ tx[s] \in Writes
        /\ CyclesSeen(s) \in SUBSET Nat /\ OpenSeen(s) \subseteq CyclesSeen(s)
    BY Numbers DEF IInv, TypeOK
  <1>1. /\ UNCHANGED db
        /\ tx'[s].ins = tx[s].ins /\ tx'[s].opened = tx[s].opened
        /\ tx'[s].shut = tx[s].shut \cup {c}
        /\ run[s].pc = "close" /\ run'[s].pc = "number"
    <2>1. tx'[s] = [tx[s] EXCEPT !.shut = @ \cup {c}, !.rows = @ \cup {CycleRow(c)}]
      BY <1>0 DEF CloseCycle, TypeOK
    <2>2. run'[s].pc = "number"
      BY <1>0 DEF CloseCycle, TypeOK, Locals
    <2>3. UNCHANGED db /\ run[s].pc = "close"
      BY DEF CloseCycle
    <2> QED
      BY <1>0, <2>1, <2>2, <2>3 DEF Writes
  <1>2. c \in OpenSeen(s)
    BY <1>1 DEF WriterInv, Claiming
  <1>3. \A d \in OpenSeen(s) : d = c
    <2>1. ASSUME NEW d \in OpenSeen(s) PROVE d = c
      <3>1. d <= c /\ c <= d /\ c \in Nat /\ d \in Nat
        BY <1>0, <1>2 DEF WriterInv
      <3> QED
        BY <3>1
    <2> QED
      BY <2>1
  <1>4. OpenSeen(s)' = {} /\ CyclesSeen(s)' = CyclesSeen(s) /\ Claims(s)' = Claims(s)
    BY <1>1, <1>3 DEF OpenSeen, CyclesSeen, Claims, db
  <1>5. WriterInv(s)'
    <2>1. ~Claiming(s)'
      BY <1>1 DEF Claiming, Publishing
    <2>2. \A p \in Claims(s) : p[1] \in CyclesSeen(s)
      BY DEF WriterInv
    <2> QED
      BY <1>1, <1>4, <2>1, <2>2 DEF WriterInv
  <1>6. SavedInv'
    BY <1>1 DEF SavedInv, db
  <1> QED
    BY <1>2, <1>4, <1>5, <1>6

(* The claim is of the open cycle, and new. *)
LEMMA InsertKept ==
    ASSUME IInv, NEW s \in Session, WriterInv(s), SavedInv, InsertPost(s)
    PROVE  /\ WriterInv(s)' /\ SavedInv'
           /\ run[s].cur \in OpenSeen(s) /\ run[s].que \in Question
           /\ CurrentPost(s) \notin Claims(s)
           /\ OpenSeen(s)' = OpenSeen(s) /\ CyclesSeen(s)' = CyclesSeen(s)
           /\ Claims(s)' = Claims(s) \cup {CurrentPost(s)}
  <1> DEFINE p == CurrentPost(s)
  <1>0. TypeOK /\ run[s] \in Locals /\ tx[s] \in Writes /\ SessionInv(s)
        /\ OpenSeen(s) \subseteq CyclesSeen(s)
    BY Numbers DEF IInv, TypeOK
  <1>1. /\ UNCHANGED db /\ p \notin Claims(s)
        /\ tx'[s].ins = tx[s].ins \cup {p} /\ tx'[s].opened = tx[s].opened
        /\ tx'[s].shut = tx[s].shut
        /\ run[s].pc = "insert" /\ run'[s].pc = "send" /\ run'[s].cur = run[s].cur
    <2>1. tx'[s] = [tx[s] EXCEPT !.ins = @ \cup {p}, !.rows = @ \cup {PostRow(p)}]
      BY <1>0 DEF InsertPost, TypeOK
    <2>2. run'[s].pc = "send" /\ run'[s].cur = run[s].cur
      BY <1>0 DEF InsertPost, TypeOK, Locals
    <2>3. UNCHANGED db /\ run[s].pc = "insert" /\ p \notin Claims(s)
      BY DEF InsertPost
    <2> HIDE DEF p
    <2> QED
      BY <1>0, <2>1, <2>2, <2>3 DEF Writes
  <1>2. run[s].cur \in OpenSeen(s) /\ run[s].que \in Question
    BY <1>0, <1>1 DEF WriterInv, Claiming, SessionInv, LocalsSet
  <1>3. /\ OpenSeen(s)' = OpenSeen(s) /\ CyclesSeen(s)' = CyclesSeen(s)
        /\ Claims(s)' = Claims(s) \cup {p}
    BY <1>1 DEF OpenSeen, CyclesSeen, Claims, db
  <1>4. p[1] \in CyclesSeen(s)
    BY <1>0, <1>2 DEF CurrentPost
  <1>5. WriterInv(s)'
    <2>1. \A x \in Claims(s) \cup {p} : x[1] \in CyclesSeen(s)
      BY <1>4 DEF WriterInv
    <2>2. \A d \in OpenSeen(s), n \in CyclesSeen(s) : n <= d
      BY DEF WriterInv
    <2> HIDE DEF p
    <2> QED
      BY <1>1, <1>2, <1>3, <2>1, <2>2 DEF WriterInv
  <1>6. SavedInv'
    BY <1>1 DEF SavedInv, db
  <1> QED
    BY <1>1, <1>2, <1>3, <1>5, <1>6


(* A release takes a claim of the open cycle back that is in no table. *)
LEMMA SettleKept ==
    ASSUME IInv, NEW s \in Session, WriterInv(s), SavedInv, Settle(s)
    PROVE  /\ WriterInv(s)' /\ SavedInv'
           /\ \/ View(s)' = View(s)
              \/ /\ UNCHANGED db /\ OpenSeen(s)' = OpenSeen(s)
                 /\ CyclesSeen(s)' = CyclesSeen(s)
                 /\ run[s].cur \in OpenSeen(s) /\ run[s].que \in Question
                 /\ CurrentPost(s) \in Claims(s) \ posts
                 /\ Claims(s)' = Claims(s) \ {CurrentPost(s)}
  <1> DEFINE p == CurrentPost(s)
  <1>0. TypeOK /\ run[s] \in Locals /\ tx[s] \in Writes /\ SessionInv(s)
    BY DEF IInv, TypeOK
  <1>1. UNCHANGED db /\ run[s].pc = "send" /\ Publishing(s)
    BY DEF Settle, Publishing
  <1>2. run'[s].pc \in {"commit", "channels"}
    <2>1. run'[s] = [Idle EXCEPT !.pc = IF run[s].left = 1 THEN "commit" ELSE "channels",
                                 !.left = run[s].left - 1]
      BY <1>0 DEF Settle, NextQuestion, TypeOK
    <2> QED
      BY <2>1 DEF Idle
  <1>3. ~Claiming(s)'
    BY <1>2 DEF Claiming, Publishing
  <1>4. p \in tx[s].ins /\ p \notin posts /\ run[s].que \in Question
        /\ run[s].cur \in OpenSeen(s)
    BY <1>0, <1>1 DEF SessionInv, LocalsSet, RowsHeld, WriterInv, Claiming
  <1>5. CASE Reached(s)
    <2>1. tx' = tx
      BY <1>5 DEF Settle
    <2>2. View(s)' = View(s)
      BY <1>1, <2>1 DEF View, db
    <2> QED
      BY <1>2, <1>3, <2>2, ViewKept
  <1>6. CASE ~Reached(s)
    <2>1. tx' = [tx EXCEPT ![s] = [tx[s] EXCEPT !.ins = @ \ {p}, !.dlv = {d \in @ : d[1] # p}]]
      BY <1>6 DEF Settle, Release
    <2>2. /\ tx'[s].ins = tx[s].ins \ {p} /\ tx'[s].opened = tx[s].opened
          /\ tx'[s].shut = tx[s].shut
      <3> HIDE DEF p
      <3> QED
        BY <1>0, <2>1 DEF TypeOK, Writes
    <2>3. /\ OpenSeen(s)' = OpenSeen(s) /\ CyclesSeen(s)' = CyclesSeen(s)
          /\ Claims(s)' = Claims(s) \ {p} /\ p \in Claims(s)
      BY <1>1, <1>4, <2>2 DEF OpenSeen, CyclesSeen, Claims, db
    <2>4. WriterInv(s)'
      <3>1. /\ \A x \in Claims(s) \ {p} : x[1] \in CyclesSeen(s)
            /\ \A d \in OpenSeen(s), n \in CyclesSeen(s) : n <= d
        BY DEF WriterInv
      <3> HIDE DEF p
      <3> QED
        BY <1>2, <1>3, <2>3, <3>1 DEF WriterInv
    <2>5. SavedInv'
      BY <1>1 DEF SavedInv, db
    <2> QED
      BY <1>1, <1>4, <2>3, <2>4, <2>5
  <1> QED
    BY <1>5, <1>6

(* What a session without writes sees is the tables. *)
LEMMA IdleSees ==
    ASSUME NEW s \in Session, tx[s] = NoWrites
    PROVE  /\ OpenSeen(s) = openCycles /\ CyclesSeen(s) = openCycles \cup closedCycles
           /\ Claims(s) = posts
  BY DEF OpenSeen, CyclesSeen, Claims, NoWrites

(* After a rollback the writer sees the tables, which satisfy its invariant. *)
LEMMA ResetKept ==
    ASSUME NEW s \in Session, SavedInv, UNCHANGED db, tx'[s] = NoWrites, run'[s] = Idle
    PROVE  /\ WriterInv(s)' /\ SavedInv'
           /\ OpenSeen(s)' = openCycles /\ CyclesSeen(s)' = openCycles \cup closedCycles
           /\ Claims(s)' = posts
  <1>1. /\ OpenSeen(s)' = openCycles /\ CyclesSeen(s)' = openCycles \cup closedCycles
        /\ Claims(s)' = posts
    BY DEF OpenSeen, CyclesSeen, Claims, NoWrites, db
  <1>2. run'[s].pc = "idle" /\ ~Claiming(s)'
    BY DEF Idle, Claiming, Publishing
  <1> QED
    BY <1>1, <1>2 DEF WriterInv, SavedInv, db

(* A commit makes the tables what the writer saw. *)
LEMMA CommitKept ==
    ASSUME IInv, NEW s \in Session, WriterInv(s), Commit(s)
    PROVE  /\ WriterInv(s)' /\ SavedInv'
           /\ OpenSeen(s)' = OpenSeen(s) /\ openCycles' = OpenSeen(s)
           /\ CyclesSeen(s)' = CyclesSeen(s) /\ openCycles' \cup closedCycles' = CyclesSeen(s)
           /\ Claims(s)' = Claims(s) /\ posts' = Claims(s)
  <1>0. TypeOK /\ SessionInv(s)
    BY DEF IInv
  <1>1. /\ openCycles' = OpenSeen(s) /\ posts' = Claims(s)
        /\ closedCycles' = closedCycles \cup tx[s].shut
        /\ tx'[s] = NoWrites /\ run'[s] = Idle
    BY <1>0 DEF Commit, TypeOK, OpenSeen, Claims
  <1>2. openCycles' \cup closedCycles' = CyclesSeen(s)
    BY <1>0, <1>1 DEF OpenSeen, CyclesSeen, SessionInv, ClosingComplete
  <1>3. /\ OpenSeen(s)' = OpenSeen(s) /\ CyclesSeen(s)' = CyclesSeen(s)
        /\ Claims(s)' = Claims(s)
    BY <1>1, <1>2 DEF OpenSeen, CyclesSeen, Claims, NoWrites
  <1>4. run'[s].pc = "idle" /\ ~Claiming(s)'
    BY <1>1 DEF Idle, Claiming, Publishing
  <1>5. /\ \A c \in OpenSeen(s), n \in CyclesSeen(s) : n <= c
        /\ \A p \in Claims(s) : p[1] \in CyclesSeen(s)
    BY DEF WriterInv
  <1> QED
    BY <1>1, <1>2, <1>3, <1>4, <1>5 DEF WriterInv, SavedInv

(* A collision sends the writer back to its pick, on to its commit, or out. *)
LEMMA CollideKept ==
    ASSUME IInv, NEW s \in Session, WriterInv(s), SavedInv, InsertCollides(s), ~Abort(s)
    PROVE  View(s)' = View(s) /\ WriterInv(s)' /\ SavedInv'
  <1>0. TypeOK /\ run[s] \in Locals
    BY DEF IInv, TypeOK
  <1>1. /\ run[s].pc = "insert" /\ UNCHANGED <<db, tx>>
        /\ run' = [run EXCEPT ![s] = [run[s] EXCEPT
                     !.tries = @ + 1, !.que = NoQuestion,
                     !.pc = IF run[s].tries < ClaimAttempts THEN "pick" ELSE "commit"]]
    BY DEF InsertCollides
  <1>2. run'[s].cur = run[s].cur /\ run'[s].pc \in {"pick", "commit"}
    BY <1>0, <1>1 DEF TypeOK, Locals
  <1>3. View(s)' = View(s)
    BY <1>1 DEF View, db
  <1>4. run[s].cur \in OpenSeen(s)
    BY <1>1 DEF WriterInv, Claiming
  <1> QED
    BY <1>2, <1>3, <1>4, ViewKept

--------------------------------------------------------------------------------
(* The deck, step by step. *)

(* What the steps of a single writer do to its invariant. *)
LEMMA DeckKept ==
    ASSUME IInv, DeckInv, \A s, t \in Session : s = t, [Next]_vars PROVE DeckInv'
  <1> SUFFICES ASSUME NEW s \in Session PROVE WriterInv(s)' /\ SavedInv'
    <2>1. CASE Session = {}
      <3>1. UNCHANGED vars
        BY <2>1 DEF Next, Crash, Quiescent
      <3> QED
        BY <2>1, <3>1 DEF DeckInv, SavedInv, vars, db
    <2>2. CASE Session # {}
      BY <2>2 DEF DeckInv
    <2> QED
      BY <2>1, <2>2
  <1>0. TypeOK /\ WriterInv(s) /\ SavedInv /\ \A t \in Session : t = s
    BY DEF IInv, DeckInv
  <1>1. CASE Begin(s)
    BY <1>0, <1>1, LookKept
  <1>2. CASE Abort(s)
    <2>1. UNCHANGED db /\ tx'[s] = NoWrites /\ run'[s] = Idle
      BY <1>0, <1>2 DEF Abort, TypeOK
    <2> QED
      BY <1>0, <2>1, ResetKept
  <1>3. CASE Step(s) /\ ~Abort(s)
    <2>1. CASE \/ ListChannels(s) \/ PressFindsNoChannel(s) \/ FindOpenCycle(s)
               \/ ReadHighest(s) \/ Pick(s) \/ PickNothing(s)
      BY <1>0, <2>1, LookKept
    <2>2. CASE OpenCycle(s)
      BY <1>0, <2>2, OpenKept
    <2>3. CASE CloseCycle(s)
      BY <1>0, <2>3, CloseKept
    <2>4. CASE InsertPost(s)
      BY <1>0, <2>4, InsertKept
    <2>5. CASE InsertCollides(s)
      BY <1>0, <1>3, <2>5, CollideKept
    <2>6. CASE Publish(s) \/ SetFileId(s) \/ Reject(s) \/ RecordFailure(s)
      BY <1>0, <2>6, SendKept
    <2>7. CASE Settle(s)
      BY <1>0, <2>7, SettleKept
    <2>8. CASE Commit(s)
      BY <1>0, <2>8, CommitKept
    <2> QED
      BY <1>3, <2>1, <2>2, <2>3, <2>4, <2>5, <2>6, <2>7, <2>8
      DEF Step, JobFindsNoChannel, OpenCollides, AnswerFails
  <1>4. CASE Crash
    <2>1. UNCHANGED db /\ tx'[s] = NoWrites /\ run'[s] = Idle
      BY <1>4 DEF Crash
    <2> QED
      BY <1>0, <2>1, ResetKept
  <1>5. CASE UNCHANGED vars
    <2>1. View(s)' = View(s) /\ run' = run
      BY <1>5 DEF vars, db, View
    <2>2. Claiming(s)' = Claiming(s)
      BY <2>1 DEF Claiming, Publishing
    <2> QED
      BY <1>0, <2>1, <2>2, ViewKept DEF WriterInv
  <1> QED
    BY <1>0, <1>1, <1>2, <1>3, <1>4, <1>5 DEF Next, Quiescent, DeadlockVictim


(* The initial states satisfy it. *)
LEMMA DeckStarts == ASSUME Init PROVE DeckInv
  <1>1. /\ closedCycles = {} /\ openCycles \in {{}, {1}}
        /\ \A p \in posts : p[1] \in openCycles
        /\ \A s \in Session : tx[s] = NoWrites /\ run[s] = Idle
    BY DEF Init
  <1>2. SavedInv
    BY <1>1 DEF SavedInv
  <1>3. ASSUME NEW s \in Session PROVE WriterInv(s)
    <2>1. OpenSeen(s) = openCycles /\ CyclesSeen(s) = openCycles /\ Claims(s) = posts
      BY <1>1, IdleSees
    <2>2. run[s].pc = "idle" /\ ~Claiming(s)
      BY <1>1 DEF Idle, Claiming, Publishing
    <2> QED
      BY <1>2, <2>1, <2>2, <1>1 DEF WriterInv, SavedInv
  <1> QED
    BY <1>2, <1>3 DEF DeckInv

(* A single writer opens a cycle only above all there are and when it sees
   none open, and claims questions of open cycles only: inductive over failed
   sends, releases, collisions, rollbacks and crashes. *)
THEOREM WriterInductive ==
    ASSUME \A s, t \in Session : s = t PROVE Spec => []DeckInv
  <1>1. Init => DeckInv
    BY DeckStarts
  <1>2. IInv /\ DeckInv /\ [Next]_vars => DeckInv'
    BY DeckKept
  <1> QED
    BY <1>1, <1>2, Inductive, PTL DEF Spec

(* completed_at is null "while the cycle is the active one": with one writer
   at most one committed cycle is open (claim_next_question's rollover,
   open_next_cycle). *)
THEOREM WriterKeepsOneOpen ==
    ASSUME \A s, t \in Session : s = t PROVE Spec => []OneOpenCycle
  <1>1. TypeOK /\ DeckInv => OneOpenCycle
    <2> SUFFICES ASSUME TypeOK, DeckInv, NEW c \in openCycles, NEW d \in openCycles
                 PROVE  c = d
      BY DEF OneOpenCycle
    <2>1. c <= d /\ d <= c /\ c \in Nat /\ d \in Nat
      BY DEF DeckInv, SavedInv, TypeOK, CycleNo
    <2> QED
      BY <2>1
  <1> QED
    BY <1>1, WriterInductive, TypeCorrect, PTL

(* The round of the deck is the last cycle the writer sees. *)
LEMMA RoundIs ==
    ASSUME TypeOK, WriterInv(Writer), Writer \in Session
    PROVE  /\ \A n \in CyclesSeen(Writer) :
                 (\A m \in CyclesSeen(Writer) : m <= n) => RoundSeen = n
           /\ \A c \in OpenSeen(Writer) : RoundSeen = c
           /\ CyclesSeen(Writer) = {} => RoundSeen = 0
  <1>1. /\ OpenSeen(Writer) \in SUBSET Nat /\ CyclesSeen(Writer) \in SUBSET Nat
        /\ OpenSeen(Writer) \subseteq CyclesSeen(Writer)
        /\ \A c \in OpenSeen(Writer), n \in CyclesSeen(Writer) : n <= c
    BY Numbers DEF WriterInv
  <1> QED
    BY <1>1, CurrentIs DEF RoundSeen

(* Opening a cycle reshuffles: the one before is used up. *)
LEMMA OpenReshuffles ==
    ASSUME IInv, WriterInv(Writer), SavedInv, Writer \in Session, OpenCycle(Writer)
    PROVE  Deck!Reshuffle
  <1> DEFINE n == run[Writer].cur
  <1>0. /\ TypeOK /\ SessionInv(Writer) /\ OpenSeen(Writer) = {} /\ run[Writer].pc = "open"
        /\ run[Writer] \in Locals
        /\ CyclesSeen(Writer) \in SUBSET Nat /\ \A m \in CyclesSeen(Writer) : m > 0
    BY Numbers DEF IInv, TypeOK, OpenCycle, WriterInv
  <1>1. /\ WriterInv(Writer)' /\ TypeOK' /\ n \notin CyclesSeen(Writer)
        /\ OpenSeen(Writer)' = {n} /\ Claims(Writer)' = Claims(Writer)
        /\ CyclesSeen(Writer)' = CyclesSeen(Writer) \cup {n}
    BY OpenKept, OpenCycleInv DEF IInv
  <1>2. /\ n - 1 \in CyclesSeen(Writer) \cup {0} /\ n \in Nat
        /\ \A m \in CyclesSeen(Writer) : m < n
    BY <1>0 DEF WriterInv, Locals
  <1>3. RoundSeen = n - 1
    <2>1. CASE CyclesSeen(Writer) = {}
      BY <1>0, <1>2, <2>1, RoundIs
    <2>2. CASE CyclesSeen(Writer) # {}
      <3>1. n - 1 \in CyclesSeen(Writer)
        BY <1>0, <1>2, <2>2
      <3>2. \A m \in CyclesSeen(Writer) : m <= n - 1
        BY <1>0, <1>2
      <3> QED
        BY <1>0, <3>1, <3>2, RoundIs
    <2> QED
      BY <2>1, <2>2
  <1>4. RoundSeen' = n
    <2>1. n \in OpenSeen(Writer)'
      BY <1>1
    <2>2. \A c \in OpenSeen(Writer)' : RoundSeen' = c
      <3>1. /\ OpenSeen(Writer)' \in SUBSET Nat /\ CyclesSeen(Writer)' \in SUBSET Nat
            /\ OpenSeen(Writer)' \subseteq CyclesSeen(Writer)'
        BY <1>0, <1>1, <1>2
      <3>2. \A c \in OpenSeen(Writer)', m \in CyclesSeen(Writer)' : m <= c
        BY <1>1 DEF WriterInv
      <3>3. RoundSeen' = CurrentCycle(OpenSeen(Writer)', CyclesSeen(Writer)')
        BY DEF RoundSeen, CurrentCycle, Highest
      <3> QED
        BY <3>1, <3>2, <3>3, CurrentIs
    <2> QED
      BY <2>1, <2>2
  <1>5. UsedIn(RoundSeen, Claims(Writer))' = {}
    <2>1. \A p \in Claims(Writer) : p[1] # n
      BY <1>1 DEF WriterInv
    <2>2. UsedIn(RoundSeen, Claims(Writer))' = {q \in Question : <<n, q>> \in Claims(Writer)}
      BY <1>1, <1>4 DEF UsedIn
    <2>3. \A q \in Question : <<n, q>> \notin Claims(Writer)
      BY <2>1
    <2> QED
      BY <2>2, <2>3
  <1>6. RoundSeen > 0 => UsedIn(RoundSeen, Claims(Writer)) = Question
    <2> SUFFICES ASSUME n - 1 > 0, NEW q \in Question
                 PROVE  <<n - 1, q>> \in Claims(Writer)
      BY <1>3 DEF UsedIn
    <2>1. n - 1 \in closedCycles \cup tx[Writer].shut
      BY <1>0, <1>2 DEF OpenSeen, CyclesSeen
    <2> QED
      BY <1>0, <2>1 DEF IInv, CycleComplete, SessionInv, ClosingComplete, Claims
  <1>7. UNCHANGED <<RoundSaved, UsedIn(RoundSaved, posts)>>
    BY DEF OpenCycle, db, RoundSaved, CurrentCycle, Highest, UsedIn
  <1>8. RoundSeen' = RoundSeen + 1
    BY <1>2, <1>3, <1>4
  <1> QED
    BY <1>5, <1>6, <1>7, <1>8 DEF Deck!Reshuffle


(* Where the writer sees the same cycles and claims, the deck is as it was. *)
LEMMA SameDeck ==
    ASSUME OpenSeen(Writer)' = OpenSeen(Writer), CyclesSeen(Writer)' = CyclesSeen(Writer)
    PROVE  /\ UNCHANGED RoundSeen
           /\ UsedIn(RoundSeen, Claims(Writer))' = UsedIn(RoundSeen, Claims(Writer)')
  BY DEF RoundSeen, CurrentCycle, Highest, UsedIn

(* Where the tables stay, what is saved does. *)
LEMMA SavedStays ==
    ASSUME UNCHANGED db
    PROVE  UNCHANGED <<RoundSaved, UsedIn(RoundSaved, posts)>>
  BY DEF db, RoundSaved, CurrentCycle, Highest, UsedIn

(* A step that leaves the view alone leaves the deck alone. *)
LEMMA ViewStutters ==
    ASSUME View(Writer)' = View(Writer) PROVE UNCHANGED Deck!deck
  <1>1. /\ openCycles' = openCycles /\ closedCycles' = closedCycles /\ posts' = posts
        /\ tx'[Writer].ins = tx[Writer].ins /\ tx'[Writer].opened = tx[Writer].opened
        /\ tx'[Writer].shut = tx[Writer].shut
    BY DEF View
  <1>2. /\ OpenSeen(Writer)' = OpenSeen(Writer) /\ CyclesSeen(Writer)' = CyclesSeen(Writer)
        /\ Claims(Writer)' = Claims(Writer)
    BY <1>1 DEF OpenSeen, CyclesSeen, Claims
  <1>3. UNCHANGED <<RoundSaved, UsedIn(RoundSaved, posts)>>
    BY <1>1 DEF RoundSaved, CurrentCycle, Highest, UsedIn
  <1>4. UNCHANGED <<RoundSeen, UsedIn(RoundSeen, Claims(Writer))>>
    BY <1>2, SameDeck DEF UsedIn
  <1> QED
    BY <1>3, <1>4 DEF Deck!deck

(* Closing a cycle changes nothing of the deck: it is used up, and current
   until the next is opened. *)
LEMMA CloseStutters ==
    ASSUME IInv, WriterInv(Writer), SavedInv, Writer \in Session, CloseCycle(Writer)
    PROVE  UNCHANGED Deck!deck
  <1> DEFINE c == run[Writer].cur
  <1>0. /\ TypeOK /\ CyclesSeen(Writer) \in SUBSET Nat
        /\ OpenSeen(Writer) \subseteq CyclesSeen(Writer)
    BY Numbers DEF IInv
  <1>1. /\ c \in OpenSeen(Writer) /\ OpenSeen(Writer)' = {} /\ UNCHANGED db
        /\ CyclesSeen(Writer)' = CyclesSeen(Writer) /\ Claims(Writer)' = Claims(Writer)
    BY CloseKept DEF CloseCycle
  <1>2. RoundSeen = c
    BY <1>0, <1>1, RoundIs
  <1>3. RoundSeen' = c
    <2>1. \A m \in CyclesSeen(Writer) : m <= c
      BY <1>1 DEF WriterInv
    <2>2. Highest(CyclesSeen(Writer)) = c
      BY <1>0, <1>1, <2>1, HighestIs
    <2> QED
      BY <1>1, <2>2 DEF RoundSeen, CurrentCycle, Highest
  <1>4. UsedIn(RoundSeen, Claims(Writer))' = UsedIn(RoundSeen, Claims(Writer))
    BY <1>1, <1>2, <1>3 DEF UsedIn
  <1> QED
    BY <1>1, <1>2, <1>3, <1>4, SavedStays DEF Deck!deck

(* A claim draws a question that was not used in this round. *)
LEMMA InsertDraws ==
    ASSUME IInv, WriterInv(Writer), SavedInv, Writer \in Session, InsertPost(Writer)
    PROVE  \E q \in Question : Deck!Draw(q)
  <1> DEFINE n == run[Writer].cur  q == run[Writer].que
  <1>0. TypeOK /\ OpenSeen(Writer) \subseteq CyclesSeen(Writer)
        /\ \A m \in CyclesSeen(Writer) : m > 0
    BY Numbers DEF IInv
  <1>1. /\ n \in OpenSeen(Writer) /\ q \in Question /\ <<n, q>> \notin Claims(Writer)
        /\ OpenSeen(Writer)' = OpenSeen(Writer) /\ CyclesSeen(Writer)' = CyclesSeen(Writer)
        /\ Claims(Writer)' = Claims(Writer) \cup {<<n, q>>} /\ UNCHANGED db
    BY InsertKept DEF CurrentPost, InsertPost
  <1>2. RoundSeen = n /\ n > 0
    BY <1>0, <1>1, RoundIs
  <1>3. UNCHANGED RoundSeen
    BY <1>1, SameDeck
  <1>4. q \notin UsedIn(RoundSeen, Claims(Writer))
    BY <1>1, <1>2 DEF UsedIn
  <1>5. UsedIn(RoundSeen, Claims(Writer))' = UsedIn(RoundSeen, Claims(Writer)) \cup {q}
    <2>1. UsedIn(RoundSeen, Claims(Writer))' = UsedIn(n, Claims(Writer) \cup {<<n, q>>})
      BY <1>1, <1>2, SameDeck DEF UsedIn
    <2>2. UsedIn(n, Claims(Writer) \cup {<<n, q>>}) = UsedIn(n, Claims(Writer)) \cup {q}
      BY <1>1 DEF UsedIn
    <2> QED
      BY <1>2, <2>1, <2>2
  <1>6. UNCHANGED <<RoundSaved, UsedIn(RoundSaved, posts)>>
    BY <1>1, SavedStays
  <1> HIDE DEF n, q
  <1>7. Deck!Draw(q)
    BY <1>2, <1>3, <1>4, <1>5, <1>6 DEF Deck!Draw
  <1> QED
    BY <1>1, <1>7

(* Releasing a claim returns a draw that was not saved. *)
LEMMA SettleReturns ==
    ASSUME IInv, WriterInv(Writer), SavedInv, Writer \in Session, Settle(Writer)
    PROVE  (\E q \in Question : Deck!Return(q)) \/ UNCHANGED Deck!deck
  <1> DEFINE n == run[Writer].cur  q == run[Writer].que
  <1>1. CASE View(Writer)' = View(Writer)
    BY <1>1, ViewStutters
  <1>2. CASE View(Writer)' # View(Writer)
    <2>0. TypeOK
      BY DEF IInv
    <2>1. /\ n \in OpenSeen(Writer) /\ q \in Question
          /\ <<n, q>> \in Claims(Writer) /\ <<n, q>> \notin posts
          /\ OpenSeen(Writer)' = OpenSeen(Writer) /\ CyclesSeen(Writer)' = CyclesSeen(Writer)
          /\ Claims(Writer)' = Claims(Writer) \ {<<n, q>>} /\ UNCHANGED db
      BY <1>2, SettleKept DEF CurrentPost
    <2>2. RoundSeen = n /\ UNCHANGED RoundSeen
      BY <2>0, <2>1, RoundIs, SameDeck
    <2>3. q \in UsedIn(RoundSeen, Claims(Writer))
      BY <2>1, <2>2 DEF UsedIn
    <2>4. RoundSaved = RoundSeen => q \notin UsedIn(RoundSaved, posts)
      BY <2>1, <2>2 DEF UsedIn
    <2>5. UsedIn(RoundSeen, Claims(Writer))' = UsedIn(RoundSeen, Claims(Writer)) \ {q}
      <3>1. UsedIn(RoundSeen, Claims(Writer))' = UsedIn(n, Claims(Writer) \ {<<n, q>>})
        BY <2>1, <2>2, SameDeck DEF UsedIn
      <3>2. UsedIn(n, Claims(Writer) \ {<<n, q>>}) = UsedIn(n, Claims(Writer)) \ {q}
        BY DEF UsedIn
      <3> QED
        BY <2>2, <3>1, <3>2
    <2>6. UNCHANGED <<RoundSaved, UsedIn(RoundSaved, posts)>>
      BY <2>1, SavedStays
    <2> HIDE DEF n, q
    <2>7. Deck!Return(q)
      BY <2>2, <2>3, <2>4, <2>5, <2>6 DEF Deck!Return
    <2> QED
      BY <2>1, <2>7
  <1> QED
    BY <1>1, <1>2

(* A commit saves the deck. *)
LEMMA CommitSaves ==
    ASSUME IInv, WriterInv(Writer), Writer \in Session, Commit(Writer)
    PROVE  Deck!Save
  <1>1. /\ OpenSeen(Writer)' = OpenSeen(Writer) /\ openCycles' = OpenSeen(Writer)
        /\ CyclesSeen(Writer)' = CyclesSeen(Writer)
        /\ openCycles' \cup closedCycles' = CyclesSeen(Writer)
        /\ Claims(Writer)' = Claims(Writer) /\ posts' = Claims(Writer)
    BY CommitKept
  <1>2. UNCHANGED <<RoundSeen, UsedIn(RoundSeen, Claims(Writer))>>
    BY <1>1, SameDeck DEF UsedIn
  <1>3. RoundSaved' = RoundSeen
    <2>1. RoundSaved' = CurrentCycle(openCycles', openCycles' \cup closedCycles')
      BY DEF RoundSaved, CurrentCycle, Highest
    <2> QED
      BY <1>1, <2>1 DEF RoundSeen
  <1>4. UsedIn(RoundSaved, posts)' = UsedIn(RoundSeen, Claims(Writer))
    BY <1>1, <1>3 DEF UsedIn
  <1> QED
    BY <1>2, <1>3, <1>4 DEF Deck!Save

(* A rollback loses what was not saved. *)
LEMMA ResetLoses ==
    ASSUME SavedInv, Writer \in Session, UNCHANGED db, tx'[Writer] = NoWrites,
           run'[Writer] = Idle
    PROVE  Deck!Lose
  <1>1. /\ OpenSeen(Writer)' = openCycles /\ CyclesSeen(Writer)' = openCycles \cup closedCycles
        /\ Claims(Writer)' = posts
    BY ResetKept
  <1>2. RoundSeen' = RoundSaved
    BY <1>1 DEF RoundSaved, RoundSeen, CurrentCycle, Highest
  <1>3. UsedIn(RoundSeen, Claims(Writer))' = UsedIn(RoundSaved, posts)
    BY <1>1, <1>2 DEF UsedIn
  <1>4. UNCHANGED <<RoundSaved, UsedIn(RoundSaved, posts)>>
    BY SavedStays
  <1> QED
    BY <1>2, <1>3, <1>4 DEF Deck!Lose

(* A writer alone starts with a fresh deck, or a round just used up, ... *)
LEMMA DeckInit ==
    ASSUME Init, Writer \in Session PROVE Deck!Init
  <1>1. /\ closedCycles = {} /\ openCycles \in {{}, {1}}
        /\ posts = {} \/ (openCycles = {1} /\ posts = {1} \X Question)
        /\ tx[Writer] = NoWrites
    BY DEF Init
  <1>2. /\ OpenSeen(Writer) = openCycles /\ CyclesSeen(Writer) = openCycles
        /\ Claims(Writer) = posts
    BY <1>1, IdleSees
  <1>3. RoundSeen = RoundSaved
    BY <1>1, <1>2 DEF RoundSeen, RoundSaved, CurrentCycle, Highest
  <1>4. RoundSeen = IF openCycles = {} THEN 0 ELSE 1
    <2>1. CASE openCycles = {}
      BY <1>2, <2>1 DEF RoundSeen, CurrentCycle, Highest
    <2>2. CASE openCycles = {1}
      <3>1. Highest({1}) = 1
        BY HighestIs
      <3> QED
        BY <1>2, <2>2, <3>1 DEF RoundSeen, CurrentCycle
    <2> QED
      BY <1>1, <2>1, <2>2
  <1>5. CASE posts = {}
    <2>1. UsedIn(RoundSeen, Claims(Writer)) = {} /\ UsedIn(RoundSaved, posts) = {}
      BY <1>2, <1>5 DEF UsedIn
    <2>2. RoundSeen \in {0, 1}
      BY <1>4
    <2> QED
      BY <1>3, <2>1, <2>2 DEF Deck!Init
  <1>6. CASE openCycles = {1} /\ posts = {1} \X Question
    <2>1. RoundSeen = 1 /\ UsedIn(1, posts) = Question
      BY <1>4, <1>6 DEF UsedIn
    <2> QED
      BY <1>2, <1>3, <2>1 DEF Deck!Init
  <1> QED
    BY <1>1, <1>5, <1>6

(* ... and every step of it is one of the deck's, or none. *)
LEMMA DeckStep ==
    ASSUME IInv, DeckInv, Session = {Writer}, [Next]_vars PROVE [Deck!Next]_(Deck!deck)
  <1>0. /\ TypeOK /\ WriterInv(Writer) /\ SavedInv /\ Writer \in Session
        /\ \A t \in Session : t = Writer
    BY DEF IInv, DeckInv
  <1>1. CASE View(Writer)' = View(Writer)
    BY <1>1, ViewStutters
  <1>2. CASE \/ Begin(Writer) \/ ListChannels(Writer) \/ PressFindsNoChannel(Writer)
             \/ FindOpenCycle(Writer) \/ ReadHighest(Writer) \/ Pick(Writer)
             \/ PickNothing(Writer)
    BY <1>0, <1>1, <1>2, LookKept
  <1>3. CASE \/ Publish(Writer) \/ SetFileId(Writer) \/ Reject(Writer)
             \/ RecordFailure(Writer)
    BY <1>0, <1>1, <1>3, SendKept
  <1>4. CASE OpenCycle(Writer)
    BY <1>0, <1>4, OpenReshuffles DEF Deck!Next
  <1>5. CASE CloseCycle(Writer)
    BY <1>0, <1>5, CloseStutters
  <1>6. CASE InsertPost(Writer)
    BY <1>0, <1>6, InsertDraws DEF Deck!Next
  <1>7. CASE Settle(Writer)
    BY <1>0, <1>7, SettleReturns DEF Deck!Next
  <1>8. CASE Commit(Writer)
    BY <1>0, <1>8, CommitSaves DEF Deck!Next
  <1>9. CASE Abort(Writer) \/ Crash
    <2>1. UNCHANGED db /\ tx'[Writer] = NoWrites /\ run'[Writer] = Idle
      BY <1>0, <1>9 DEF Abort, Crash, TypeOK
    <2> QED
      BY <1>0, <2>1, ResetLoses DEF Deck!Next
  <1>10. CASE InsertCollides(Writer)
    BY <1>0, <1>1, <1>9, <1>10, CollideKept
  <1>11. CASE UNCHANGED vars
    BY <1>1, <1>11 DEF vars, db, View
  <1>12. CASE Step(Writer)
    BY <1>2, <1>3, <1>4, <1>5, <1>6, <1>7, <1>8, <1>9, <1>10, <1>12
    DEF Step, JobFindsNoChannel, OpenCollides, AnswerFails
  <1> QED
    BY <1>0, <1>2, <1>9, <1>11, <1>12 DEF Next, Quiescent, DeadlockVictim

(* Run alone, batches draw every question of a cycle once before any comes
   back, whatever the failed sends, releases, rollbacks and crashes: the
   posting cycle implements the deck (claim_next_question, send_next). *)
THEOREM WriterDrawsDeck == ASSUME Session = {Writer} PROVE Spec => DeckRefined
  <1>1. Init => Deck!Init
    BY DeckInit
  <1>2. IInv /\ DeckInv /\ [Next]_vars => [Deck!Next]_(Deck!deck)
    BY DeckStep
  <1>3. Spec => []DeckInv
    <2>1. \A s, t \in Session : s = t
      OBVIOUS
    <2> QED
      BY <2>1, WriterInductive
  <1> QED
    BY <1>1, <1>2, <1>3, Inductive, PTL DEF Spec, DeckRefined, Deck!Spec

--------------------------------------------------------------------------------
(* Several writers: each step is one of the shared deck's, or none. *)

HandOf(w) == [drawn |-> w.ins, begun |-> w.opened, ended |-> w.shut]

(* A session's writes are its player's hand. *)
LEMMA HandIs ==
    ASSUME NEW s \in Session
    PROVE  /\ Hand[s] = HandOf(tx[s])
           /\ Shared!Known(s) = CyclesSeen(s)
           /\ Shared!Over(s) = closedCycles \cup tx[s].shut
           /\ Hand[s].drawn = tx[s].ins /\ Hand[s].begun = tx[s].opened
           /\ Hand[s].ended = tx[s].shut
  BY DEF Hand, HandOf, Shared!Known, Shared!Over, CyclesSeen

(* Another record of writes makes another hand. *)
LEMMA HandOfIs ==
    ASSUME NEW s \in Session, NEW w, NEW d, NEW b, NEW e,
           w.ins = d, w.opened = b, w.shut = e
    PROVE  /\ HandOf(w) = [drawn |-> d, begun |-> b, ended |-> e]
           /\ d = tx[s].ins /\ e = tx[s].shut => HandOf(w) = [Hand[s] EXCEPT !.begun = b]
           /\ d = tx[s].ins /\ b = tx[s].opened => HandOf(w) = [Hand[s] EXCEPT !.ended = e]
           /\ b = tx[s].opened /\ e = tx[s].shut => HandOf(w) = [Hand[s] EXCEPT !.drawn = d]
  BY DEF HandOf, Hand

(* One session's writes change one hand. *)
LEMMA HandChanges ==
    ASSUME TypeOK, NEW s \in Session, NEW w, tx' = [tx EXCEPT ![s] = w]
    PROVE  Hand' = [Hand EXCEPT ![s] = HandOf(w)]
  <1>1. tx'[s] = w /\ \A t \in Session \ {s} : tx'[t] = tx[t]
    BY DEF TypeOK
  <1> QED
    BY <1>1 DEF Hand, HandOf

(* Where cycles, claims and what a transaction did to them stay, so does the
   deck. *)
LEMMA SharedStutters ==
    ASSUME UNCHANGED <<posts, openCycles, closedCycles>>,
           \A t \in Session : HandOf(tx'[t]) = HandOf(tx[t])
    PROVE  UNCHANGED Shared!table
  <1>1. Hand' = Hand
    BY DEF Hand, HandOf
  <1> QED
    BY <1>1 DEF Shared!table

LEMMA HandKept ==
    ASSUME TypeOK, NEW s \in Session, NEW w, tx' = [tx EXCEPT ![s] = w],
           HandOf(w) = HandOf(tx[s]), UNCHANGED db
    PROVE  UNCHANGED Shared!table
  <1>1. \A t \in Session : HandOf(tx'[t]) = HandOf(tx[t])
    BY DEF TypeOK
  <1> QED
    BY <1>1, SharedStutters DEF db

(* Reading, publishing and recording leave the deck alone. *)
LEMMA LookStutters ==
    ASSUME UNCHANGED <<db, tx>> PROVE UNCHANGED Shared!table
  BY SharedStutters DEF db

LEMMA SendStutters ==
    ASSUME TypeOK, NEW s \in Session, Publish(s) \/ SetFileId(s) \/ Reject(s) \/ RecordFailure(s)
    PROVE  UNCHANGED Shared!table
  <1>1. tx[s] \in Writes
    BY DEF TypeOK
  <1>2. CASE Publish(s)
    <2>1. PICK ch \in Channel :
             tx' = [tx EXCEPT ![s] = [tx[s] EXCEPT
                        !.dlv = @ \cup {<<CurrentPost(s), ch, "sent">>}]]
      BY <1>2 DEF Publish
    <2> QED
      BY <1>1, <1>2, <2>1, HandKept DEF Publish, HandOf, Writes
  <1>3. CASE Reject(s)
    <2>1. PICK ch \in Channel :
             tx' = [tx EXCEPT ![s] = [tx[s] EXCEPT
                        !.dlv = @ \cup {<<CurrentPost(s), ch, "failed">>}]]
      BY <1>3 DEF Reject
    <2> QED
      BY <1>1, <1>3, <2>1, HandKept DEF Reject, HandOf, Writes
  <1>4. CASE RecordFailure(s)
    <2>1. PICK ch \in Channel :
             tx' = [tx EXCEPT ![s] = [tx[s] EXCEPT
                        !.off = IF run[s].pc = "lost" THEN @ \cup {ch} ELSE @,
                        !.rows = @ \cup {ChannelRow(ch)}]]
      BY <1>4 DEF RecordFailure
    <2> QED
      BY <1>1, <1>4, <2>1, HandKept DEF RecordFailure, HandOf, Writes
  <1>5. CASE SetFileId(s)
    BY <1>1, <1>5, HandKept DEF SetFileId, HandOf, Writes
  <1> QED
    BY <1>2, <1>3, <1>4, <1>5

(* The cycle opened is one above all the session sees, and nobody else's: its
   row was granted. *)
LEMMA OpenBegins ==
    ASSUME IInv, NEW s \in Session, OpenCycle(s) PROVE Shared!Begin(s)
  <1> DEFINE n == run[s].cur
             w == [tx[s] EXCEPT !.opened = @ \cup {n}, !.rows = @ \cup {CycleRow(n)}]
  <1>1. /\ TypeOK /\ SessionInv(s) /\ run[s] \in Locals /\ tx[s] \in Writes
        /\ CyclesSeen(s) \in SUBSET Nat /\ \A m \in CyclesSeen(s) : m > 0
    BY Numbers DEF IInv, TypeOK
  <1>2. /\ run[s].pc = "open" /\ Granted(s) /\ n \notin CyclesSeen(s)
        /\ tx' = [tx EXCEPT ![s] = w] /\ UNCHANGED db
    BY DEF OpenCycle
  <1>3. n \in Nat /\ n > 0 /\ 1..(n - 1) \subseteq CyclesSeen(s)
    BY <1>1, <1>2 DEF SessionInv, NumbersContinue, Locals
  <1>4. \A m \in CyclesSeen(s) : m <= n - 1
    <2> SUFFICES ASSUME NEW m \in CyclesSeen(s), m >= n PROVE FALSE
      BY <1>1, <1>3
    <2>1. 1..m \subseteq CyclesSeen(s)
      BY <1>1 DEF IInv, CyclesContiguous, SessionInv, NumbersContinue, CyclesSeen
    <2> QED
      BY <1>1, <1>2, <1>3, <2>1
  <1>5. n - 1 \in CyclesSeen(s) \cup {0}
    BY <1>3
  <1>6. ASSUME NEW t \in Session PROVE n \notin tx[t].opened
    <2>1. CASE t = s
      BY <1>2, <2>1 DEF CyclesSeen
    <2>2. CASE t # s
      <3>1. CycleRow(n) \in Wanted(s)
        BY <1>2 DEF Wanted
      <3>2. CycleRow(n) \notin tx[t].rows
        BY <1>2, <2>2, <3>1, GrantedFree
      <3> QED
        BY <3>2 DEF IInv, SessionInv, RowsHeld
    <2> QED
      BY <2>1, <2>2
  <1>7. Hand' = [Hand EXCEPT ![s].begun = @ \cup {n}]
    <2>1. HandOf(w) = [Hand[s] EXCEPT !.begun = @ \cup {n}]
      <3>1. /\ w.opened = tx[s].opened \cup {n}
            /\ w.ins = tx[s].ins /\ w.shut = tx[s].shut
        BY <1>1 DEF Writes
      <3>2. Hand[s].begun = tx[s].opened
        BY HandIs
      <3> HIDE DEF w
      <3> QED
        BY <3>1, <3>2, HandOfIs
    <2>2. Hand' = [Hand EXCEPT ![s] = HandOf(w)]
      BY <1>1, <1>2, HandChanges
    <2> QED
      BY <2>1, <2>2
  <1>8. n = (n - 1) + 1
    BY <1>3
  <1>9. /\ Shared!Known(s) = CyclesSeen(s)
        /\ \A t \in Session : n \notin Hand[t].begun
    BY <1>6, HandIs
  <1> DEFINE m == n - 1
  <1>10. /\ m \in Shared!Known(s) \cup {0} /\ \A k \in Shared!Known(s) : k <= m
         /\ \A t \in Session : m + 1 \notin Hand[t].begun
         /\ Hand' = [Hand EXCEPT ![s].begun = @ \cup {m + 1}]
    BY <1>4, <1>5, <1>7, <1>8, <1>9
  <1> HIDE DEF n, w, m
  <1> QED
    BY <1>2, <1>10 DEF Shared!Begin, db

(* A cycle is closed when its questions are used up for the session. *)
LEMMA CloseEnds ==
    ASSUME IInv, NEW s \in Session, CloseCycle(s) PROVE Shared!End(s)
  <1> DEFINE c == run[s].cur
             w == [tx[s] EXCEPT !.shut = @ \cup {c}, !.rows = @ \cup {CycleRow(c)}]
  <1>1. TypeOK /\ SessionInv(s) /\ tx[s] \in Writes
    BY DEF IInv, TypeOK
  <1>2. run[s].pc = "close" /\ tx' = [tx EXCEPT ![s] = w] /\ UNCHANGED db
    BY DEF CloseCycle
  <1>3. c \in CyclesSeen(s) /\ \A q \in Question : <<c, q>> \in Claims(s)
    BY <1>1, <1>2 DEF SessionInv, LocalsSet, Claiming, ClosingComplete, Unused
  <1>4. Hand' = [Hand EXCEPT ![s].ended = @ \cup {c}]
    <2>1. HandOf(w) = [Hand[s] EXCEPT !.ended = @ \cup {c}]
      <3>1. /\ w.shut = tx[s].shut \cup {c}
            /\ w.ins = tx[s].ins /\ w.opened = tx[s].opened
        BY <1>1 DEF Writes
      <3>2. Hand[s].ended = tx[s].shut
        BY HandIs
      <3> HIDE DEF w
      <3> QED
        BY <3>1, <3>2, HandOfIs
    <2>2. Hand' = [Hand EXCEPT ![s] = HandOf(w)]
      BY <1>1, <1>2, HandChanges
    <2> QED
      BY <2>1, <2>2
  <1>5. c \in Shared!Known(s) /\ \A q \in Question : <<c, q>> \in posts \cup Hand[s].drawn
    BY <1>3, HandIs DEF Claims
  <1> HIDE DEF c, w
  <1> QED
    BY <1>2, <1>4, <1>5 DEF Shared!End, db

(* The cycle a claim belongs to is not over for anybody, as that would take the
   question to be on record in it. *)
LEMMA CurrentOpen ==
    ASSUME IInv, NEW s \in Session, Claiming(s), NEW q \in Question,
           <<run[s].cur, q>> \notin posts
    PROVE  run[s].cur \in CyclesSeen(s) /\ run[s].cur \notin closedCycles \cup tx[s].shut
  <1>1. run[s].cur \in CyclesSeen(s) \ tx[s].shut
    BY DEF IInv, SessionInv, LocalsSet
  <1> QED
    BY <1>1 DEF IInv, CycleComplete

(* A claim is a card nobody has: its row was granted. *)
LEMMA InsertDrawsOne ==
    ASSUME IInv, NEW s \in Session, InsertPost(s) PROVE Shared!Draw(s)
  <1> DEFINE n == run[s].cur  q == run[s].que  p == <<n, q>>
             w == [tx[s] EXCEPT !.ins = @ \cup {p}, !.rows = @ \cup {PostRow(p)}]
  <1>1. TypeOK /\ SessionInv(s) /\ tx[s] \in Writes
    BY DEF IInv, TypeOK
  <1>2. /\ run[s].pc = "insert" /\ Granted(s) /\ p \notin Claims(s)
        /\ tx' = [tx EXCEPT ![s] = w] /\ UNCHANGED db
    BY DEF InsertPost, CurrentPost
  <1>3. q \in Question /\ p \notin posts /\ Claiming(s)
    BY <1>1, <1>2 DEF SessionInv, LocalsSet, Claiming, Claims
  <1>4. n \in CyclesSeen(s) /\ n \notin closedCycles \cup tx[s].shut
    BY <1>3, CurrentOpen
  <1>5. ASSUME NEW t \in Session PROVE p \notin tx[t].ins
    <2>1. CASE t = s
      BY <1>2, <2>1 DEF Claims
    <2>2. CASE t # s
      <3>1. PostRow(p) \in Wanted(s)
        BY <1>2 DEF Wanted, CurrentPost
      <3>2. PostRow(p) \notin tx[t].rows
        BY <1>2, <2>2, <3>1, GrantedFree
      <3> QED
        BY <3>2 DEF IInv, SessionInv, RowsHeld
    <2> QED
      BY <2>1, <2>2
  <1>6. Hand' = [Hand EXCEPT ![s].drawn = @ \cup {p}]
    <2>1. HandOf(w) = [Hand[s] EXCEPT !.drawn = @ \cup {p}]
      <3>1. /\ w.ins = tx[s].ins \cup {p}
            /\ w.opened = tx[s].opened /\ w.shut = tx[s].shut
        BY <1>1 DEF Writes
      <3>2. Hand[s].drawn = tx[s].ins
        BY HandIs
      <3> HIDE DEF w
      <3> QED
        BY <3>1, <3>2, HandOfIs
    <2>2. Hand' = [Hand EXCEPT ![s] = HandOf(w)]
      BY <1>1, <1>2, HandChanges
    <2> QED
      BY <2>1, <2>2
  <1>7. n \in Shared!Known(s) \ Shared!Over(s) /\ \A t \in Session : p \notin Hand[t].drawn
    BY <1>4, <1>5, HandIs
  <1> HIDE DEF n, q, w
  <1> QED
    BY <1>2, <1>3, <1>6, <1>7 DEF Shared!Draw, db

(* Releasing a claim returns a card that is not on record. *)
LEMMA SettleReturnsOne ==
    ASSUME IInv, NEW s \in Session, Settle(s)
    PROVE  Shared!Return(s) \/ UNCHANGED Shared!table
  <1>1. CASE Reached(s)
    BY <1>1, LookStutters DEF Settle, Release, NextQuestion, db
  <1>2. CASE ~Reached(s)
    <2> DEFINE p == CurrentPost(s)
               w == [tx[s] EXCEPT !.ins = @ \ {p}, !.dlv = {d \in @ : d[1] # p}]
    <2>1. TypeOK /\ SessionInv(s) /\ tx[s] \in Writes
      BY DEF IInv, TypeOK
    <2>2. run[s].pc = "send" /\ tx' = [tx EXCEPT ![s] = w] /\ UNCHANGED db
      BY <1>2 DEF Settle, Release
    <2>3. Publishing(s) /\ Claiming(s)
      BY <2>2 DEF Publishing, Claiming
    <2>4. p \in tx[s].ins /\ run[s].que \in Question /\ p \notin posts
      BY <2>1, <2>3 DEF SessionInv, LocalsSet, RowsHeld
    <2>5. run[s].cur \notin closedCycles \cup tx[s].shut
      BY <2>3, <2>4, CurrentOpen DEF CurrentPost
    <2>6. Hand' = [Hand EXCEPT ![s].drawn = @ \ {p}]
      <3>1. HandOf(w) = [Hand[s] EXCEPT !.drawn = @ \ {p}]
        BY <2>1 DEF HandOf, Hand, Writes
      <3>2. Hand' = [Hand EXCEPT ![s] = HandOf(w)]
        BY <2>1, <2>2, HandChanges
      <3> QED
        BY <3>1, <3>2
    <2>7. p \in Hand[s].drawn /\ p[1] \notin Shared!Over(s)
      BY <2>4, <2>5, HandIs DEF CurrentPost
    <2> HIDE DEF p, w
    <2> QED
      BY <2>2, <2>6, <2>7 DEF Shared!Return, db
  <1> QED
    BY <1>1, <1>2

(* A commit puts a hand on record, also where it closes what another has. *)
LEMMA CommitSavesHand ==
    ASSUME IInv, NEW s \in Session, Commit(s) PROVE Shared!Save(s)
  <1>1. TypeOK /\ SessionInv(s)
    BY DEF IInv
  <1>2. /\ posts' = posts \cup tx[s].ins
        /\ openCycles' = (openCycles \cup tx[s].opened) \ tx[s].shut
        /\ closedCycles' = closedCycles \cup tx[s].shut
        /\ tx' = [tx EXCEPT ![s] = NoWrites]
    BY DEF Commit
  <1>3. openCycles' \cup closedCycles' = openCycles \cup closedCycles \cup tx[s].opened
    BY <1>1, <1>2 DEF SessionInv, ClosingComplete, CyclesSeen
  <1>4. Hand' = [Hand EXCEPT ![s] = Shared!Nothing]
    BY <1>1, <1>2, HandChanges DEF HandOf, NoWrites, Shared!Nothing
  <1> QED
    BY <1>2, <1>3, <1>4, HandIs DEF Shared!Save

(* A rollback loses a hand, and a crash all of them. *)
LEMMA AbortLoses ==
    ASSUME TypeOK, NEW s \in Session, Abort(s) PROVE Shared!Lose(s)
  <1>1. tx' = [tx EXCEPT ![s] = NoWrites] /\ UNCHANGED db
    BY DEF Abort
  <1>2. Hand' = [Hand EXCEPT ![s] = Shared!Nothing]
    BY <1>1, HandChanges DEF HandOf, NoWrites, Shared!Nothing
  <1> QED
    BY <1>1, <1>2 DEF Shared!Lose, db

LEMMA CrashLoses == ASSUME Crash PROVE Shared!LoseAll
  <1>1. Hand' = [s \in Session |-> Shared!Nothing]
    BY DEF Crash, Hand, NoWrites, Shared!Nothing
  <1> QED
    BY <1>1 DEF Crash, Shared!LoseAll, db

(* Batches start with a fresh deck, or one whose first round is used up, ... *)
LEMMA SharedInit == ASSUME Init PROVE Shared!Init
  <1>1. Hand = [s \in Session |-> Shared!Nothing]
    BY DEF Init, Hand, NoWrites, Shared!Nothing
  <1> QED
    BY <1>1 DEF Init, Shared!Init

(* ... and every step of theirs is one of the deck's, or none. *)
LEMMA SharedStep ==
    ASSUME IInv, [Next]_vars PROVE [Shared!Next]_(Shared!table)
  <1>0. TypeOK
    BY DEF IInv
  <1>1. CASE UNCHANGED vars
    BY <1>1, LookStutters DEF vars
  <1>2. CASE Crash
    BY <1>2, CrashLoses DEF Shared!Next
  <1>3. ASSUME NEW s \in Session, Begin(s) \/ Step(s) \/ DeadlockVictim(s)
        PROVE  [Shared!Next]_(Shared!table)
    <2>1. CASE \/ Begin(s) \/ ListChannels(s) \/ PressFindsNoChannel(s)
               \/ FindOpenCycle(s) \/ ReadHighest(s) \/ Pick(s) \/ PickNothing(s)
      <3>1. UNCHANGED <<db, tx>>
        BY <2>1 DEF Begin, ListChannels, PressFindsNoChannel, FindOpenCycle, ReadHighest,
                    Pick, PickNothing
      <3> QED
        BY <3>1, LookStutters
    <2>2. CASE Abort(s)
      BY <1>0, <2>2, AbortLoses DEF Shared!Next
    <2>3. CASE Publish(s) \/ SetFileId(s) \/ Reject(s) \/ RecordFailure(s)
      BY <1>0, <2>3, SendStutters
    <2>4. CASE OpenCycle(s)
      BY <2>4, OpenBegins DEF Shared!Next
    <2>5. CASE CloseCycle(s)
      BY <2>5, CloseEnds DEF Shared!Next
    <2>6. CASE InsertPost(s)
      BY <2>6, InsertDrawsOne DEF Shared!Next
    <2>7. CASE InsertCollides(s) /\ ~Abort(s)
      BY <2>7, LookStutters DEF InsertCollides
    <2>8. CASE Settle(s)
      BY <2>8, SettleReturnsOne DEF Shared!Next
    <2>9. CASE Commit(s)
      BY <2>9, CommitSavesHand DEF Shared!Next
    <2> QED
      BY <1>3, <2>1, <2>2, <2>3, <2>4, <2>5, <2>6, <2>7, <2>8, <2>9
      DEF Step, JobFindsNoChannel, OpenCollides, AnswerFails, DeadlockVictim
  <1> QED
    BY <1>1, <1>2, <1>3 DEF Next, Quiescent

(* However many batches run at once, and whatever collides, is released, rolled
   back or lost in a crash, they implement one shared deck (claim_next_question,
   open_next_cycle, close_cycle, send_next, and the sessions' commits). *)
THEOREM WritersShareDeck == Spec => SharedRefined
  <1>1. Init => Shared!Init
    BY SharedInit
  <1>2. IInv /\ [Next]_vars => [Shared!Next]_(Shared!table)
    BY SharedStep
  <1> QED
    BY <1>1, <1>2, Inductive, PTL DEF Spec, SharedRefined, Shared!Spec
================================================================================
