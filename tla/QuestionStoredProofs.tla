------------------------- MODULE QuestionStoredProofs -------------------------
(***************************************************************************)
(* What an import reports is true: its counts add up, the rows it commits  *)
(* hold what its source gave last, and the option a file marks is the one  *)
(* stored as correct (QuestionImport), for any files, pages, pictures,     *)
(* tasks and bounds.                                                       *)
(***************************************************************************)
EXTENDS QuestionImportProofs, FiniteSetTheorems, WellFoundedInduction

(***************************************************************************)
(* The inductive invariant, on top of IInv: about one session s, given the *)
(* committed rows b and the session's workers w.                           *)
(***************************************************************************)
(* The new rows among those written, and one that is about to be. *)
Fresher(s, b) == {k \in DOMAIN s.put : b[k] = NoRow}
Pending(s) == IF s.ask.op = "insert" THEN 1 ELSE 0
TotalKept(s) == s.created + s.updated + s.unchanged

Counted(s, b) ==
    s.pc # "idle" =>
        /\ {s.created, s.updated, s.unchanged, s.skipped} \subseteq Nat
        /\ IsFiniteSet(DOMAIN s.put) /\ IsFiniteSet(DOMAIN s.last)
        /\ s.pc # "ask" => s.ask.op = "none"
        /\ s.ask.op = "insert" => s.ask.key \notin DOMAIN s.put
        /\ s.created = Cardinality(Fresher(s, b)) + Pending(s)
        /\ s.rd.kind = "file" => TotalKept(s) + s.skipped = s.rd.row
        /\ s.rd.kind # "file" => /\ TotalKept(s) = Cardinality(DOMAIN s.last)
                                 /\ \A k \in DOMAIN s.last : k[2] \in s.rd.seen

(* The row once the pending statement has run. *)
Coming(s, b, k) ==
    IF s.pc = "ask" /\ s.ask.key = k
    THEN IF s.ask.op = "insert" THEN s.ask.row ELSE Apply(SeenBy(s, b, k), s.ask)
    ELSE SeenBy(s, b, k)

Attaching(s) == s.pc = "attach" \/ (s.pc = "ask" /\ s.ask.then = "attach")
Ended(s) == s.pc = "finish" \/ (s.pc = "commit" /\ s.ok)

(* Row k holds, or is about to, what was given for it last; its picture is
   attached, or still to come. *)
Faithful(s, b, w, k) ==
    LET row == Coming(s, b, k)
        given == s.last[k]
    IN /\ row.content = given.content
       /\ given.url # NoUrl =>
             /\ row.url = given.url
             /\ w[given.url].pc = "ok" =>
                   /\ Attaching(s) => row.path # NoUrl \/ <<k, given.url>> \in s.todo
                   /\ Ended(s) => row.path # NoUrl

(* Objects loaded are as the session would read them now, short of the rows
   that others have committed since. *)
Stored(s, b, w) ==
    s.pc # "idle" =>
        /\ DOMAIN s.last \subseteq Key
        /\ s.ask.op = "insert" => s.ask.key \notin DOMAIN s.old
        /\ \A k \in DOMAIN s.old \ s.raced : s.old[k] = SeenBy(s, b, k)
        /\ \A k \in DOMAIN s.last :
              /\ s.last[k].url \in s.urls \cup {NoUrl}
              /\ SeenBy(s, b, k) # NoRow \/ Inserting(s, k)
        /\ \A k \in DOMAIN s.last \ s.raced : Faithful(s, b, w, k)

RowsExclusive ==
    \A i, j \in Task : i # j => DOMAIN sess[i].put \cap DOMAIN sess[j].put = {}

RInv ==
    /\ RowsExclusive
    /\ \A i \in Task : Counted(sess[i], bank) /\ Stored(sess[i], bank, work[i])


(***************************************************************************)
(* What a session relies on stays true while others go on.                 *)
(***************************************************************************)
(* Others commit the rows D, none of which s has written. *)
LEMMA FrameHolds ==
    ASSUME NEW s, NEW t, NEW b, NEW c, NEW w, NEW v, NEW D,
           Shape(s), Counted(s, b), Stored(s, b, w), DOMAIN t = SessionFields,
           \A x \in SessionFields \ {"raced"} : t[x] = s[x], t.raced = s.raced \cup D,
           D \cap DOMAIN s.put = {}, \A k \in Key \ D : c[k] = b[k],
           \A k \in Key : b[k] # NoRow => c[k] # NoRow,
           s.pc # "media" => \A u \in Url : v[u].pc = w[u].pc
    PROVE  Counted(t, c) /\ Stored(t, c, v)
<1>1. /\ t.pc = s.pc /\ t.ok = s.ok /\ t.rd = s.rd /\ t.put = s.put /\ t.old = s.old
      /\ t.ask = s.ask /\ t.urls = s.urls /\ t.todo = s.todo /\ t.last = s.last
      /\ t.created = s.created /\ t.updated = s.updated /\ t.unchanged = s.unchanged
      /\ t.skipped = s.skipped
  BY DEF SessionFields
<1>2. DOMAIN s.put \subseteq Key /\ DOMAIN s.old \subseteq Key /\ s.urls \subseteq Url
  BY DEF Shape
<1>3. Counted(t, c)
  <2>1. Fresher(t, c) = Fresher(s, b)
    BY <1>1, <1>2 DEF Fresher
  <2> QED
    BY <1>1, <2>1 DEF Counted, Pending, TotalKept
<1>4. Stored(t, c, v)
  <2> SUFFICES ASSUME s.pc # "idle" PROVE Stored(t, c, v)
    BY <1>1 DEF Stored
  <2>1. \A k \in Key \ D : SeenBy(t, c, k) = SeenBy(s, b, k)
    BY <1>1 DEF SeenBy
  <2>2. \A k \in Key : SeenBy(s, b, k) # NoRow => SeenBy(t, c, k) # NoRow
    BY <1>1 DEF SeenBy
  <2>3. \A k : Inserting(t, k) <=> Inserting(s, k)
    BY <1>1 DEF Inserting
  <2>4. DOMAIN s.last \subseteq Key
    BY DEF Stored
  <2>5. ASSUME NEW k \in DOMAIN t.last \ t.raced PROVE Faithful(t, c, v, k)
    <3>1. k \in Key \ D /\ Faithful(s, b, w, k)
      BY <1>1, <2>4 DEF Stored
    <3>2. Coming(t, c, k) = Coming(s, b, k)
      BY <1>1, <2>1, <3>1 DEF Coming
    <3>3. s.last[k].url # NoUrl => s.last[k].url \in Url
      BY <1>1, <1>2 DEF Stored
    <3>4. \/ s.pc = "media" /\ ~Attaching(t) /\ ~Ended(t)
          \/ \A u \in Url : v[u].pc = w[u].pc
      BY <1>1 DEF Attaching, Ended
    <3>5. (Attaching(t) <=> Attaching(s)) /\ (Ended(t) <=> Ended(s))
      BY <1>1 DEF Attaching, Ended
    <3> HIDE DEF Coming, Attaching, Ended
    <3> QED
      BY <1>1, <3>1, <3>2, <3>3, <3>4, <3>5 DEF Faithful
  <2>6. \A k \in DOMAIN t.old \ t.raced : t.old[k] = SeenBy(t, c, k)
    BY <1>1, <1>2, <2>1 DEF Stored
  <2>7. \A k \in DOMAIN t.last :
           /\ t.last[k].url \in t.urls \cup {NoUrl}
           /\ SeenBy(t, c, k) # NoRow \/ Inserting(t, k)
    BY <1>1, <2>2, <2>3, <2>4 DEF Stored
  <2> QED
    BY <1>1, <2>4, <2>5, <2>6, <2>7 DEF Stored
<1> QED
  BY <1>3, <1>4

(* The workers of others matter to nobody. *)
LEMMA UntouchedHolds ==
    ASSUME RInv, IInv, NEW j \in Task, sess'[j] = sess[j], bank' = bank,
           sess[j].pc # "media" => \A u \in Url : work'[j][u].pc = work[j][u].pc
    PROVE  Counted(sess[j], bank) /\ Stored(sess'[j], bank', work'[j])
<1>1. Counted(sess[j], bank) /\ Stored(sess[j], bank, work[j])
  BY DEF RInv
<1>2. Shape(sess[j])
  BY DEF IInv, Sessions, Good
<1>3. DOMAIN sess[j] = SessionFields
  BY <1>2 DEF Shape
<1>4. PICK D : D = {}
  OBVIOUS
<1>5. sess[j].raced = sess[j].raced \cup D /\ D \cap DOMAIN sess[j].put = {}
  BY <1>4
<1>6. Stored(sess[j], bank, work'[j])
  BY <1>1, <1>2, <1>3, <1>5, FrameHolds
<1> QED
  BY <1>1, <1>6

(* A step of one session that commits nothing. *)
LEMMA OneSession ==
    ASSUME RInv, IInv, NEW i \in Task, \A j \in Task \ {i} : sess'[j] = sess[j],
           bank' = bank, \A j \in Task \ {i} : \A u \in Url : work'[j][u].pc = work[j][u].pc,
           Counted(sess'[i], bank), Stored(sess'[i], bank, work'[i]),
           \A j \in Task \ {i} : DOMAIN sess'[i].put \cap DOMAIN sess[j].put = {}
    PROVE  RInv'
<1>1. ASSUME NEW j \in Task \ {i}
      PROVE  Counted(sess'[j], bank') /\ Stored(sess'[j], bank', work'[j])
  BY UntouchedHolds
<1>2. RowsExclusive'
  BY DEF RInv, RowsExclusive
<1> QED
  BY <1>1, <1>2 DEF RInv

(* The same for a step that writes no row and leaves the workers alone. *)
LEMMA OneSessionQuiet ==
    ASSUME RInv, IInv, NEW i \in Task, \A j \in Task \ {i} : sess'[j] = sess[j],
           UNCHANGED <<bank, mediaVars>>, sess'[i].put = sess[i].put,
           Counted(sess'[i], bank), Stored(sess'[i], bank, work[i])
    PROVE  RInv'
<1>1. /\ bank' = bank /\ work' = work
      /\ \A j \in Task \ {i} : DOMAIN sess'[i].put \cap DOMAIN sess[j].put = {}
  BY DEF mediaVars, RInv, RowsExclusive
<1> QED
  BY <1>1, OneSession

(* A session that is over relies on nothing. *)
LEMMA IdleHolds ==
    ASSUME NEW b, NEW w
    PROVE  Counted(IdleTask, b) /\ Stored(IdleTask, b, w) /\ DOMAIN IdleTask.put = {}
BY IdleShape DEF Counted, Stored

(* Nothing has been counted or written when an import begins. *)
LEMMA BeginHolds ==
    ASSUME IInv, RInv, NEW i \in Task, NEW name, NEW file, NEW kind,
           Begin(i, name, file, kind), UNCHANGED <<bank, mediaVars>>
    PROVE  RInv'
<1> DEFINE s == sess'[i]
           old == [k \in {x \in Key : x[1] = name /\ bank[x] # NoRow} |-> bank[k]]
<1>1. /\ \A j \in Task \ {i} : sess'[j] = sess[j]
      /\ s = [IdleTask EXCEPT !.pc = "read", !.src = name, !.listed = name,
                              !.file = file, !.rd = OpenReader(kind), !.old = old]
      /\ sess[i].pc = "idle"
  BY DEF Begin, Proceed, Running, IInv, Sessions
<1> HIDE DEF old
<1>2. /\ s.pc = "read" /\ s.rd = OpenReader(kind) /\ s.old = old
      /\ s.put = NoRows /\ s.last = NoRows /\ s.ask = NoAsk /\ s.urls = {} /\ s.raced = {}
      /\ s.created = 0 /\ s.updated = 0 /\ s.unchanged = 0 /\ s.skipped = 0
  BY <1>1 DEF IdleTask
<1>3. DOMAIN NoRows = {} /\ NoAsk.op = "none"
  BY DEF NoRows, NoAsk
<1>4. OpenReader(kind).row = 0
  BY DEF OpenReader
<1>5. Counted(s, bank)
  <2>1. Fresher(s, bank) = {} /\ Pending(s) = 0 /\ TotalKept(s) = 0
    BY <1>2, <1>3 DEF Fresher, Pending, TotalKept
  <2>2. IsFiniteSet({}) /\ Cardinality({}) = 0
    BY FS_EmptySet
  <2> HIDE DEF s
  <2> QED
    BY <1>2, <1>3, <1>4, <2>1, <2>2 DEF Counted
<1>6. Stored(s, bank, work[i])
  <2>1. \A k \in DOMAIN old : old[k] = bank[k]
    BY DEF old
  <2> HIDE DEF s
  <2> QED
    BY <1>2, <1>3, <2>1 DEF Stored, SeenBy
<1>7. sess[i] = IdleTask
  BY <1>1 DEF IInv, Sessions, Quiet
<1>8. s.put = sess[i].put
  BY <1>2, <1>7 DEF IdleTask
<1> QED
  BY <1>1, <1>5, <1>6, <1>8, OneSessionQuiet


(***************************************************************************)
(* Steps that write no row.                                                *)
(***************************************************************************)
LEMMA AppliedColumns ==
    ASSUME NEW row, NEW a
    PROVE  /\ Apply(row, a).content = IF "content" \in a.cols THEN a.row.content ELSE row.content
           /\ Apply(row, a).url = IF "url" \in a.cols THEN a.row.url ELSE row.url
BY DEF Apply, Column

(* Going on without counting anything. *)
LEMMA CountedMoves ==
    ASSUME NEW s, NEW t, NEW b, s.pc # "idle", Counted(s, b),
           t.put = s.put, t.last = s.last, t.created = s.created, t.updated = s.updated,
           t.unchanged = s.unchanged, t.skipped = s.skipped,
           t.rd.kind = s.rd.kind, t.rd.seen = s.rd.seen,
           s.rd.kind = "file" => t.rd.row = s.rd.row,
           s.ask.op # "insert", t.ask.op # "insert", t.pc # "ask" => t.ask.op = "none"
    PROVE  Counted(t, b)
<1>1. Fresher(t, b) = Fresher(s, b) /\ Pending(t) = Pending(s) /\ TotalKept(t) = TotalKept(s)
  BY DEF Fresher, Pending, TotalKept
<1> QED
  BY <1>1 DEF Counted

LEMMA StoredMoves ==
    ASSUME NEW s, NEW t, NEW b, NEW w, NEW v, s.pc \notin {"idle", "ask"}, Stored(s, b, w),
           t.put = s.put, t.last = s.last, t.old = s.old, t.urls = s.urls,
           t.raced = s.raced, t.ask.op # "insert",
           \A k \in DOMAIN s.last \ s.raced : Faithful(t, b, v, k)
    PROVE  Stored(t, b, v)
<1>1. \A k : SeenBy(t, b, k) = SeenBy(s, b, k)
  BY DEF SeenBy
<1>2. \A k : ~Inserting(s, k)
  BY DEF Inserting
<1> HIDE DEF Faithful
<1> QED
  BY <1>1, <1>2 DEF Stored

(* Before the pictures, only content and addresses are promised. *)
LEMMA FaithfulMoves ==
    ASSUME NEW s, NEW t, NEW b, NEW w, NEW v, NEW k, s.pc # "ask", t.pc # "ask",
           Faithful(s, b, w, k), t.put = s.put, t.last = s.last,
           ~Attaching(t), ~Ended(t)
    PROVE  Faithful(t, b, v, k)
<1>1. Coming(t, b, k) = Coming(s, b, k)
  BY DEF Coming, SeenBy
<1> HIDE DEF Coming
<1> QED
  BY <1>1 DEF Faithful

(* A session at s goes on to t, which reads on or gives up. *)
LEMMA ReadsOn ==
    ASSUME IInv, RInv, NEW i \in Task, sess[i].pc = "read",
           \A j \in Task \ {i} : sess'[j] = sess[j], UNCHANGED <<bank, mediaVars>>,
           sess'[i].pc = "read" \/ (sess'[i].pc = "commit" /\ sess'[i].ok = FALSE),
           \A x \in SessionFields \ {"pc", "ok", "rd", "src", "held", "again"} :
               sess'[i][x] = sess[i][x],
           sess'[i].rd.kind = sess[i].rd.kind, sess'[i].rd.seen = sess[i].rd.seen,
           sess[i].rd.kind = "file" => sess'[i].rd.row = sess[i].rd.row
    PROVE  RInv'
<1> DEFINE s == sess[i]
           t == sess'[i]
<1>1. Counted(s, bank) /\ Stored(s, bank, work[i])
  BY DEF RInv
<1>2. /\ t.put = s.put /\ t.old = s.old /\ t.ask = s.ask /\ t.urls = s.urls
      /\ t.raced = s.raced /\ t.last = s.last /\ t.created = s.created
      /\ t.updated = s.updated /\ t.unchanged = s.unchanged /\ t.skipped = s.skipped
  BY DEF SessionFields
<1>3. s.ask.op = "none"
  BY <1>1 DEF Counted
<1> HIDE DEF s, t
<1>4. s.pc = "read" /\ t.pc \in {"read", "commit"} /\ ~Attaching(t) /\ ~Ended(t)
      /\ t.rd.kind = s.rd.kind /\ t.rd.seen = s.rd.seen
      /\ (s.rd.kind = "file" => t.rd.row = s.rd.row)
  BY DEF s, t, Attaching, Ended
<1>5. Counted(t, bank)
  BY <1>1, <1>2, <1>3, <1>4, CountedMoves
<1>6. \A k \in DOMAIN s.last \ s.raced : Faithful(t, bank, work[i], k)
  BY <1>1, <1>2, <1>4, FaithfulMoves DEF Stored
<1>7. Stored(t, bank, work[i])
  BY <1>1, <1>2, <1>3, <1>4, <1>6, StoredMoves
<1> QED
  BY <1>2, <1>5, <1>7, OneSessionQuiet DEF s, t

LEMMA AbortKeeps ==
    ASSUME IInv, RInv, NEW i \in Task, Abort(i)
    PROVE  RInv'
<1>1. /\ sess'[i] = IdleTask /\ \A j \in Task \ {i} : sess'[j] = sess[j]
      /\ bank' = bank
  BY DEF Abort, Proceed, IInv, Sessions
<1>2. \A j \in Task \ {i} : \A u \in Url : work'[j][u].pc = work[j][u].pc
  BY StoppedWorkers DEF Abort, IInv
<1> QED
  BY <1>1, <1>2, IdleHolds, OneSession

LEMMA SourceFailsKeeps ==
    ASSUME IInv, RInv, NEW i \in Task, sess[i].pc = "read", SourceFails(i)
    PROVE  RInv'
<1>1. CASE PanelKeeps(i)
  <2>1. /\ DOMAIN sess = Task /\ DOMAIN sess[i] = SessionFields
    BY DEF IInv, Sessions, Good, Shape
  <2>2. /\ \A j \in Task \ {i} : sess'[j] = sess[j]
        /\ sess'[i].pc = "commit" /\ sess'[i].ok = FALSE
        /\ \A x \in SessionFields \ {"pc", "ok"} : sess'[i][x] = sess[i][x]
        /\ UNCHANGED <<bank, mediaVars>>
    BY <1>1, <2>1 DEF PanelKeeps, Proceed, SessionFields
  <2>3. sess'[i].rd = sess[i].rd
    BY <2>2 DEF SessionFields
  <2> QED
    BY <2>2, <2>3, ReadsOn
<1>2. CASE ScriptDrops(i)
  BY <1>2, AbortKeeps DEF ScriptDrops
<1> QED
  BY <1>1, <1>2 DEF SourceFails

LEMMA ReadFailsKeeps ==
    ASSUME IInv, RInv, NEW i \in Task, ReadFails(i)
    PROVE  RInv'
<1> DEFINE rd == sess[i].rd
<1>1. /\ sess[i].pc = "read" /\ DOMAIN sess = Task /\ DOMAIN sess[i] = SessionFields
      /\ DOMAIN rd = ReaderFields /\ rd.n \in Nat
  BY DEF ReadFails, Reading, IInv, Sessions, Good, Shape
<1>2. CASE SourceFails(i)
  BY <1>1, <1>2, SourceFailsKeeps
<1>3. CASE /\ rd.kind # "file"
           /\ Proceed(i, [sess[i] EXCEPT !.rd = Tolerate(@)])
           /\ UNCHANGED <<bank, marks, disk, imported, count, mediaVars>>
  <2>1. /\ \A j \in Task \ {i} : sess'[j] = sess[j]
        /\ sess'[i].rd = Tolerate(rd)
        /\ \A x \in SessionFields \ {"rd"} : sess'[i][x] = sess[i][x]
    BY <1>1, <1>3 DEF Proceed, SessionFields
  <2>2. Tolerate(rd).kind = rd.kind /\ Tolerate(rd).seen = rd.seen
    BY <1>1 DEF Tolerate, TurnPage, ReaderFields
  <2>3. sess'[i].pc = "read"
    BY <1>1, <2>1 DEF SessionFields
  <2> QED
    BY <1>1, <1>3, <2>1, <2>2, <2>3, ReadsOn
<1>4. rd.kind = "file" => SourceFails(i)
  BY DEF ReadFails, Outcome
<1> QED
  BY <1>2, <1>3, <1>4 DEF ReadFails

LEMMA ReadPageKeeps ==
    ASSUME IInv, RInv, NEW i \in Task, ReadPage(i)
    PROVE  RInv'
<1> DEFINE rd == sess[i].rd
           t == sess'[i]
<1>1. /\ sess[i].pc = "read" /\ DOMAIN sess = Task /\ DOMAIN sess[i] = SessionFields
      /\ DOMAIN rd = ReaderFields /\ rd.n \in Nat /\ WantsPage(rd) /\ rd.kind \in Kind
      /\ Filed(sess[i], bank, disk, imported)
  BY DEF ReadPage, Reading, IInv, Sessions, Good, Shape
<1>2. PICK page \in Pages(i) :
        LET next == [sess[i] EXCEPT !.rd = TurnPage(@, page)]
            file == disk[next.file]
            name == SourceName(next.src, file)
        IN Proceed(i, IF next.rd.kind = "file"
                      THEN [next EXCEPT !.held = file, !.src = name,
                                        !.again = <<name, file>> \in imported]
                      ELSE next)
  BY DEF ReadPage
<1>3. /\ TurnPage(rd, page).kind = rd.kind /\ TurnPage(rd, page).row = 0
      /\ TurnPage(rd, page).seen = rd.seen
  BY <1>1 DEF TurnPage, ReaderFields
<1>4. /\ \A j \in Task \ {i} : sess'[j] = sess[j]
      /\ t.rd = TurnPage(rd, page)
      /\ \A x \in SessionFields \ {"rd", "src", "held", "again"} : t[x] = sess[i][x]
  BY <1>1, <1>2 DEF Proceed, SessionFields
<1>5. t.pc = "read"
  BY <1>1, <1>4 DEF SessionFields
<1>6. rd.kind = "file" => rd.row = 0
  BY <1>1 DEF Filed, WantsPage
<1> QED
  BY <1>1, <1>3, <1>4, <1>5, <1>6, ReadsOn DEF ReadPage


(***************************************************************************)
(* Pictures, the mark.                                                     *)
(***************************************************************************)
(* A session that has read its source goes on to t. *)
LEMMA GoesOn ==
    ASSUME IInv, RInv, NEW i \in Task, sess[i].pc \notin {"idle", "ask"},
           \A j \in Task \ {i} : sess'[j] = sess[j], bank' = bank,
           \A j \in Task \ {i} : \A u \in Url : work'[j][u].pc = work[j][u].pc,
           \A x \in SessionFields \ {"pc", "todo", "ask", "marked"} : sess'[i][x] = sess[i][x],
           sess'[i].ask.op # "insert", sess'[i].pc # "ask" => sess'[i].ask.op = "none",
           \A k \in DOMAIN sess[i].last \ sess[i].raced :
               Faithful(sess[i], bank, work[i], k) => Faithful(sess'[i], bank, work'[i], k)
    PROVE  RInv'
<1> DEFINE s == sess[i]
           t == sess'[i]
<1>1. Counted(s, bank) /\ Stored(s, bank, work[i])
  BY DEF RInv
<1>2. /\ t.put = s.put /\ t.old = s.old /\ t.urls = s.urls /\ t.rd = s.rd
      /\ t.raced = s.raced /\ t.last = s.last /\ t.created = s.created
      /\ t.updated = s.updated /\ t.unchanged = s.unchanged /\ t.skipped = s.skipped
  BY DEF SessionFields
<1>3. s.ask.op = "none"
  BY <1>1 DEF Counted
<1>4. /\ s.pc \notin {"idle", "ask"} /\ t.ask.op # "insert"
      /\ t.pc # "ask" => t.ask.op = "none"
  OBVIOUS
<1>5. \A k \in DOMAIN s.last \ s.raced : Faithful(t, bank, work'[i], k)
  BY <1>1 DEF Stored
<1>6. \A j \in Task \ {i} : DOMAIN t.put \cap DOMAIN sess[j].put = {}
  BY <1>2 DEF RInv, RowsExclusive
<1> HIDE DEF s, t
<1>7. Counted(t, bank)
  BY <1>1, <1>2, <1>3, <1>4, CountedMoves
<1>8. Stored(t, bank, work'[i])
  BY <1>1, <1>2, <1>4, <1>5, StoredMoves
<1> QED
  BY <1>6, <1>7, <1>8, OneSession DEF s, t

(* The address given for a question is among those to download. *)
LEMMA GivenUrl ==
    ASSUME IInv, RInv, NEW i \in Task, sess[i].pc # "idle", NEW k \in DOMAIN sess[i].last
    PROVE  /\ k \in Key
           /\ sess[i].last[k].url # NoUrl => sess[i].last[k].url \in sess[i].urls
           /\ sess[i].urls \subseteq Url
<1>1. Stored(sess[i], bank, work[i]) /\ Shape(sess[i])
  BY DEF RInv, IInv, Sessions, Good
<1> QED
  BY <1>1 DEF Stored, Shape

LEMMA ReadDoneKeeps ==
    ASSUME IInv, RInv, NEW i \in Task, ReadDone(i)
    PROVE  RInv'
<1> DEFINE s == sess[i]
           t == sess'[i]
           next == IF s.urls = {} THEN "finish" ELSE "media"
<1>1. /\ s.pc = "read" /\ DOMAIN sess = Task /\ DOMAIN s = SessionFields
      /\ Counted(s, bank) /\ bank' = bank
  BY DEF ReadDone, Reading, IInv, Sessions, Good, Shape, RInv
<1>2. /\ \A j \in Task \ {i} : sess'[j] = sess[j]
      /\ t.pc = next
      /\ \A x \in SessionFields \ {"pc"} : t[x] = s[x]
  BY <1>1 DEF ReadDone, Proceed, SessionFields
<1>3. \A j \in Task \ {i} : \A u \in Url : work'[j][u].pc = work[j][u].pc
  BY DEF ReadDone, StartWorkers, IInv, Pictures, MediaTypeOK
<1>4. /\ t.put = s.put /\ t.last = s.last /\ t.ask = s.ask
  BY <1>2 DEF SessionFields
<1>5. s.ask.op = "none"
  BY <1>1 DEF Counted
<1>6. t.pc \in {"finish", "media"} /\ (t.pc = "finish" => s.urls = {})
  BY <1>2
<1>7. ASSUME NEW k \in DOMAIN s.last \ s.raced, Faithful(s, bank, work[i], k)
      PROVE  Faithful(t, bank, work'[i], k)
  <2>1. t.pc = "finish" => s.last[k].url = NoUrl
    BY <1>1, <1>6, GivenUrl
  <2>2. ~Attaching(t) /\ (t.pc # "finish" => ~Ended(t))
    BY <1>6 DEF Attaching, Ended
  <2>3. Coming(t, bank, k) = Coming(s, bank, k)
    BY <1>1, <1>4, <1>6 DEF Coming, SeenBy
  <2> HIDE DEF t, Coming
  <2> QED
    BY <1>4, <1>7, <2>1, <2>2, <2>3 DEF Faithful
<1> HIDE DEF next
<1> QED
  BY <1>1, <1>2, <1>3, <1>4, <1>5, <1>6, <1>7, GoesOn

LEMMA DownloadKeeps ==
    ASSUME IInv, RInv, NEW i \in Task, Download(i)
    PROVE  RInv'
<1>1. /\ sess[i].pc = "media" /\ sess' = sess /\ bank' = bank
      /\ Counted(sess[i], bank) /\ sess[i].urls \subseteq Url /\ MediaTypeOK
  BY DEF Download, importVars, RInv, IInv, Sessions, Good, Shape, Pictures
<1>2. PICK u \in Url : MediaStep(i, u)
  BY <1>1 DEF Download
<1>3. Touched(i, u)
  BY <1>1, <1>2, LookTouches, AcquireTouches, FetchTouches, OpenTouches, WriteTouches,
     CloseTouches, RenameTouches, LostTouches DEF MediaStep
<1>4. \A j \in Task \ {i} : \A v \in Url : work'[j][v].pc = work[j][v].pc
  BY <1>3 DEF Touched
<1>5. ~Attaching(sess[i]) /\ ~Ended(sess[i])
  BY <1>1 DEF Attaching, Ended
<1>6. ASSUME NEW k, Faithful(sess[i], bank, work[i], k)
      PROVE  Faithful(sess[i], bank, work'[i], k)
  BY <1>1, <1>5, <1>6, FaithfulMoves
<1>7. sess[i].ask.op = "none"
  BY <1>1 DEF Counted
<1> QED
  BY <1>1, <1>4, <1>6, <1>7, GoesOn

LEMMA DownloadedKeeps ==
    ASSUME IInv, RInv, NEW i \in Task, Downloaded(i)
    PROVE  RInv'
<1> DEFINE s == sess[i]
           t == sess'[i]
           missing == Attachable(i)
<1>1. /\ s.pc = "media" /\ DOMAIN sess = Task /\ DOMAIN s = SessionFields
      /\ Counted(s, bank) /\ Stored(s, bank, work[i]) /\ bank' = bank /\ work' = work
  BY DEF Downloaded, mediaVars, IInv, Sessions, Good, Shape, RInv
<1>2. /\ \A j \in Task \ {i} : sess'[j] = sess[j]
      /\ t = [s EXCEPT !.pc = "attach", !.todo = missing]
  BY <1>1 DEF Downloaded, Proceed
<1> HIDE DEF missing
<1>3. /\ t.pc = "attach" /\ t.todo = missing
      /\ \A x \in SessionFields \ {"pc", "todo"} : t[x] = s[x]
  <2>1. ASSUME NEW m, t = [s EXCEPT !.pc = "attach", !.todo = m]
        PROVE  /\ t.pc = "attach" /\ t.todo = m
               /\ \A x \in SessionFields \ {"pc", "todo"} : t[x] = s[x]
    <3>1. DOMAIN s = SessionFields
      BY <1>1
    <3> HIDE DEF s, t
    <3> QED
      BY <2>1, <3>1 DEF SessionFields
  <2> QED
    BY <1>2, <2>1
<1>4. t.put = s.put /\ t.last = s.last /\ t.ask = s.ask
  BY <1>3 DEF SessionFields
<1>5. s.ask.op = "none"
  BY <1>1 DEF Counted
<1>6. ASSUME NEW k \in DOMAIN s.last \ s.raced, Faithful(s, bank, work[i], k)
      PROVE  Faithful(t, bank, work[i], k)
  <2> DEFINE row == SeenBy(s, bank, k)
             url == s.last[k].url
  <2>1. Coming(t, bank, k) = row /\ Coming(s, bank, k) = row
    BY <1>1, <1>3, <1>4 DEF Coming, SeenBy
  <2>2. k \in Key /\ (url # NoUrl => url \in s.urls)
    BY <1>1, GivenUrl
  <2>3. Seen(i, k) = row /\ row # NoRow
    BY <1>1 DEF Stored, Seen, SeenBy, Inserting
  <2>4. row.content = s.last[k].content /\ (url # NoUrl => row.url = url)
    BY <1>6, <2>1 DEF Faithful
  <2>5. ASSUME url # NoUrl, work[i][url].pc = "ok", row.path = NoUrl
        PROVE  <<k, url>> \in missing
    <3>1. Existing(i, k) = row
      BY <1>1, <2>3 DEF Stored, Existing
    <3>2. <<k, url>> \in Missing(i) \X s.urls
      BY <2>2, <2>3, <2>4, <2>5 DEF Missing
    <3> QED
      BY <2>4, <2>5, <3>1, <3>2 DEF missing, Attachable
  <2>6. ~Ended(t)
    BY <1>3 DEF Ended
  <2> HIDE DEF s, t, row
  <2> QED
    BY <1>3, <1>4, <2>1, <2>4, <2>5, <2>6 DEF Faithful
<1> QED
  BY <1>1, <1>2, <1>3, <1>4, <1>5, <1>6, GoesOn

LEMMA AttachKeeps ==
    ASSUME IInv, RInv, NEW i \in Task, Attach(i)
    PROVE  RInv'
<1> DEFINE s == sess[i]
           t == sess'[i]
<1>1. /\ s.pc = "attach" /\ DOMAIN sess = Task /\ DOMAIN s = SessionFields
      /\ Counted(s, bank) /\ bank' = bank /\ work' = work
      /\ Backed(s, bank, final)
  BY DEF Attach, mediaVars, IInv, Sessions, Good, Shape, RInv
<1>2. s.ask.op = "none" /\ Attaching(s)
  BY <1>1 DEF Counted, Attaching
<1>3. CASE s.todo = {} /\ Proceed(i, [s EXCEPT !.pc = "finish"])
  <2>1. /\ \A j \in Task \ {i} : sess'[j] = sess[j]
        /\ t.pc = "finish"
        /\ \A x \in SessionFields \ {"pc"} : t[x] = s[x]
    BY <1>1, <1>3 DEF Proceed, SessionFields
  <2>2. t.put = s.put /\ t.last = s.last /\ t.ask = s.ask
    BY <2>1 DEF SessionFields
  <2>3. ASSUME NEW k, Faithful(s, bank, work[i], k)
        PROVE  Faithful(t, bank, work[i], k)
    <3>1. Coming(t, bank, k) = Coming(s, bank, k)
      BY <1>1, <2>1, <2>2 DEF Coming, SeenBy
    <3>2. ~Attaching(t)
      BY <2>1 DEF Attaching
    <3>3. s.todo = {}
      BY <1>3
    <3> HIDE DEF s, t, Coming, Attaching, Ended
    <3> QED
      BY <1>2, <2>2, <2>3, <3>1, <3>2, <3>3 DEF Faithful
  <2> QED
    BY <1>1, <1>2, <2>1, <2>2, <2>3, GoesOn
<1>4. ASSUME NEW x \in s.todo,
             Proceed(i, [s EXCEPT !.todo = @ \ {x}, !.pc = "ask",
                            !.ask = Update(x[1], [path |-> x[2]], {"path"}, "attach")])
      PROVE  RInv'
  <2>1. /\ \A j \in Task \ {i} : sess'[j] = sess[j]
        /\ t.pc = "ask" /\ t.todo = s.todo \ {x}
        /\ t.ask = Update(x[1], [path |-> x[2]], {"path"}, "attach")
        /\ \A y \in SessionFields \ {"pc", "todo", "ask"} : t[y] = s[y]
    BY <1>1, <1>4 DEF Proceed, SessionFields
  <2>2. /\ t.ask.op = "update" /\ t.ask.then = "attach" /\ t.ask.key = x[1]
        /\ t.ask.cols = {"path"} /\ t.ask.row.path = x[2]
    BY <2>1 DEF Update
  <2>3. t.put = s.put /\ t.last = s.last
    BY <2>1 DEF SessionFields
  <2>4. x[2] # NoUrl
    BY <1>1, MediaAssumption DEF Backed
  <2>5. ASSUME NEW k, Faithful(s, bank, work[i], k)
        PROVE  Faithful(t, bank, work[i], k)
    <3> DEFINE row == SeenBy(s, bank, k)
    <3>1. Coming(s, bank, k) = row /\ SeenBy(t, bank, k) = row
      BY <1>1, <2>3 DEF Coming, SeenBy
    <3>2. Attaching(t) /\ ~Ended(t)
      BY <2>1, <2>2 DEF Attaching, Ended
    <3>3. /\ Apply(row, t.ask).content = row.content /\ Apply(row, t.ask).url = row.url
          /\ Apply(row, t.ask).path = x[2]
      BY <2>2, AppliedColumns, AppliedRow
    <3> HIDE DEF row
    <3>4. CASE x[1] = k
      <4>1. Coming(t, bank, k) = Apply(row, t.ask)
        BY <2>1, <2>2, <3>1, <3>4 DEF Coming
      <4> HIDE DEF s, t, Coming
      <4> QED
        BY <2>3, <2>4, <2>5, <3>1, <3>2, <3>3, <4>1 DEF Faithful
    <3>5. CASE x[1] # k
      <4>1. Coming(t, bank, k) = row
        BY <2>1, <2>2, <3>1, <3>5 DEF Coming
      <4>2. \A u : <<k, u>> # x
        BY <3>5
      <4> HIDE DEF s, t, Coming
      <4> QED
        BY <1>2, <2>1, <2>3, <2>5, <3>1, <3>2, <4>1, <4>2 DEF Faithful
    <3> QED
      BY <3>4, <3>5
  <2> QED
    BY <1>1, <2>1, <2>2, <2>5, GoesOn
<1> QED
  BY <1>3, <1>4 DEF Attach

LEMMA MarkKeeps ==
    ASSUME IInv, RInv, NEW i \in Task, Mark(i)
    PROVE  RInv'
<1> DEFINE s == sess[i]
           t == sess'[i]
<1>1. /\ s.pc = "finish" /\ DOMAIN sess = Task /\ DOMAIN s = SessionFields
      /\ Counted(s, bank) /\ bank' = bank /\ work' = work
  BY DEF Mark, mediaVars, IInv, Sessions, Good, Shape, RInv
<1>2. PICK how \in {"inserted", "updated"} :
          Proceed(i, [s EXCEPT !.pc = "commit", !.marked = how])
  BY DEF Mark
<1>3. /\ \A j \in Task \ {i} : sess'[j] = sess[j]
      /\ t.pc = "commit"
      /\ \A x \in SessionFields \ {"pc", "marked"} : t[x] = s[x]
  BY <1>1, <1>2 DEF Proceed, SessionFields
<1>4. t.put = s.put /\ t.last = s.last /\ t.ask = s.ask
  BY <1>3 DEF SessionFields
<1>5. s.ask.op = "none" /\ Ended(s)
  BY <1>1 DEF Counted, Ended
<1>6. ASSUME NEW k, Faithful(s, bank, work[i], k)
      PROVE  Faithful(t, bank, work[i], k)
  <2>1. Coming(t, bank, k) = Coming(s, bank, k)
    BY <1>1, <1>3, <1>4 DEF Coming, SeenBy
  <2>2. ~Attaching(t)
    BY <1>3 DEF Attaching
  <2> HIDE DEF s, t, Coming, Attaching, Ended
  <2> QED
    BY <1>4, <1>5, <1>6, <2>1, <2>2 DEF Faithful
<1> QED
  BY <1>1, <1>3, <1>4, <1>5, <1>6, GoesOn


(***************************************************************************)
(* The rows of a source, one by one.                                       *)
(***************************************************************************)
LEMMA WithEntry ==
    ASSUME NEW f, NEW k, NEW v
    PROVE  /\ DOMAIN With(f, k, v) = DOMAIN f \cup {k} /\ With(f, k, v)[k] = v
           /\ \A x \in DOMAIN f \ {k} : With(f, k, v)[x] = f[x]
BY DEF With

(* A website's question is yielded under an id not met before, and noted. *)
LEMMA SeenGrows ==
    ASSUME NEW rd, DOMAIN rd = ReaderFields, rd.kind # "file"
    PROVE  /\ rd.seen \subseteq TakeEntry(rd).seen
           /\ Yielded(rd) # Invalid =>
                 /\ Yielded(rd).id \notin rd.seen
                 /\ Yielded(rd).id \in TakeEntry(rd).seen
<1> DEFINE e == Head(rd.queue)
           rest == [rd EXCEPT !.queue = Tail(@), !.row = @ + 1]
           noted == [rest EXCEPT !.seen = @ \cup {IdOf(rd, e)}, !.fresh = TRUE]
<1>1. rest.seen = rd.seen /\ noted.seen = rd.seen \cup {IdOf(rd, e)}
  BY DEF ReaderFields
<1>2. TakeEntry(rd) = IF Fresh(rd, e) THEN noted ELSE rest
  BY DEF TakeEntry
<1>3. ASSUME Yielded(rd) # Invalid
      PROVE  Fresh(rd, e) /\ IdOf(rd, e) = Yielded(rd).id
  <2>1. /\ Fresh(rd, e) /\ WebRecord(e) # NoValue
        /\ Yielded(rd) = ParseRecord(WebRecord(e), NoValue)
    BY <1>3 DEF Yielded
  <2>2. Yielded(rd).id = e.id
    BY <1>3, <2>1, Parsed, WebParsed
  <2> QED
    BY <2>1, <2>2 DEF IdOf
<1> HIDE DEF rest, noted
<1>4. Yielded(rd) # Invalid => Yielded(rd).id \notin rd.seen
  BY <1>3 DEF Fresh
<1> QED
  BY <1>1, <1>2, <1>3, <1>4

(* What upsert does to a session s, row being the object it works on: t is the
   session after it. *)
Inserted(t, s, k, row, q) ==
    /\ row = NoRow /\ t.pc = "ask" /\ t.ask = Insert(k, RowOf(q)) /\ t.old = s.old
    /\ t.created = s.created + 1 /\ t.updated = s.updated /\ t.unchanged = s.unchanged
Rewritten(t, s, k, row, q) ==
    /\ row # NoRow /\ ~SameContent(row, q)
    /\ t.pc = "ask" /\ t.ask = Update(k, RowOf(q), Changed(row, q), "read")
    /\ t.old = With(s.old, k, row)
    /\ t.created = s.created /\ t.updated = s.updated + 1 /\ t.unchanged = s.unchanged
Repaired(t, s, k, row, q) ==
    /\ row # NoRow /\ SameContent(row, q) /\ NewUrl(row, q)
    /\ t.pc = "ask" /\ t.ask = Update(k, RowOf(q), {"url"}, "read")
    /\ t.old = With(s.old, k, row)
    /\ t.created = s.created /\ t.updated = s.updated /\ t.unchanged = s.unchanged + 1
Same(t, s, k, row, q) ==
    /\ row # NoRow /\ SameContent(row, q) /\ ~NewUrl(row, q)
    /\ t.pc = s.pc /\ t.ask = s.ask /\ t.old = With(s.old, k, row)
    /\ t.created = s.created /\ t.updated = s.updated /\ t.unchanged = s.unchanged + 1
Upshot(t, s, k, row, q) ==
    \/ Inserted(t, s, k, row, q) \/ Rewritten(t, s, k, row, q)
    \/ Repaired(t, s, k, row, q) \/ Same(t, s, k, row, q)

(* The question is noted as given, its picture's address kept. *)
Noted(t, s, k, q) ==
    /\ \E given : t.last = With(s.last, k, given)
                    /\ given.content = Content(q) /\ given.url = q.image
    /\ t.urls = s.urls \cup ({q.image} \ {NoUrl})
    /\ t.put = s.put /\ t.raced = s.raced /\ t.skipped = s.skipped /\ t.rd = s.rd

(* Beside the content, the record it was made from is noted. *)
Gave(t, s, k, q, e) ==
    \E given : /\ t.last = With(s.last, k, given)
               /\ given.content = Content(q) /\ given.given = e

LEMMA UpsertShows ==
    ASSUME DOMAIN sess = Task, NEW i \in Task, NEW q, NEW s, DOMAIN s = SessionFields,
           Upsert(i, q, s)
    PROVE  LET k == RowKey(s, q)
               t == sess'[i]
           IN /\ \A j \in Task \ {i} : sess'[j] = sess[j]
              /\ Noted(t, s, k, q) /\ Upshot(t, s, k, Existing(i, k), q)
              /\ Gave(t, s, k, q, Head(sess[i].rd.queue))
<1> DEFINE e == Head(sess[i].rd.queue)
           k == RowKey(s, q)
           row == Existing(i, k)
           t == sess'[i]
           given == [content |-> Content(q), url |-> q.image, given |-> e]
           told == [s EXCEPT !.last = With(@, k, given), !.urls = @ \cup ({q.image} \ {NoUrl})]
           known == [told EXCEPT !.old = With(@, k, row)]
<1>1. /\ \/ /\ row = NoRow
            /\ Proceed(i, [told EXCEPT !.created = @ + 1, !.pc = "ask",
                                       !.ask = Insert(k, RowOf(q))])
         \/ /\ row # NoRow /\ ~SameContent(row, q)
            /\ Proceed(i, [known EXCEPT !.updated = @ + 1, !.pc = "ask",
                                        !.ask = Update(k, RowOf(q), Changed(row, q), "read")])
         \/ /\ row # NoRow /\ SameContent(row, q) /\ NewUrl(row, q)
            /\ Proceed(i, [known EXCEPT !.unchanged = @ + 1, !.pc = "ask",
                                        !.ask = Update(k, RowOf(q), {"url"}, "read")])
         \/ /\ row # NoRow /\ SameContent(row, q) /\ ~NewUrl(row, q)
            /\ Proceed(i, [known EXCEPT !.unchanged = @ + 1])
  BY DEF Upsert
<1>2. \A j \in Task \ {i} : sess'[j] = sess[j]
  BY <1>1 DEF Proceed
<1>3. given.content = Content(q) /\ given.url = q.image /\ given.given = e
  OBVIOUS
<1> HIDE DEF given, k, row, e
<1>4. /\ DOMAIN told = SessionFields /\ told.last = With(s.last, k, given)
      /\ told.urls = s.urls \cup ({q.image} \ {NoUrl})
      /\ \A x \in SessionFields \ {"last", "urls"} : told[x] = s[x]
  BY DEF SessionFields
<1>5. /\ DOMAIN known = SessionFields /\ known.last = With(s.last, k, given)
      /\ known.urls = s.urls \cup ({q.image} \ {NoUrl}) /\ known.old = With(s.old, k, row)
      /\ \A x \in SessionFields \ {"last", "urls", "old"} : known[x] = s[x]
  BY <1>4 DEF SessionFields
<1> HIDE DEF told, known
<1>6. CASE row = NoRow /\ Proceed(i, [told EXCEPT !.created = @ + 1, !.pc = "ask",
                                                  !.ask = Insert(k, RowOf(q))])
  <2>1. t = [told EXCEPT !.created = @ + 1, !.pc = "ask", !.ask = Insert(k, RowOf(q))]
    BY <1>6 DEF Proceed
  <2> HIDE DEF t
  <2>2. Noted(t, s, k, q) /\ Gave(t, s, k, q, e)
    BY <1>3, <1>4, <2>1 DEF Noted, Gave, SessionFields
  <2>3. Inserted(t, s, k, row, q)
    BY <1>4, <1>6, <2>1 DEF Inserted, SessionFields
  <2> QED
    BY <1>2, <2>2, <2>3 DEF Upshot, t, k, row, e
<1>7. CASE /\ row # NoRow /\ ~SameContent(row, q)
           /\ Proceed(i, [known EXCEPT !.updated = @ + 1, !.pc = "ask",
                                       !.ask = Update(k, RowOf(q), Changed(row, q), "read")])
  <2>1. t = [known EXCEPT !.updated = @ + 1, !.pc = "ask",
                          !.ask = Update(k, RowOf(q), Changed(row, q), "read")]
    BY <1>7 DEF Proceed
  <2> HIDE DEF t
  <2>2. Noted(t, s, k, q) /\ Gave(t, s, k, q, e)
    BY <1>3, <1>5, <2>1 DEF Noted, Gave, SessionFields
  <2>3. Rewritten(t, s, k, row, q)
    BY <1>5, <1>7, <2>1 DEF Rewritten, SessionFields
  <2> QED
    BY <1>2, <2>2, <2>3 DEF Upshot, t, k, row, e
<1>8. CASE /\ row # NoRow /\ SameContent(row, q) /\ NewUrl(row, q)
           /\ Proceed(i, [known EXCEPT !.unchanged = @ + 1, !.pc = "ask",
                                       !.ask = Update(k, RowOf(q), {"url"}, "read")])
  <2>1. t = [known EXCEPT !.unchanged = @ + 1, !.pc = "ask",
                          !.ask = Update(k, RowOf(q), {"url"}, "read")]
    BY <1>8 DEF Proceed
  <2> HIDE DEF t
  <2>2. Noted(t, s, k, q) /\ Gave(t, s, k, q, e)
    BY <1>3, <1>5, <2>1 DEF Noted, Gave, SessionFields
  <2>3. Repaired(t, s, k, row, q)
    BY <1>5, <1>8, <2>1 DEF Repaired, SessionFields
  <2> QED
    BY <1>2, <2>2, <2>3 DEF Upshot, t, k, row, e
<1>9. CASE /\ row # NoRow /\ SameContent(row, q) /\ ~NewUrl(row, q)
           /\ Proceed(i, [known EXCEPT !.unchanged = @ + 1])
  <2>1. t = [known EXCEPT !.unchanged = @ + 1]
    BY <1>9 DEF Proceed
  <2> HIDE DEF t
  <2>2. Noted(t, s, k, q) /\ Gave(t, s, k, q, e)
    BY <1>3, <1>5, <2>1 DEF Noted, Gave, SessionFields
  <2>3. Same(t, s, k, row, q)
    BY <1>5, <1>9, <2>1 DEF Same, SessionFields
  <2> QED
    BY <1>2, <2>2, <2>3 DEF Upshot, t, k, row, e
<1> QED
  BY <1>1, <1>6, <1>7, <1>8, <1>9


(* An entry that gives nothing: a file's row is skipped. *)
LEMMA SkipKeeps ==
    ASSUME IInv, RInv, NEW i \in Task, sess[i].pc = "read", sess[i].rd.queue # <<>>,
           UNCHANGED <<bank, mediaVars>>,
           Proceed(i, [[sess[i] EXCEPT !.rd = TakeEntry(sess[i].rd)] EXCEPT
                          !.skipped = IF sess[i].rd.kind = "file" THEN @ + 1 ELSE @])
    PROVE  RInv'
<1> DEFINE s == sess[i]
           t == sess'[i]
<1>1. /\ DOMAIN sess = Task /\ DOMAIN s = SessionFields /\ DOMAIN s.rd = ReaderFields
      /\ s.rd.row \in Nat /\ s.pc = "read"
      /\ Counted(s, bank) /\ Stored(s, bank, work[i])
  BY DEF IInv, Sessions, Good, Shape, RInv
<1>2. /\ \A j \in Task \ {i} : sess'[j] = sess[j]
      /\ t.rd = TakeEntry(s.rd)
      /\ t.skipped = (IF s.rd.kind = "file" THEN s.skipped + 1 ELSE s.skipped)
      /\ \A x \in SessionFields \ {"rd", "skipped"} : t[x] = s[x]
  BY <1>1 DEF Proceed, SessionFields
<1>3. /\ t.pc = "read" /\ t.put = s.put /\ t.old = s.old /\ t.urls = s.urls /\ t.ask = s.ask
      /\ t.raced = s.raced /\ t.last = s.last /\ t.created = s.created
      /\ t.updated = s.updated /\ t.unchanged = s.unchanged
  BY <1>1, <1>2 DEF SessionFields
<1>4. t.rd.kind = s.rd.kind /\ t.rd.row = s.rd.row + 1
  BY <1>1, <1>2, EntryTaken
<1>5. s.rd.kind # "file" => s.rd.seen \subseteq t.rd.seen
  BY <1>1, <1>2, SeenGrows
<1> HIDE DEF s, t
<1>6. /\ s.ask.op = "none"
      /\ {s.created, s.updated, s.unchanged, s.skipped} \subseteq Nat
  BY <1>1 DEF Counted
<1>7. Counted(t, bank)
  <2>1. Fresher(t, bank) = Fresher(s, bank) /\ Pending(t) = Pending(s)
        /\ TotalKept(t) = TotalKept(s) /\ TotalKept(s) \in Nat
    BY <1>3, <1>6 DEF Fresher, Pending, TotalKept
  <2>2. s.rd.kind = "file" => TotalKept(t) + t.skipped = t.rd.row
    BY <1>1, <1>2, <1>4, <1>6, <2>1 DEF Counted
  <2>3. s.rd.kind # "file" => /\ TotalKept(t) = Cardinality(DOMAIN t.last)
                              /\ \A k \in DOMAIN t.last : k[2] \in t.rd.seen
    BY <1>1, <1>3, <1>5, <2>1 DEF Counted
  <2>4. t.skipped \in Nat
    BY <1>2, <1>6
  <2>5. /\ IsFiniteSet(DOMAIN t.put) /\ IsFiniteSet(DOMAIN t.last)
        /\ t.created = Cardinality(Fresher(t, bank)) + Pending(t)
    BY <1>1, <1>3, <2>1 DEF Counted
  <2> QED
    BY <1>3, <1>4, <1>6, <2>2, <2>3, <2>4, <2>5 DEF Counted
<1>8. \A k \in DOMAIN s.last \ s.raced : Faithful(t, bank, work[i], k)
  <2>1. ~Attaching(t) /\ ~Ended(t)
    BY <1>3 DEF Attaching, Ended
  <2> QED
    BY <1>1, <1>3, <2>1, FaithfulMoves DEF Stored
<1>9. Stored(t, bank, work[i])
  BY <1>1, <1>3, <1>6, <1>8, StoredMoves
<1> QED
  BY <1>2, <1>3, <1>7, <1>9, OneSessionQuiet DEF s, t

(* A question that is kept counts once. *)
LEMMA UpsertCounted ==
    ASSUME NEW s, NEW z, NEW t, NEW b, NEW k, NEW row, NEW q, Shape(s), s.pc = "read",
           Counted(s, b), z.rd = TakeEntry(s.rd),
           \A x \in SessionFields \ {"rd"} : z[x] = s[x],
           Noted(t, z, k, q), Upshot(t, z, k, row, q), row = NoRow => k \notin DOMAIN s.put,
           k[2] = q.id, s.rd.kind # "file" => /\ q.id \notin s.rd.seen
                                               /\ q.id \in TakeEntry(s.rd).seen
    PROVE  Counted(t, b)
<1>1. /\ DOMAIN s = SessionFields /\ DOMAIN s.rd = ReaderFields /\ s.rd.row \in Nat
  BY DEF Shape
<1>2. /\ \E given : t.last = With(s.last, k, given)
      /\ t.put = s.put /\ t.skipped = s.skipped /\ t.rd = TakeEntry(s.rd)
      /\ z.pc = "read" /\ z.ask = s.ask /\ z.created = s.created
      /\ z.updated = s.updated /\ z.unchanged = s.unchanged
  BY <1>1 DEF Noted, SessionFields
<1>3. DOMAIN t.last = DOMAIN s.last \cup {k}
  <2>1. PICK given : t.last = With(s.last, k, given)
    BY <1>2
  <2> QED
    BY <2>1 DEF With
<1>4. /\ s.ask.op = "none"
      /\ {s.created, s.updated, s.unchanged, s.skipped} \subseteq Nat
      /\ IsFiniteSet(DOMAIN s.put) /\ IsFiniteSet(DOMAIN s.last)
  BY DEF Counted
<1>5. t.rd.kind = s.rd.kind /\ t.rd.row = s.rd.row + 1
  BY <1>1, <1>2, EntryTaken
<1>6. Fresher(t, b) = Fresher(s, b) /\ Pending(s) = 0
  BY <1>2, <1>4 DEF Fresher, Pending
<1>7. /\ {t.created, t.updated, t.unchanged} \subseteq Nat
      /\ TotalKept(t) = TotalKept(s) + 1 /\ TotalKept(s) \in Nat
  <2>1. CASE Inserted(t, z, k, row, q)
    BY <1>2, <1>4, <2>1 DEF Inserted, TotalKept
  <2>2. CASE Rewritten(t, z, k, row, q)
    BY <1>2, <1>4, <2>2 DEF Rewritten, TotalKept
  <2>3. CASE Repaired(t, z, k, row, q)
    BY <1>2, <1>4, <2>3 DEF Repaired, TotalKept
  <2>4. CASE Same(t, z, k, row, q)
    BY <1>2, <1>4, <2>4 DEF Same, TotalKept
  <2> QED
    BY <2>1, <2>2, <2>3, <2>4 DEF Upshot
<1>8. /\ t.created = s.created + Pending(t)
      /\ t.ask.op = "insert" => t.ask.key = k /\ row = NoRow
      /\ t.pc # "ask" => t.ask.op = "none"
      /\ t.pc # "idle"
  <2>1. CASE Inserted(t, z, k, row, q)
    <3>1. t.ask.op = "insert" /\ t.ask.key = k
      BY <2>1 DEF Inserted, Insert
    <3> QED
      BY <1>2, <2>1, <3>1 DEF Inserted, Pending
  <2>2. CASE Rewritten(t, z, k, row, q)
    <3>1. t.ask.op = "update"
      BY <2>2 DEF Rewritten, Update
    <3> QED
      BY <1>2, <1>4, <2>2, <3>1 DEF Rewritten, Pending
  <2>3. CASE Repaired(t, z, k, row, q)
    <3>1. t.ask.op = "update"
      BY <2>3 DEF Repaired, Update
    <3> QED
      BY <1>2, <1>4, <2>3, <3>1 DEF Repaired, Pending
  <2>4. CASE Same(t, z, k, row, q)
    BY <1>2, <1>4, <2>4 DEF Same, Pending
  <2> QED
    BY <2>1, <2>2, <2>3, <2>4 DEF Upshot
<1>9. t.created = Cardinality(Fresher(t, b)) + Pending(t)
  <2>1. IsFiniteSet(Fresher(s, b))
    BY <1>4, FS_Subset DEF Fresher
  <2>2. Cardinality(Fresher(s, b)) \in Nat
    BY <2>1, FS_CardinalityType
  <2>3. s.created = Cardinality(Fresher(s, b)) + 0
    BY <1>6 DEF Counted
  <2> QED
    BY <1>4, <1>6, <1>8, <2>2, <2>3
<1>10. t.rd.kind = "file" => TotalKept(t) + t.skipped = t.rd.row
  BY <1>1, <1>2, <1>4, <1>5, <1>7 DEF Counted
<1>11. ASSUME t.rd.kind # "file"
       PROVE  /\ TotalKept(t) = Cardinality(DOMAIN t.last)
              /\ \A x \in DOMAIN t.last : x[2] \in t.rd.seen
  <2>1. /\ TotalKept(s) = Cardinality(DOMAIN s.last)
        /\ \A x \in DOMAIN s.last : x[2] \in s.rd.seen
    BY <1>5, <1>11 DEF Counted
  <2>2. k \notin DOMAIN s.last
    BY <1>5, <1>11, <2>1
  <2>3. Cardinality(DOMAIN s.last \cup {k}) = Cardinality(DOMAIN s.last) + 1
    BY <1>4, <2>2, FS_AddElement
  <2>4. s.rd.seen \subseteq t.rd.seen
    BY <1>1, <1>2, <1>5, <1>11, SeenGrows
  <2> QED
    BY <1>2, <1>3, <1>5, <1>7, <1>11, <2>1, <2>3, <2>4
<1>12. IsFiniteSet(DOMAIN t.last)
  BY <1>3, <1>4, FS_AddElement
<1> QED
  BY <1>2, <1>4, <1>7, <1>8, <1>9, <1>10, <1>11, <1>12 DEF Counted


(* The row upsert leaves, or asks for, holds what was given. *)
LEMMA UpshotGiven ==
    ASSUME NEW z, NEW t, NEW b, NEW k, NEW row, NEW q, z.pc = "read",
           Upshot(t, z, k, row, q), row = SeenBy(t, b, k)
    PROVE  /\ Coming(t, b, k).content = Content(q)
           /\ q.image # NoUrl => Coming(t, b, k).url = q.image
<1>1. RowOf(q).content = Content(q) /\ RowOf(q).url = q.image
  BY DEF RowOf
<1>2. CASE Inserted(t, z, k, row, q)
  <2>1. t.pc = "ask" /\ t.ask.op = "insert" /\ t.ask.key = k /\ t.ask.row = RowOf(q)
    BY <1>2 DEF Inserted, Insert
  <2>2. Coming(t, b, k) = RowOf(q)
    BY <2>1 DEF Coming
  <2> QED
    BY <1>1, <2>2
<1>3. CASE Rewritten(t, z, k, row, q)
  <2>1. /\ t.pc = "ask" /\ t.ask.op = "update" /\ t.ask.key = k /\ t.ask.row = RowOf(q)
        /\ t.ask.cols = Changed(row, q)
    BY <1>3 DEF Rewritten, Update
  <2>2. "content" \in t.ask.cols /\ ("url" \in t.ask.cols <=> NewUrl(row, q))
    BY <2>1 DEF Changed
  <2>3. Coming(t, b, k) = Apply(row, t.ask)
    BY <2>1 DEF Coming
  <2>4. Coming(t, b, k).content = Content(q)
    BY <1>1, <2>1, <2>2, <2>3, AppliedColumns
  <2>5. CASE NewUrl(row, q)
    BY <1>1, <2>1, <2>2, <2>3, <2>4, <2>5, AppliedColumns
  <2>6. CASE ~NewUrl(row, q)
    <3>1. Coming(t, b, k).url = row.url
      BY <2>2, <2>3, <2>6, AppliedColumns
    <3> QED
      BY <2>4, <2>6, <3>1 DEF NewUrl
  <2> QED
    BY <2>5, <2>6
<1>4. CASE Repaired(t, z, k, row, q)
  <2>1. /\ t.pc = "ask" /\ t.ask.op = "update" /\ t.ask.key = k /\ t.ask.row = RowOf(q)
        /\ t.ask.cols = {"url"} /\ row.content = Content(q)
    BY <1>4 DEF Repaired, Update, SameContent
  <2>2. Coming(t, b, k) = Apply(row, t.ask)
    BY <2>1 DEF Coming
  <2> QED
    BY <1>1, <2>1, <2>2, AppliedColumns
<1>5. CASE Same(t, z, k, row, q)
  <2>1. t.pc = "read" /\ row.content = Content(q) /\ ~NewUrl(row, q)
    BY <1>5 DEF Same, SameContent
  <2>2. Coming(t, b, k) = row
    BY <2>1 DEF Coming
  <2> QED
    BY <2>1, <2>2 DEF NewUrl
<1> QED
  BY <1>2, <1>3, <1>4, <1>5 DEF Upshot

LEMMA UpsertStored ==
    ASSUME NEW s, NEW z, NEW t, NEW b, NEW w, NEW k \in Key, NEW row, NEW q, Shape(s),
           s.pc = "read", s.ask.op = "none", Stored(s, b, w),
           \A x \in SessionFields \ {"rd"} : z[x] = s[x],
           Noted(t, z, k, q), Upshot(t, z, k, row, q), q.image \in Url \cup {NoUrl},
           row = IF k \in DOMAIN s.old THEN s.old[k] ELSE SeenBy(s, b, k),
           row # NoRow => SeenBy(s, b, k) # NoRow
    PROVE  Stored(t, b, w)
<1>1. /\ z.pc = "read" /\ z.ask = s.ask /\ z.old = s.old /\ z.last = s.last
      /\ z.urls = s.urls /\ z.put = s.put /\ z.raced = s.raced
  BY DEF SessionFields
<1>2. PICK given : /\ t.last = With(s.last, k, given)
                   /\ given.content = Content(q) /\ given.url = q.image
  BY <1>1 DEF Noted
<1>3. /\ t.urls = s.urls \cup ({q.image} \ {NoUrl}) /\ t.put = s.put /\ t.raced = s.raced
  BY <1>1 DEF Noted
<1>4. /\ DOMAIN t.last = DOMAIN s.last \cup {k} /\ t.last[k] = given
      /\ \A x \in DOMAIN s.last \ {k} : t.last[x] = s.last[x]
  BY <1>2 DEF With
<1>5. \A x : SeenBy(t, b, x) = SeenBy(s, b, x)
  BY <1>3 DEF SeenBy
<1>6. /\ t.pc \in {"read", "ask"}
      /\ t.ask.op = "insert" => Inserting(t, k) /\ row = NoRow
      /\ t.pc = "ask" => t.ask.key = k /\ t.ask.then = "read"
      /\ row = NoRow => Inserting(t, k) /\ t.old = s.old
      /\ row # NoRow => t.old = With(s.old, k, row)
  <2>1. CASE Inserted(t, z, k, row, q)
    <3>1. t.ask.op = "insert" /\ t.ask.key = k /\ t.ask.then = "read"
      BY <2>1 DEF Inserted, Insert
    <3> QED
      BY <1>1, <2>1, <3>1 DEF Inserted, Inserting
  <2>2. CASE Rewritten(t, z, k, row, q)
    <3>1. t.ask.op = "update" /\ t.ask.key = k /\ t.ask.then = "read"
      BY <2>2 DEF Rewritten, Update
    <3> QED
      BY <1>1, <2>2, <3>1 DEF Rewritten
  <2>3. CASE Repaired(t, z, k, row, q)
    <3>1. t.ask.op = "update" /\ t.ask.key = k /\ t.ask.then = "read"
      BY <2>3 DEF Repaired, Update
    <3> QED
      BY <1>1, <2>3, <3>1 DEF Repaired
  <2>4. CASE Same(t, z, k, row, q)
    BY <1>1, <2>4 DEF Same
  <2> QED
    BY <2>1, <2>2, <2>3, <2>4 DEF Upshot
<1>7. /\ DOMAIN s.last \subseteq Key
      /\ \A x \in DOMAIN s.old \ s.raced : s.old[x] = SeenBy(s, b, x)
      /\ \A x \in DOMAIN s.last : /\ s.last[x].url \in s.urls \cup {NoUrl}
                                  /\ SeenBy(s, b, x) # NoRow
      /\ \A x \in DOMAIN s.last \ s.raced : Faithful(s, b, w, x)
  BY DEF Stored, Inserting
<1>8. k \notin s.raced => row = SeenBy(t, b, k)
  BY <1>5, <1>7
<1>9. \A x \in DOMAIN t.old \ t.raced : t.old[x] = SeenBy(t, b, x)
  <2>1. CASE row = NoRow
    BY <1>3, <1>5, <1>6, <1>7, <2>1
  <2>2. CASE row # NoRow
    <3>1. /\ DOMAIN t.old = DOMAIN s.old \cup {k} /\ t.old[k] = row
          /\ \A x \in DOMAIN s.old \ {k} : t.old[x] = s.old[x]
      BY <1>6, <2>2 DEF With
    <3> QED
      BY <1>3, <1>5, <1>7, <1>8, <3>1
  <2> QED
    BY <2>1, <2>2
<1>10. \A x \in DOMAIN t.last : /\ t.last[x].url \in t.urls \cup {NoUrl}
                                /\ SeenBy(t, b, x) # NoRow \/ Inserting(t, x)
  BY <1>2, <1>3, <1>4, <1>5, <1>6, <1>7
<1>11. t.ask.op = "insert" => t.ask.key \notin DOMAIN t.old
  <2>1. \A x \in DOMAIN s.old : s.old[x] # NoRow
    BY DEF Shape
  <2>2. ASSUME k \in DOMAIN s.old PROVE row # NoRow
    <3>1. row = s.old[k]
      BY <2>2
    <3> QED
      BY <2>1, <2>2, <3>1
  <2>3. t.ask.op = "insert" => t.ask.key = k
    BY <1>6 DEF Inserting
  <2> QED
    BY <1>6, <2>2, <2>3
<1>12. ASSUME NEW x \in DOMAIN t.last \ t.raced PROVE Faithful(t, b, w, x)
  <2>1. ~Attaching(t) /\ ~Ended(t)
    BY <1>6 DEF Attaching, Ended
  <2>2. CASE x = k
    <3>1. /\ Coming(t, b, k).content = given.content
          /\ given.url # NoUrl => Coming(t, b, k).url = given.url
      BY <1>1, <1>2, <1>3, <1>8, <1>12, <2>2, UpshotGiven
    <3> HIDE DEF Coming, Attaching, Ended
    <3> QED
      BY <1>4, <2>1, <2>2, <3>1 DEF Faithful
  <2>3. CASE x # k
    <3>1. x \in DOMAIN s.last \ s.raced /\ Faithful(s, b, w, x) /\ t.last[x] = s.last[x]
      BY <1>3, <1>4, <1>7, <1>12, <2>3
    <3>2. Coming(t, b, x) = Coming(s, b, x)
      BY <1>5, <1>6, <2>3 DEF Coming
    <3> HIDE DEF Coming, Attaching, Ended
    <3> QED
      BY <2>1, <3>1, <3>2 DEF Faithful
  <2> QED
    BY <2>2, <2>3
<1>13. DOMAIN t.last \subseteq Key
  BY <1>4, <1>7
<1> QED
  BY <1>9, <1>10, <1>11, <1>12, <1>13 DEF Stored

LEMMA NextEntryKeeps ==
    ASSUME IInv, RInv, NEW i \in Task, NextEntry(i)
    PROVE  RInv'
<1> DEFINE s == sess[i]
           q == Yielded(s.rd)
           z == [s EXCEPT !.rd = TakeEntry(s.rd)]
           k == RowKey(s, q)
           row == Existing(i, k)
           t == sess'[i]
<1>1. /\ s.pc = "read" /\ s.rd.queue # <<>> /\ Shape(s) /\ DOMAIN sess = Task
      /\ Counted(s, bank) /\ Stored(s, bank, work[i])
      /\ UNCHANGED <<bank, mediaVars>>
  BY DEF NextEntry, Reading, IInv, Sessions, Good, RInv
<1>2. /\ DOMAIN z = SessionFields /\ z.rd = TakeEntry(s.rd)
      /\ \A x \in SessionFields \ {"rd"} : z[x] = s[x]
  BY <1>1 DEF Shape, SessionFields
<1>3. \/ q # Invalid /\ Upsert(i, q, z)
      \/ /\ q = Invalid
         /\ Proceed(i, [z EXCEPT !.skipped = IF s.rd.kind = "file" THEN @ + 1 ELSE @])
  BY DEF NextEntry
<1>4. CASE Proceed(i, [z EXCEPT !.skipped = IF s.rd.kind = "file" THEN @ + 1 ELSE @])
  BY <1>1, <1>4, SkipKeeps
<1>5. CASE q # Invalid /\ Upsert(i, q, z)
  <2> HIDE DEF z, q
  <2>1. RowKey(z, q) = k
    BY <1>2 DEF RowKey, SessionFields
  <2>2. /\ \A j \in Task \ {i} : sess'[j] = sess[j]
        /\ Noted(t, z, k, q) /\ Upshot(t, z, k, row, q)
    BY <1>1, <1>2, <1>5, <2>1, UpsertShows
  <2>3. k \in Key /\ q.image \in Url \cup {NoUrl}
    BY <1>1, <1>5, NextKey DEF q
  <2>4. k[2] = q.id
    BY DEF RowKey
  <2>5. s.rd.kind # "file" => q.id \notin s.rd.seen /\ q.id \in TakeEntry(s.rd).seen
    BY <1>1, <1>5, SeenGrows DEF q, Shape
  <2>6. row = IF k \in DOMAIN s.old THEN s.old[k] ELSE SeenBy(s, bank, k)
    BY DEF Existing, Seen, SeenBy
  <2>7. row # NoRow => SeenBy(s, bank, k) # NoRow
    BY ExistingSeen
  <2>8. row = NoRow => k \notin DOMAIN s.put
    BY <1>1, <2>6 DEF Shape, SeenBy
  <2>9. s.ask.op = "none"
    BY <1>1 DEF Counted
  <2>10. t.put = s.put
    BY <1>2, <2>2 DEF Noted, SessionFields
  <2> HIDE DEF s, t, k, row
  <2>11. Counted(t, bank)
    BY <1>1, <1>2, <2>2, <2>4, <2>5, <2>8, UpsertCounted
  <2>12. Stored(t, bank, work[i])
    BY <1>1, <1>2, <2>2, <2>3, <2>6, <2>7, <2>9, UpsertStored
  <2> QED
    BY <1>1, <2>2, <2>10, <2>11, <2>12, OneSessionQuiet DEF s, t
<1> QED
  BY <1>3, <1>4, <1>5


(***************************************************************************)
(* Statements.                                                             *)
(***************************************************************************)
(* The session after its statement a has run: its row is row, the object that
   had been loaded for it is kept. *)
Ran(t, s, a, row, kept) ==
    /\ t.put = With(s.put, a.key, row) /\ t.old = With(s.old, a.key, kept)
    /\ t.ask.op = "none" /\ t.pc = a.then
    /\ \A x \in SessionFields \ {"put", "ask", "pc", "old"} : t[x] = s[x]

LEMMA RanCounted ==
    ASSUME NEW s, NEW t, NEW a, NEW row, NEW kept, NEW b, Counted(s, b), s.pc = "ask",
           s.ask = a, a.op \in {"insert", "update"}, a.then \in {"read", "attach"},
           a.op = "insert" => b[a.key] = NoRow,
           a.op = "update" => a.key \in DOMAIN s.put \/ b[a.key] # NoRow,
           Ran(t, s, a, row, kept)
    PROVE  Counted(t, b)
<1>1. /\ t.rd = s.rd /\ t.last = s.last /\ t.created = s.created /\ t.skipped = s.skipped
      /\ t.updated = s.updated /\ t.unchanged = s.unchanged
  BY DEF Ran, SessionFields
<1>2. t.ask.op = "none" /\ t.pc \in {"read", "attach"}
  BY DEF Ran
<1>3. DOMAIN t.put = DOMAIN s.put \cup {a.key}
  BY DEF Ran, With
<1>4. /\ {s.created, s.updated, s.unchanged, s.skipped} \subseteq Nat
      /\ IsFiniteSet(DOMAIN s.put) /\ IsFiniteSet(DOMAIN s.last)
      /\ a.op = "insert" => a.key \notin DOMAIN s.put
      /\ s.created = Cardinality(Fresher(s, b)) + Pending(s)
  BY DEF Counted
<1>5. IsFiniteSet(Fresher(s, b))
  BY <1>4, FS_Subset DEF Fresher
<1>6. Cardinality(Fresher(s, b)) \in Nat
  BY <1>5, FS_CardinalityType
<1>7. t.created = Cardinality(Fresher(t, b)) + Pending(t)
  <2>1. CASE a.op = "insert"
    <3>1. Fresher(t, b) = Fresher(s, b) \cup {a.key} /\ a.key \notin Fresher(s, b)
      BY <1>3, <1>4, <2>1 DEF Fresher
    <3>2. Cardinality(Fresher(s, b) \cup {a.key}) = Cardinality(Fresher(s, b)) + 1
      BY <1>5, <3>1, FS_AddElement
    <3>3. Pending(s) = 1 /\ Pending(t) = 0
      BY <1>2, <2>1 DEF Pending
    <3> QED
      BY <1>1, <1>4, <1>6, <3>1, <3>2, <3>3
  <2>2. CASE a.op = "update"
    <3>1. Fresher(t, b) = Fresher(s, b)
      BY <1>3, <2>2 DEF Fresher
    <3>2. Pending(s) = 0 /\ Pending(t) = 0
      BY <1>2, <2>2 DEF Pending
    <3> QED
      BY <1>1, <1>4, <3>1, <3>2
  <2> QED
    BY <2>1, <2>2
<1>8. IsFiniteSet(DOMAIN t.put)
  BY <1>3, <1>4, FS_AddElement
<1>9. TotalKept(t) = TotalKept(s)
  BY <1>1 DEF TotalKept
<1> QED
  BY <1>1, <1>2, <1>4, <1>7, <1>8, <1>9 DEF Counted

LEMMA RanStored ==
    ASSUME NEW s, NEW t, NEW a, NEW row, NEW kept, NEW b, NEW w, Stored(s, b, w),
           s.pc = "ask", s.ask = a, a.op \in {"insert", "update"},
           a.then \in {"read", "attach"}, Ran(t, s, a, row, kept), row # NoRow,
           row = IF a.op = "insert" THEN a.row ELSE Apply(SeenBy(s, b, a.key), a),
           kept = IF a.key \in DOMAIN s.old THEN Apply(s.old[a.key], a) ELSE row
    PROVE  Stored(t, b, w)
<1>1. /\ t.last = s.last /\ t.urls = s.urls /\ t.todo = s.todo /\ t.raced = s.raced
  BY DEF Ran, SessionFields
<1>2. t.ask.op = "none" /\ t.pc \in {"read", "attach"} /\ t.pc = a.then
  BY DEF Ran
<1>3. /\ SeenBy(t, b, a.key) = row
      /\ \A k : k # a.key => SeenBy(t, b, k) = SeenBy(s, b, k)
  BY DEF Ran, With, SeenBy
<1>4. /\ DOMAIN t.old = DOMAIN s.old \cup {a.key} /\ t.old[a.key] = kept
      /\ \A x \in DOMAIN s.old \ {a.key} : t.old[x] = s.old[x]
  BY DEF Ran, With
<1>5. /\ DOMAIN s.last \subseteq Key
      /\ a.op = "insert" => a.key \notin DOMAIN s.old
      /\ \A k \in DOMAIN s.old \ s.raced : s.old[k] = SeenBy(s, b, k)
      /\ \A k \in DOMAIN s.last : /\ s.last[k].url \in s.urls \cup {NoUrl}
                                  /\ SeenBy(s, b, k) # NoRow \/ Inserting(s, k)
      /\ \A k \in DOMAIN s.last \ s.raced : Faithful(s, b, w, k)
  BY DEF Stored
<1>6. ASSUME NEW k \in DOMAIN t.old \ t.raced PROVE t.old[k] = SeenBy(t, b, k)
  <2>1. CASE k # a.key
    BY <1>1, <1>3, <1>4, <1>5, <1>6, <2>1
  <2>2. CASE k = a.key /\ k \in DOMAIN s.old
    <3>1. s.old[k] = SeenBy(s, b, k) /\ a.op = "update"
      BY <1>1, <1>5, <1>6, <2>2
    <3>2. kept = Apply(s.old[k], a) /\ row = Apply(SeenBy(s, b, k), a)
      BY <2>2, <3>1
    <3> QED
      BY <1>3, <1>4, <2>2, <3>1, <3>2
  <2>3. CASE k = a.key /\ k \notin DOMAIN s.old
    BY <1>3, <1>4, <2>3
  <2> QED
    BY <2>1, <2>2, <2>3
<1>7. \A k \in DOMAIN t.last : /\ t.last[k].url \in t.urls \cup {NoUrl}
                               /\ SeenBy(t, b, k) # NoRow
  <2>1. \A k : Inserting(s, k) => k = a.key
    BY DEF Inserting
  <2> QED
    BY <1>1, <1>3, <1>5, <2>1
<1>8. ASSUME NEW k \in DOMAIN t.last \ t.raced PROVE Faithful(t, b, w, k)
  <2>1. Coming(t, b, k) = SeenBy(t, b, k)
    BY <1>2 DEF Coming
  <2>2. Coming(s, b, k) = SeenBy(t, b, k)
    BY <1>3 DEF Coming
  <2>3. (Attaching(t) <=> Attaching(s)) /\ ~Ended(t)
    BY <1>2 DEF Attaching, Ended
  <2>4. Faithful(s, b, w, k)
    BY <1>1, <1>5, <1>8
  <2> HIDE DEF Coming, Attaching, Ended
  <2> QED
    BY <1>1, <2>1, <2>2, <2>3, <2>4 DEF Faithful
<1> QED
  BY <1>1, <1>2, <1>5, <1>6, <1>7, <1>8 DEF Stored

LEMMA ExecuteKeeps ==
    ASSUME IInv, RInv, NEW i \in Task, Execute(i)
    PROVE  RInv'
<1> DEFINE s == sess[i]
           a == s.ask
           row == IF a.op = "insert" THEN a.row ELSE Apply(Seen(i, a.key), a)
           kept == IF a.key \in DOMAIN s.old THEN Apply(s.old[a.key], a) ELSE row
           t == sess'[i]
<1>1. /\ Shape(s) /\ AskShape(s) /\ Backed(s, bank, final)
      /\ DOMAIN sess = Task /\ s.pc = "ask" /\ DOMAIN s = SessionFields
      /\ Counted(s, bank) /\ Stored(s, bank, work[i]) /\ bank' = bank /\ work' = work
      /\ RowsExclusive
  BY DEF IInv, Sessions, Good, Shape, Execute, RInv, mediaVars
<1>2. /\ \A j \in Task \ {i} : sess'[j] = sess[j]
      /\ t = [s EXCEPT !.put = With(@, a.key, row), !.ask = NoAsk, !.pc = a.then,
                       !.old = With(@, a.key, kept)]
  BY <1>1 DEF Execute, Proceed
<1>3. a.key \in Key /\ a.op \in {"insert", "update"} /\ a.then \in {"read", "attach"}
  BY <1>1 DEF AskShape
<1>4. row = IF a.op = "insert" THEN a.row ELSE Apply(SeenBy(s, bank, a.key), a)
  BY DEF Seen, SeenBy
<1>5. row # NoRow
  BY <1>1, AppliedRow DEF AskShape
<1>6. kept = IF a.key \in DOMAIN s.old THEN Apply(s.old[a.key], a) ELSE row
  OBVIOUS
<1>7. a.op = "insert" => bank[a.key] = NoRow
  <2>1. a.op = "insert" => Seen(i, a.key) = NoRow /\ a.key \notin DOMAIN s.put
    BY <1>1 DEF Execute, Counted
  <2> QED
    BY <2>1 DEF Seen
<1>8. a.op = "update" => a.key \in DOMAIN s.put \/ bank[a.key] # NoRow
  BY <1>1 DEF Backed, SeenBy
<1>9. \A j \in Task \ {i} : a.key \notin DOMAIN sess[j].put
  BY DEF Execute, Granted, Holders
<1> HIDE DEF row, kept
<1>10. Ran(t, s, a, row, kept)
  <2>1. NoAsk.op = "none"
    BY DEF NoAsk
  <2> QED
    BY <1>1, <1>2, <2>1 DEF Ran, SessionFields
<1>11. DOMAIN t.put = DOMAIN s.put \cup {a.key}
  BY <1>10 DEF Ran, With
<1>12. \A j \in Task \ {i} : DOMAIN t.put \cap DOMAIN sess[j].put = {}
  BY <1>1, <1>9, <1>11 DEF RowsExclusive
<1>13. s.ask = a
  OBVIOUS
<1> HIDE DEF s, t, a
<1>14. Counted(t, bank)
  BY <1>1, <1>3, <1>7, <1>8, <1>10, <1>13, RanCounted
<1>15. Stored(t, bank, work[i])
  BY <1>1, <1>3, <1>4, <1>5, <1>6, <1>10, <1>13, RanStored
<1> QED
  BY <1>1, <1>2, <1>12, <1>14, <1>15, OneSession DEF t


(***************************************************************************)
(* Commits, crashes, and what others do.                                   *)
(***************************************************************************)
LEMMA CommitKeeps ==
    ASSUME IInv, RInv, NEW i \in Task, Commit(i)
    PROVE  RInv'
<1> DEFINE D == DOMAIN sess[i].put
<1>1. /\ \A k \in Key : bank'[k] = SeenBy(sess[i], bank, k)
      /\ \A k \in Key : bank[k] # NoRow => bank'[k] # NoRow
      /\ sess'[i] = IdleTask
  BY CommitShows
<1>2. \A k \in Key \ D : bank'[k] = bank[k]
  BY <1>1 DEF SeenBy
<1>3. \A j \in Task \ {i} : \A u \in Url : work'[j][u].pc = work[j][u].pc
  BY StoppedWorkers DEF Commit, IInv
<1>4. ASSUME NEW j \in Task \ {i}
      PROVE  /\ Counted(sess'[j], bank') /\ Stored(sess'[j], bank', work'[j])
             /\ sess'[j].put = sess[j].put
  <2>1. /\ Shape(sess[j]) /\ Counted(sess[j], bank) /\ Stored(sess[j], bank, work[j])
        /\ DOMAIN sess[j] = SessionFields /\ D \cap DOMAIN sess[j].put = {}
    BY DEF IInv, Sessions, Good, Shape, RInv, RowsExclusive
  <2>2. CASE sess[j].pc # "idle"
    <3>1. sess'[j] = [sess[j] EXCEPT !.raced = @ \cup D]
      BY <2>2 DEF Commit, Running
    <3> HIDE DEF D
    <3>2. /\ DOMAIN sess'[j] = SessionFields /\ sess'[j].raced = sess[j].raced \cup D
          /\ \A x \in SessionFields \ {"raced"} : sess'[j][x] = sess[j][x]
      BY <2>1, <3>1 DEF SessionFields
    <3>3. \A u \in Url : work'[j][u].pc = work[j][u].pc
      BY <1>3
    <3>4. sess'[j].put = sess[j].put
      BY <3>2 DEF SessionFields
    <3>5. Counted(sess'[j], bank') /\ Stored(sess'[j], bank', work'[j])
      BY <1>1, <1>2, <2>1, <3>2, <3>3, FrameHolds
    <3> QED
      BY <3>4, <3>5
  <2>3. CASE sess[j].pc = "idle"
    <3>1. sess'[j] = sess[j]
      BY <2>3, CommitShows
    <3> QED
      BY <2>3, <3>1 DEF Counted, Stored
  <2> QED
    BY <2>2, <2>3
<1>5. /\ Counted(sess'[i], bank') /\ Stored(sess'[i], bank', work'[i])
      /\ DOMAIN sess'[i].put = {}
  BY <1>1, IdleHolds
<1>6. RowsExclusive'
  BY <1>4, <1>5 DEF RInv, RowsExclusive
<1> QED
  BY <1>4, <1>5, <1>6 DEF RInv

LEMMA CrashKeeps ==
    ASSUME IInv, RInv, Crash
    PROVE  RInv'
<1>1. PICK P \in {Panel} \cup {{i} : i \in Script} :
         /\ sess' = [i \in Task |-> IF i \in P THEN IdleTask ELSE sess[i]]
         /\ StopWorkers(P)
  BY DEF Crash
<1>2. P \in SUBSET Task
  BY MediaAssumption DEF Panel
<1>3. \A j \in Task \ P : \A u \in Url : work'[j][u].pc = work[j][u].pc
  BY <1>1, <1>2, StoppedWorkers DEF IInv
<1>4. bank' = bank
  BY DEF Crash
<1>5. ASSUME NEW j \in Task
      PROVE  /\ Counted(sess'[j], bank') /\ Stored(sess'[j], bank', work'[j])
             /\ sess'[j].put = sess[j].put \/ DOMAIN sess'[j].put = {}
  <2>1. CASE j \in P
    <3>1. sess'[j] = IdleTask
      BY <1>1, <2>1
    <3> QED
      BY <3>1, IdleHolds
  <2>2. CASE j \notin P
    <3>1. sess'[j] = sess[j] /\ \A u \in Url : work'[j][u].pc = work[j][u].pc
      BY <1>1, <1>3, <2>2
    <3>2. Counted(sess[j], bank) /\ Stored(sess'[j], bank', work'[j])
      BY <1>4, <3>1, UntouchedHolds
    <3> QED
      BY <1>4, <3>1, <3>2
  <2> QED
    BY <2>1, <2>2
<1>6. RowsExclusive'
  BY <1>5 DEF RInv, RowsExclusive
<1> QED
  BY <1>5, <1>6 DEF RInv

(* Nothing happens to any session. *)
LEMMA NothingKeeps ==
    ASSUME IInv, RInv, sess' = sess, bank' = bank, work' = work
    PROVE  RInv'
<1>1. RowsExclusive'
  BY DEF RInv, RowsExclusive
<1> QED
  BY <1>1 DEF RInv

(***************************************************************************)
(* The invariant, and what it gives.                                       *)
(***************************************************************************)
LEMMA StepKeeps == ASSUME IInv, RInv, NEW i \in Task, Step(i) PROVE RInv'
<1>1. CASE ReadPage(i)
  BY <1>1, ReadPageKeeps
<1>2. CASE ReadFails(i)
  BY <1>2, ReadFailsKeeps
<1>3. CASE NextEntry(i)
  BY <1>3, NextEntryKeeps
<1>4. CASE Execute(i)
  BY <1>4, ExecuteKeeps
<1>5. CASE Collide(i) \/ DeadlockVictim(i) \/ RenderFails(i)
  BY <1>5, AbortKeeps DEF Collide, DeadlockVictim, RenderFails
<1>6. CASE ReadDone(i)
  BY <1>6, ReadDoneKeeps
<1>7. CASE Download(i)
  BY <1>7, DownloadKeeps
<1>8. CASE Downloaded(i)
  BY <1>8, DownloadedKeeps
<1>9. CASE Attach(i)
  BY <1>9, AttachKeeps
<1>10. CASE Mark(i)
  BY <1>10, MarkKeeps
<1>11. CASE Commit(i)
  BY <1>11, CommitKeeps
<1> QED
  BY <1>1, <1>2, <1>3, <1>4, <1>5, <1>6, <1>7, <1>8, <1>9, <1>10, <1>11 DEF Step

LEMMA StartKeeps ==
    ASSUME IInv, RInv, NEW i \in Task, StartFile(i) \/ StartUpload(i) \/ StartSite(i)
    PROVE  RInv'
<1>1. UNCHANGED <<bank, mediaVars>>
  BY DEF StartFile, StartUpload, StartSite
<1>2. \E name, file, kind : Begin(i, name, file, kind)
  <2>1. CASE StartFile(i)
    BY <2>1 DEF StartFile
  <2>2. CASE StartUpload(i)
    BY <2>2 DEF StartUpload
  <2>3. CASE StartSite(i)
    BY <2>3 DEF StartSite
  <2> QED
    BY <2>1, <2>2, <2>3
<1>3. PICK name, file, kind : Begin(i, name, file, kind)
  BY <1>2
<1> QED
  BY <1>1, <1>3, BeginHolds

LEMMA NextRInv == ASSUME IInv, RInv, [Next]_vars PROVE RInv'
<1>1. CASE UNCHANGED vars
  BY <1>1, NothingKeeps DEF vars, importVars, mediaVars
<1>2. ASSUME NEW i \in Task, StartFile(i) \/ StartUpload(i) \/ StartSite(i)
      PROVE  RInv'
  BY <1>2, StartKeeps
<1>3. ASSUME NEW i \in Task, Step(i) PROVE RInv'
  BY <1>3, StepKeeps
<1>4. CASE EditFile
  BY <1>4, NothingKeeps DEF EditFile, mediaVars
<1>5. CASE Crash
  BY <1>5, CrashKeeps
<1>6. CASE Quiescent
  BY <1>1, <1>6 DEF Quiescent
<1> QED
  BY <1>1, <1>2, <1>3, <1>4, <1>5, <1>6 DEF Next

(* Counts, loaded objects and statements stay in step with the rows, whatever
   overlaps, fails or crashes. *)
THEOREM StoredInductive == Spec => []RInv
<1>1. Init => RInv
  <2> SUFFICES ASSUME Init PROVE RInv
    OBVIOUS
  <2>1. \A i \in Task : sess[i] = IdleTask
    BY DEF Init
  <2>2. \A i \in Task : Counted(sess[i], bank) /\ Stored(sess[i], bank, work[i])
    BY <2>1, IdleHolds
  <2>3. RowsExclusive
    BY <2>1, IdleHolds DEF RowsExclusive
  <2> QED
    BY <2>2, <2>3 DEF RInv
<1>2. IInv /\ RInv /\ [Next]_vars => RInv'
  BY NextRInv
<1> QED
  BY <1>1, <1>2, Invariance, PTL DEF Spec

(* The counts an import reports are true at every moment, not just at its end:
   of rows created, of questions a website gave, of a file's rows. *)
THEOREM CountsHold == Spec => []CountsAddUp
<1>1. RInv => CountsAddUp
  <2> SUFFICES ASSUME RInv, NEW i \in Task, Running(i)
               PROVE  LET s == sess[i]
                          kept == s.created + s.updated + s.unchanged
                      IN /\ s.created = Cardinality({k \in DOMAIN s.put : bank[k] = NoRow})
                                        + (IF s.ask.op = "insert" THEN 1 ELSE 0)
                         /\ IF s.rd.kind = "file" THEN kept + s.skipped = s.rd.row
                                                  ELSE kept = Cardinality(DOMAIN s.last)
    BY DEF CountsAddUp
  <2>1. Counted(sess[i], bank) /\ sess[i].pc # "idle"
    BY DEF RInv, Running
  <2> QED
    BY <2>1 DEF Counted, Fresher, Pending, TotalKept
<1> QED
  BY <1>1, StoredInductive, PTL

(***************************************************************************)
(* Options: which are kept, and where.                                     *)
(***************************************************************************)
(* A set of numbers that is not empty has a least one. *)
LEMMA LeastNumber ==
    ASSUME NEW S \in SUBSET Nat, S # {} PROVE \E n \in S : \A m \in S : n <= m
<1>1. IsWellFoundedOn(OpToRel(<, Nat), Nat)
  BY NatLessThanWellFounded
<1>2. PICK n \in S : \A m \in S : <<m, n>> \notin OpToRel(<, Nat)
  BY <1>1, WFMin
<1>3. \A m \in S : ~(m < n)
  BY <1>2 DEF OpToRel
<1> QED
  BY <1>3

(* f collects the labels that are not blank, up to the N-th. *)
KeptAt(labels, f, n) ==
    IF n = 0 THEN <<>>
    ELSE IF labels[n] = Blank THEN f[n - 1]
    ELSE Append(f[n - 1], labels[n])
Collects(labels, f, N) == f = [n \in 0..N |-> KeptAt(labels, f, n)]

LEMMA KeptBefore ==
    ASSUME NEW labels, NEW f, NEW g, NEW n, n # 0 => f[n - 1] = g[n - 1]
    PROVE  KeptAt(labels, f, n) = KeptAt(labels, g, n)
BY DEF KeptAt

(* Such a function exists, as it exists up to the first N it might not. *)
LEMMA Collected ==
    ASSUME NEW labels, NEW N \in Nat
    PROVE  \E f : Collects(labels, f, N)
<1> DEFINE Bad == {n \in 0..N : ~ \E f : Collects(labels, f, n)}
<1>1. SUFFICES ASSUME Bad # {} PROVE FALSE
  OBVIOUS
<1>2. PICK n \in Bad : \A m \in Bad : n <= m
  <2>1. Bad \in SUBSET Nat
    OBVIOUS
  <2> HIDE DEF Bad
  <2> QED
    BY <1>1, <2>1, LeastNumber
<1>3. n \in 0..N /\ ~ \E f : Collects(labels, f, n)
  OBVIOUS
<1>4. CASE n = 0
  <2> DEFINE f == [m \in 0..0 |-> <<>>]
  <2>1. \A m \in 0..0 : KeptAt(labels, f, m) = <<>>
    BY DEF KeptAt
  <2> HIDE DEF KeptAt
  <2>2. f = [m \in 0..0 |-> KeptAt(labels, f, m)]
    BY <2>1
  <2> QED
    BY <1>3, <1>4, <2>2 DEF Collects
<1>5. CASE n > 0
  <2>1. n - 1 \in 0..N /\ n - 1 \notin Bad
    BY <1>2, <1>3, <1>5
  <2>2. PICK f : Collects(labels, f, n - 1)
    BY <2>1
  <2> DEFINE g == [m \in 0..n |-> IF m < n THEN f[m] ELSE KeptAt(labels, f, n)]
  <2>3. ASSUME NEW m \in 0..n PROVE g[m] = KeptAt(labels, g, m)
    <3>1. m # 0 => f[m - 1] = g[m - 1]
      BY <1>3
    <3>2. KeptAt(labels, f, m) = KeptAt(labels, g, m)
      BY <3>1, KeptBefore
    <3>3. m < n => f[m] = KeptAt(labels, f, m)
      BY <1>3, <2>2 DEF Collects
    <3>4. g[m] = KeptAt(labels, f, m)
      BY <1>3, <3>3
    <3> QED
      BY <3>2, <3>4
  <2>4. g = [m \in 0..n |-> KeptAt(labels, g, m)]
    <3>1. g = [m \in 0..n |-> g[m]]
      OBVIOUS
    <3> HIDE DEF g
    <3> QED
      BY <2>3, <3>1
  <2> QED
    BY <1>3, <2>4 DEF Collects
<1> QED
  BY <1>3, <1>4, <1>5

LEMMA NonBlankCollects ==
    ASSUME NEW labels, Len(labels) \in Nat
    PROVE  \E f : Collects(labels, f, Len(labels)) /\ NonBlank(labels) = f[Len(labels)]
<1>1. \E f : Collects(labels, f, Len(labels))
  BY Collected
<1> QED
  BY <1>1 DEF NonBlank, Collects, KeptAt

(* Leaving empty options out moves none before the first of them. *)
LEMMA KeptInPlace ==
    ASSUME NEW labels \in Seq(Label), NEW M \in 0..Len(labels),
           \A p \in 1..M : labels[p] # Blank
    PROVE  \A p \in 1..M : p \in DOMAIN NonBlank(labels) /\ NonBlank(labels)[p] = labels[p]
<1> DEFINE N == Len(labels)
<1>1. N \in Nat /\ \A n \in 1..N : labels[n] \in Label
  BY LenProperties, ElementOfSeq
<1>2. PICK f : Collects(labels, f, N) /\ NonBlank(labels) = f[N]
  BY <1>1, NonBlankCollects
<1> DEFINE InPlace(n) == /\ f[n] \in Seq(Label) /\ (n <= M => Len(f[n]) = n)
                         /\ (n >= M => Len(f[n]) >= M)
                         /\ \A p \in 1..M : p <= n => f[n][p] = labels[p]
           Bad == {n \in 0..N : ~InPlace(n)}
<1>3. ASSUME NEW n \in 0..N PROVE f[n] = KeptAt(labels, f, n)
  BY <1>2 DEF Collects
<1>4. SUFFICES ASSUME Bad # {} PROVE FALSE
  <2>1. Bad = {} => InPlace(N)
    BY <1>1
  <2>2. InPlace(N) =>
           \A p \in 1..M : p \in DOMAIN NonBlank(labels) /\ NonBlank(labels)[p] = labels[p]
    BY <1>1, <1>2, LenProperties
  <2> HIDE DEF Bad, InPlace
  <2> QED
    BY <2>1, <2>2
<1>5. PICK n \in Bad : \A m \in Bad : n <= m
  <2>1. Bad \in SUBSET Nat
    BY <1>1
  <2> HIDE DEF Bad
  <2> QED
    BY <1>4, <2>1, LeastNumber
<1>6. n \in 0..N /\ ~InPlace(n)
  OBVIOUS
<1>7. CASE n = 0
  <2>1. f[0] = <<>>
    BY <1>3, <1>6, <1>7 DEF KeptAt
  <2> QED
    BY <1>6, <1>7, <2>1, EmptySeq
<1>8. CASE n > 0
  <2> DEFINE e == f[n - 1]
  <2>1. n - 1 \in 0..N /\ n - 1 \notin Bad
    BY <1>1, <1>5, <1>6, <1>8
  <2>2. InPlace(n - 1)
    BY <2>1
  <2>3. e \in Seq(Label) /\ labels[n] \in Label
    BY <1>1, <1>6, <1>8, <2>2
  <2>4. CASE labels[n] # Blank
    <3>1. f[n] = Append(e, labels[n])
      <4>1. f[n] = KeptAt(labels, f, n) /\ n # 0
        BY <1>3, <1>6, <1>8
      <4> QED
        BY <2>4, <4>1 DEF KeptAt
    <3>2. /\ f[n] \in Seq(Label) /\ Len(f[n]) = Len(e) + 1 /\ Len(e) \in Nat
          /\ \A p \in 1..Len(e) : f[n][p] = e[p]
          /\ f[n][Len(e) + 1] = labels[n]
      BY <2>3, <3>1, AppendProperties, LenProperties
    <3>3. n <= M => Len(f[n]) = n
      BY <1>1, <1>6, <1>8, <2>2, <3>2
    <3>4. n >= M => Len(f[n]) >= M
      BY <1>1, <1>6, <1>8, <2>2, <3>2
    <3>5. ASSUME NEW p \in 1..M, p <= n PROVE f[n][p] = labels[p]
      <4>1. CASE p < n
        <5>1. p \in 1..Len(e) /\ e[p] = labels[p]
          BY <1>1, <1>6, <1>8, <2>2, <3>2, <3>5, <4>1
        <5> QED
          BY <3>2, <5>1
      <4>2. CASE p = n
        <5>1. Len(e) + 1 = p
          BY <1>1, <1>6, <1>8, <2>2, <3>2, <3>5, <4>2
        <5> QED
          BY <3>2, <4>2, <5>1
      <4> QED
        BY <1>6, <3>5, <4>1, <4>2
    <3> QED
      BY <1>6, <3>2, <3>3, <3>4, <3>5
  <2>5. CASE labels[n] = Blank
    <3>1. f[n] = e
      BY <1>3, <1>6, <1>8, <2>5 DEF KeptAt
    <3>2. ~(n <= M)
      BY <1>6, <1>8, <2>5
    <3> QED
      BY <1>1, <1>6, <1>8, <2>2, <3>1, <3>2
  <2> QED
    BY <2>4, <2>5
<1> QED
  BY <1>6, <1>7, <1>8

LEMMA ColumnsInPlace ==
    ASSUME NEW cells \in Seq(Label \cup {NoValue, Absent}), NEW M \in 0..Len(cells),
           \A p \in 1..M : cells[p] \in Label \ {Blank}
    PROVE  \A p \in 1..M : p \in DOMAIN Columns(cells) /\ Columns(cells)[p] = cells[p]
<1> DEFINE labels == [n \in DOMAIN cells |->
                         CASE cells[n] = Absent  -> Blank
                           [] cells[n] = NoValue -> NoneText
                           [] OTHER              -> cells[n]]
<1>1. /\ Len(cells) \in Nat /\ DOMAIN cells = 1..Len(cells)
      /\ \A n \in 1..Len(cells) : cells[n] \in Label \cup {NoValue, Absent}
  BY LenProperties, ElementOfSeq
<1>2. \A n \in 1..Len(cells) : labels[n] \in Label
  BY <1>1, LabelAssumption
<1>3. labels \in Seq(Label) /\ Len(labels) = Len(cells)
  <2>1. labels = [n \in 1..Len(cells) |-> labels[n]]
    BY <1>1
  <2> HIDE DEF labels
  <2> QED
    BY <1>1, <1>2, <2>1
<1>4. \A p \in 1..M : labels[p] = cells[p]
  BY <1>1, LabelAssumption
<1>5. Columns(cells) = NonBlank(labels)
  BY DEF Columns
<1> HIDE DEF labels
<1> QED
  BY <1>3, <1>4, <1>5, KeptInPlace

(* What the author lays out without a gap before position M is found there. *)
LEMMA SuppliedInPlace ==
    ASSUME NEW r, RowTyped(r), NEW M \in DOMAIN Supplied(r), GaplessUpTo(M, Supplied(r))
    PROVE  /\ M \in DOMAIN ExtractOptions(r)
           /\ ExtractOptions(r)[M] = Supplied(r)[M]
<1>1. \A p \in 1..M : Supplied(r)[p] \in Label \ {Blank}
  BY DEF GaplessUpTo
<1>2. \A s, S : s \in Seq(S) /\ s = Supplied(r) => M \in 1..Len(s) /\ M \in 1..M /\ M \in 0..Len(s)
  BY LenProperties
<1>3. CASE r.options # NoValue
  <2>1. /\ r.options \in Seq(Label) /\ Supplied(r) = r.options
        /\ ExtractOptions(r) = NonBlank(r.options)
    BY <1>3 DEF RowTyped, Supplied, ExtractOptions
  <2> QED
    BY <1>1, <1>2, <2>1, KeptInPlace
<1>4. CASE r.options = NoValue /\ r.cell # NoValue /\ Len(NonBlank(r.cell)) >= 2
  <2>1. /\ r.cell \in Seq(Label) /\ Supplied(r) = r.cell
        /\ ExtractOptions(r) = NonBlank(r.cell)
    BY <1>4 DEF RowTyped, Supplied, ExtractOptions
  <2> QED
    BY <1>1, <1>2, <2>1, KeptInPlace
<1>5. CASE r.options = NoValue /\ ~(r.cell # NoValue /\ Len(NonBlank(r.cell)) >= 2)
  <2> DEFINE cells == IF Columns(r.numbered) # <<>> THEN r.numbered ELSE r.lettered
  <2>1. /\ Supplied(r) = cells /\ cells \in Seq(Label \cup {NoValue, Absent})
        /\ ExtractOptions(r) = Columns(cells)
    BY <1>5 DEF RowTyped, Supplied, ExtractOptions
  <2> HIDE DEF cells
  <2> QED
    BY <1>1, <1>2, <2>1, ColumnsInPlace
<1> QED
  BY <1>3, <1>4, <1>5

(* parse_record keeps the marked option, and marks it, whichever of the three
   spellings gives its position. *)
LEMMA MarkedKept ==
    ASSUME NEW r, NEW fallback, RowTyped(r), ParseRecord(r, fallback) # Invalid,
           MarksOneOf(r, Supplied(r)), GaplessUpTo(Marked(r), Supplied(r))
    PROVE  StoresMarked(r, Supplied(r), Content(ParseRecord(r, fallback)))
<1> DEFINE found == ExtractOptions(r)
           options == [n \in DOMAIN found |-> Clip[found[n]]]
           q == ParseRecord(r, fallback)
           correct == ResolveCorrectIndex(r, options)
<1>1. q.options = options /\ q.correct = correct /\ correct # NoIndex
  BY DEF ParseRecord
<1>2. /\ Content(q).options = q.options /\ Content(q).correct = q.correct
  BY DEF Content
<1>3. Marked(r) \in DOMAIN found /\ found[Marked(r)] = Supplied(r)[Marked(r)]
  BY SuppliedInPlace DEF MarksOneOf
<1>4. options[Marked(r)] = Clip[Supplied(r)[Marked(r)]]
  BY <1>3
<1> HIDE DEF options, found
<1>5. correct + 1 = Marked(r)
  <2>1. CASE r.index # NoValue
    <3>1. r.index \in Int /\ Marked(r) = r.index + 1 /\ correct = IfInRange(r.index, options)
      BY <2>1 DEF RowTyped, Marked, ResolveCorrectIndex
    <3> QED
      BY <1>1, <3>1 DEF IfInRange
  <2>2. CASE r.index = NoValue /\ IsKind(r, "letter")
    <3>1. Marked(r) = r.correct.at + 1 /\ correct = r.correct.at
      BY <2>2 DEF Marked, ResolveCorrectIndex, IsKind
    <3> QED
      BY <3>1
  <2>3. CASE r.index = NoValue /\ ~IsKind(r, "letter") /\ IsKind(r, "number")
    <3>1. /\ r.correct.at \in Int /\ Marked(r) = r.correct.at
          /\ correct = IfInRange(r.correct.at - 1, options)
      BY <2>3 DEF RowTyped, Marked, ResolveCorrectIndex, IsKind
    <3> QED
      BY <1>1, <3>1 DEF IfInRange
  <2> QED
    BY <2>1, <2>2, <2>3 DEF MarksOneOf, GivesPosition
<1> HIDE DEF correct, q
<1>6. Content(q).options[Content(q).correct + 1] = Clip[Supplied(r)[Marked(r)]]
  BY <1>1, <1>2, <1>4, <1>5
<1> QED
  BY <1>6 DEF StoresMarked, q

(***************************************************************************)
(* Every question a file gave is noted with the row it was made from, and  *)
(* every question under a name its source has, or had when its rows were   *)
(* listed.                                                                 *)
(***************************************************************************)
ReadFrom(s) ==
    s.rd.kind = "file" =>
        \A k \in DOMAIN s.last :
            \E c \in FileContent : \E m \in DOMAIN c.rows :
                /\ Gives(c, m) /\ s.last[k].given = c.rows[m]
                /\ s.last[k].content = Content(ParseRecord(c.rows[m], m))

NamedBy(s) ==
    /\ s.rd.kind = "file" /\ s.rd.n = 0 => DOMAIN s.last = {}
    /\ \A k \in DOMAIN s.last : k[1] \in {s.src, s.listed}

MInv == \A i \in Task : ReadFrom(sess[i]) /\ NamedBy(sess[i])

(* t keeps what s has noted, or has noted nothing yet. *)
Notes(t, s) ==
    \/ /\ t.last = s.last /\ t.rd.kind = s.rd.kind /\ t.src = s.src /\ t.listed = s.listed
       /\ t.rd.n = 0 => s.rd.n = 0
    \/ DOMAIN t.last = {}

LEMMA NotesKept ==
    ASSUME MInv, \A j \in Task : Notes(sess'[j], sess[j])
    PROVE  MInv'
<1>1. ASSUME NEW s, NEW t, ReadFrom(s), NamedBy(s), Notes(t, s)
      PROVE  ReadFrom(t) /\ NamedBy(t)
  BY <1>1 DEF ReadFrom, NamedBy, Notes
<1> QED
  BY <1>1 DEF MInv

LEMMA OneNotes ==
    ASSUME IInv, MInv, NEW i \in Task, NEW t, Proceed(i, t), Notes(t, sess[i])
    PROVE  MInv'
<1>1. sess'[i] = t /\ \A j \in Task \ {i} : sess'[j] = sess[j]
  BY DEF Proceed, IInv, Sessions
<1>2. ASSUME NEW j \in Task PROVE Notes(sess'[j], sess[j])
  BY <1>1 DEF Notes
<1> QED
  BY <1>2, NotesKept

LEMMA AbortNotes == ASSUME IInv, MInv, NEW i \in Task, Abort(i) PROVE MInv'
<1>1. DOMAIN IdleTask.last = {}
  BY DEF IdleTask, NoRows
<1> QED
  BY <1>1, OneNotes DEF Abort, Notes

(* What a session does between entries leaves its notes. *)
LEMMA ReadingNotes ==
    ASSUME IInv, MInv, NEW i \in Task, ReadPage(i) \/ ReadFails(i)
    PROVE  MInv'
<1> DEFINE s == sess[i]
<1>1. /\ DOMAIN s = SessionFields /\ DOMAIN s.rd = ReaderFields /\ s.rd.n \in Nat
  BY DEF IInv, Sessions, Good, Shape
<1>2. ASSUME NEW rd, rd.kind = s.rd.kind, rd.n = 0 => s.rd.n = 0
      PROVE  Notes([s EXCEPT !.rd = rd], s)
  BY <1>1, <1>2 DEF Notes, SessionFields
<1>3. CASE ReadPage(i)
  <2>1. PICK page \in Pages(i) :
           LET next == [s EXCEPT !.rd = TurnPage(@, page)]
               file == disk[next.file]
               name == SourceName(next.src, file)
           IN Proceed(i, IF next.rd.kind = "file"
                         THEN [next EXCEPT !.held = file, !.src = name,
                                           !.again = <<name, file>> \in imported]
                         ELSE next)
    BY <1>3 DEF ReadPage
  <2> DEFINE next == [s EXCEPT !.rd = TurnPage(@, page)]
  <2>2. /\ DOMAIN next = SessionFields /\ next.last = s.last
        /\ next.rd.kind = s.rd.kind /\ next.rd.n # 0
        /\ next.src = s.src /\ next.listed = s.listed
    BY <1>1, PageTurned DEF SessionFields
  <2>3. s.rd.kind = "file" => DOMAIN s.last = {}
    <3>1. NamedBy(s) /\ WantsPage(s.rd) /\ Filed(s, bank, disk, imported) /\ s.pc = "read"
      BY <1>3 DEF MInv, ReadPage, Reading, IInv, Sessions, Good
    <3> QED
      BY <3>1 DEF NamedBy, WantsPage, Filed
  <2> HIDE DEF next, s
  <2>4. /\ Notes(next, s)
        /\ s.rd.kind = "file" =>
              \A h, n, a : Notes([next EXCEPT !.held = h, !.src = n, !.again = a], s)
    BY <2>2, <2>3 DEF Notes, SessionFields
  <2>5. \E t : Proceed(i, t) /\ Notes(t, s)
    BY <2>1, <2>2, <2>4 DEF next
  <2> QED
    BY <2>5, OneNotes DEF s
<1>4. CASE ReadFails(i)
  <2>1. \/ Proceed(i, [s EXCEPT !.rd = Tolerate(@)])
        \/ SourceFails(i)
    BY <1>4 DEF ReadFails
  <2>2. Tolerate(s.rd).kind = s.rd.kind /\ (Tolerate(s.rd).n = 0 => s.rd.n = 0)
    <3>1. /\ TurnPage(s.rd, <<>>).kind = s.rd.kind
          /\ TurnPage(s.rd, <<>>).n = s.rd.n + 1 /\ s.rd.n + 1 # 0
      BY <1>1, PageTurned
    <3>2. /\ [s.rd EXCEPT !.over = TRUE].kind = s.rd.kind
          /\ [s.rd EXCEPT !.over = TRUE].n = s.rd.n
      BY <1>1 DEF ReaderFields
    <3> QED
      BY <3>1, <3>2 DEF Tolerate
  <2>3. CASE Proceed(i, [s EXCEPT !.rd = Tolerate(@)])
    BY <1>2, <2>2, <2>3, OneNotes
  <2>4. CASE PanelKeeps(i)
    <3>1. Notes([s EXCEPT !.pc = "commit", !.ok = FALSE], s)
      BY <1>1 DEF Notes, SessionFields
    <3> QED
      BY <2>4, <3>1, OneNotes DEF PanelKeeps
  <2>5. CASE ScriptDrops(i)
    BY <2>5, AbortNotes DEF ScriptDrops
  <2> QED
    BY <2>1, <2>3, <2>4, <2>5 DEF SourceFails
<1> QED
  BY <1>3, <1>4

LEMMA LaterNotes ==
    ASSUME IInv, MInv, NEW i \in Task,
           Execute(i) \/ ReadDone(i) \/ Download(i) \/ Downloaded(i) \/ Attach(i) \/ Mark(i)
    PROVE  MInv'
<1> DEFINE s == sess[i]
<1>1. DOMAIN s = SessionFields
  BY DEF IInv, Sessions, Good, Shape
<1>2. CASE Execute(i)
  <2>1. \A p, o, a, c : Notes([s EXCEPT !.put = p, !.ask = a, !.pc = c, !.old = o], s)
    BY <1>1 DEF Notes, SessionFields
  <2> QED
    BY <1>2, <2>1, OneNotes DEF Execute
<1>3. CASE ReadDone(i)
  <2>1. \A c : Notes([s EXCEPT !.pc = c], s)
    BY <1>1 DEF Notes, SessionFields
  <2> QED
    BY <1>3, <2>1, OneNotes DEF ReadDone
<1>4. CASE Download(i)
  BY <1>4, NotesKept DEF Download, importVars, Notes
<1>5. CASE Downloaded(i)
  <2>1. \A c, x : Notes([s EXCEPT !.pc = c, !.todo = x], s)
    BY <1>1 DEF Notes, SessionFields
  <2> QED
    BY <1>5, <2>1, OneNotes DEF Downloaded
<1>6. CASE Attach(i)
  <2>1. /\ \A x, c, a : Notes([s EXCEPT !.todo = x, !.pc = c, !.ask = a], s)
        /\ \A c : Notes([s EXCEPT !.pc = c], s)
    BY <1>1 DEF Notes, SessionFields
  <2> QED
    BY <1>6, <2>1, OneNotes DEF Attach
<1>7. CASE Mark(i)
  <2>1. \A c, m : Notes([s EXCEPT !.pc = c, !.marked = m], s)
    BY <1>1 DEF Notes, SessionFields
  <2> QED
    BY <1>7, <2>1, OneNotes DEF Mark
<1> QED
  BY <1>2, <1>3, <1>4, <1>5, <1>6, <1>7

LEMMA CommitNotes == ASSUME IInv, MInv, NEW i \in Task, Commit(i) PROVE MInv'
<1>1. DOMAIN IdleTask.last = {}
  BY DEF IdleTask, NoRows
<1>2. ASSUME NEW j \in Task PROVE Notes(sess'[j], sess[j])
  <2>1. DOMAIN sess[j] = SessionFields
    BY DEF IInv, Sessions, Good, Shape
  <2>2. \A x : Notes([sess[j] EXCEPT !.raced = x], sess[j])
    BY <2>1 DEF Notes, SessionFields
  <2>3. Notes(sess[j], sess[j]) /\ Notes(IdleTask, sess[j])
    BY <1>1 DEF Notes
  <2>4. sess'[j] \in {IdleTask, sess[j], [sess[j] EXCEPT !.raced = @ \cup DOMAIN sess[i].put]}
    BY DEF Commit
  <2> QED
    BY <2>2, <2>3, <2>4
<1> QED
  BY <1>2, NotesKept

LEMMA CrashNotes == ASSUME IInv, MInv, Crash PROVE MInv'
<1>1. DOMAIN IdleTask.last = {}
  BY DEF IdleTask, NoRows
<1>2. \A j \in Task : sess'[j] \in {IdleTask, sess[j]}
  BY DEF Crash
<1>3. \A j \in Task : Notes(sess'[j], sess[j])
  BY <1>1, <1>2 DEF Notes
<1> QED
  BY <1>3, NotesKept

LEMMA BeginNotes ==
    ASSUME IInv, MInv, NEW i \in Task, StartFile(i) \/ StartUpload(i) \/ StartSite(i)
    PROVE  MInv'
<1>1. PICK t : Proceed(i, t) /\ DOMAIN t.last = {}
  <2>1. ASSUME NEW name, NEW file, NEW kind, Begin(i, name, file, kind)
        PROVE  \E t : Proceed(i, t) /\ DOMAIN t.last = {}
    <3> DEFINE old == [x \in {y \in Key : y[1] = name /\ bank[y] # NoRow} |-> bank[x]]
               t == [IdleTask EXCEPT !.pc = "read", !.src = name, !.listed = name,
                                     !.file = file, !.rd = OpenReader(kind), !.old = old]
    <3>1. Proceed(i, t)
      BY <2>1 DEF Begin
    <3>2. DOMAIN t.last = {}
      BY DEF IdleTask, NoRows
    <3> HIDE DEF t
    <3> QED
      BY <3>1, <3>2
  <2> QED
    BY <2>1 DEF StartFile, StartUpload, StartSite
<1> QED
  BY <1>1, OneNotes DEF Notes

(* The next entry of a file is noted with the row it is. *)
LEMMA EntryNotes == ASSUME IInv, MInv, NEW i \in Task, NextEntry(i) PROVE MInv'
<1> DEFINE s == sess[i]
           q == Yielded(s.rd)
           z == [s EXCEPT !.rd = TakeEntry(s.rd)]
           k == RowKey(z, q)
           t == sess'[i]
<1>1. /\ s.pc = "read" /\ s.rd.queue # <<>> /\ Shape(s) /\ DOMAIN sess = Task
      /\ Filed(s, bank, disk, imported)
  BY DEF NextEntry, Reading, IInv, Sessions, Good
<1>2. /\ DOMAIN z = SessionFields /\ z.last = s.last /\ z.rd.kind = s.rd.kind
      /\ z.src = s.src /\ z.listed = s.listed /\ z.rd.n = s.rd.n
  BY <1>1, EntryTaken DEF Shape, SessionFields
<1>3. \/ q # Invalid /\ Upsert(i, q, z)
      \/ /\ q = Invalid
         /\ Proceed(i, [z EXCEPT !.skipped = IF s.rd.kind = "file" THEN @ + 1 ELSE @])
  BY DEF NextEntry
<1>4. CASE Proceed(i, [z EXCEPT !.skipped = IF s.rd.kind = "file" THEN @ + 1 ELSE @])
  <2> HIDE DEF z
  <2>1. \A n : Notes([z EXCEPT !.skipped = n], s)
    BY <1>2 DEF Notes, SessionFields
  <2> QED
    BY <1>4, <2>1, OneNotes
<1>5. CASE q # Invalid /\ Upsert(i, q, z)
  <2> HIDE DEF z, q
  <2>1. /\ \A j \in Task \ {i} : sess'[j] = sess[j]
        /\ Noted(t, z, k, q) /\ Gave(t, z, k, q, Head(s.rd.queue)) /\ Told(t, z, q)
    BY <1>1, <1>2, <1>5, UpsertShows, Upserted
  <2>2. PICK given : /\ t.last = With(s.last, k, given)
                     /\ given.content = Content(q) /\ given.given = Head(s.rd.queue)
    BY <1>2, <2>1 DEF Gave
  <2>3. /\ t.rd.kind = s.rd.kind /\ t.rd.n = s.rd.n
        /\ t.src = s.src /\ t.listed = s.listed /\ k[1] \in {s.src, s.listed}
    BY <1>2, <2>1 DEF Told, RowKey
  <2>4. ASSUME s.rd.kind = "file"
        PROVE  \E c \in FileContent : \E m \in DOMAIN c.rows :
                  /\ Gives(c, m) /\ given.given = c.rows[m]
                  /\ given.content = Content(ParseRecord(c.rows[m], m))
    <3> DEFINE m == s.rd.row + 1
    <3>1. /\ s.held \in FileContent /\ m \in DOMAIN s.held.rows
          /\ q = ParseRecord(s.held.rows[m], m) /\ Gives(s.held, m)
      BY <1>1, <1>5, <2>4, FileRow DEF q
    <3>2. Head(s.rd.queue) = s.held.rows[m]
      <4>1. /\ s.rd.n = 1 /\ s.rd.queue \in Seq(Item) /\ s.rd.row \in Nat
            /\ \A x \in 1..Len(s.rd.queue) : s.rd.queue[x] = s.held.rows[s.rd.row + x]
        BY <1>1, <2>4, FileRow DEF Filed, Shape
      <4>2. 1 \in 1..Len(s.rd.queue) /\ Head(s.rd.queue) = s.rd.queue[1]
        BY <1>1, <4>1, HeadTailProperties, LenProperties
      <4> QED
        BY <4>1, <4>2
    <3> HIDE DEF m
    <3> QED
      BY <2>2, <3>1, <3>2
  <2>5. /\ DOMAIN t.last = DOMAIN s.last \cup {k} /\ t.last[k] = given
        /\ \A x \in DOMAIN s.last \ {k} : t.last[x] = s.last[x]
    BY <2>2 DEF With
  <2>6. s.rd.kind = "file" => s.rd.n # 0
    BY <1>1, FileRow
  <2>7. ReadFrom(s) /\ NamedBy(s)
    BY DEF MInv
  <2> HIDE DEF s, t, k
  <2>8. ReadFrom(t)
    BY <2>3, <2>4, <2>5, <2>7 DEF ReadFrom
  <2>9. NamedBy(t)
    BY <2>3, <2>5, <2>6, <2>7 DEF NamedBy
  <2> QED
    BY <2>1, <2>8, <2>9 DEF MInv, t
<1> QED
  BY <1>3, <1>4, <1>5

LEMMA NextMInv == ASSUME IInv, MInv, [Next]_vars PROVE MInv'
<1>1. ASSUME UNCHANGED sess PROVE MInv'
  BY <1>1 DEF MInv
<1>2. ASSUME NEW i \in Task, Step(i) PROVE MInv'
  BY <1>2, ReadingNotes, EntryNotes, LaterNotes, CommitNotes, AbortNotes
  DEF Step, Collide, DeadlockVictim, RenderFails
<1>3. CASE UNCHANGED vars
  BY <1>1, <1>3 DEF vars, importVars
<1>4. CASE EditFile
  BY <1>1, <1>4 DEF EditFile
<1>5. CASE Quiescent
  BY <1>3, <1>5 DEF Quiescent
<1> QED
  BY <1>2, <1>3, <1>4, <1>5, BeginNotes, CrashNotes DEF Next

(* What a session notes of its questions is where they come from, and the name
   they go under is the source's, or the one its rows were listed by. *)
LEMMA NotesInductive == Spec => []MInv
<1>1. Init => MInv
  <2>1. DOMAIN IdleTask.last = {}
    BY DEF IdleTask, NoRows
  <2> QED
    BY <2>1 DEF Init, MInv, ReadFrom, NamedBy
<1>2. IInv /\ MInv /\ [Next]_vars => MInv'
  BY NextMInv
<1> QED
  BY <1>1, <1>2, Invariance, PTL DEF Spec

(* An import that succeeds commits, for every question its source gave, the
   content it gave last, its picture's address and the picture if the download
   worked, under the source's name at the end or when its rows were listed,
   save for the rows another import committed meanwhile. *)
THEOREM ReportsHold == Spec => []ReportedIsStored
<1>1. RInv /\ MInv => ReportedIsStored
  <2> SUFFICES ASSUME RInv, MInv, NEW i \in Task, sess[i].pc = "commit", sess[i].ok,
                      NEW k \in DOMAIN sess[i].last \ sess[i].raced
               PROVE  LET row == Seen(i, k)
                          given == sess[i].last[k]
                      IN /\ k[1] \in {sess[i].src, sess[i].listed}
                         /\ row.content = given.content
                         /\ given.url # NoUrl =>
                               /\ row.url = given.url
                               /\ work[i][given.url].pc = "ok" => row.path # NoUrl
    BY DEF ReportedIsStored
  <2>1. Faithful(sess[i], bank, work[i], k)
    BY DEF RInv, Stored
  <2>2. Coming(sess[i], bank, k) = Seen(i, k) /\ Ended(sess[i])
    BY DEF Coming, SeenBy, Seen, Ended
  <2>3. k[1] \in {sess[i].src, sess[i].listed}
    BY DEF MInv, NamedBy
  <2> HIDE DEF Coming, Ended
  <2> QED
    BY <2>1, <2>2, <2>3 DEF Faithful
<1> QED
  BY <1>1, StoredInductive, NotesInductive, PTL

(* Where a file marks its answer by position and leaves no option empty up to
   that one, the stored question has that option as its correct one, whatever
   the layout, the spelling, other files, overlaps and crashes. *)
THEOREM AnswersHold == Spec => []AnswerAsMarked
<1>1. MInv => AnswerAsMarked
  <2> SUFFICES ASSUME MInv, NEW i \in Task, sess[i].rd.kind = "file",
                      NEW k \in DOMAIN sess[i].last,
                      MarksOneOf(sess[i].last[k].given, Supplied(sess[i].last[k].given)),
                      GaplessUpTo(Marked(sess[i].last[k].given),
                                  Supplied(sess[i].last[k].given))
               PROVE  StoresMarked(sess[i].last[k].given, Supplied(sess[i].last[k].given),
                                   sess[i].last[k].content)
    BY DEF AnswerAsMarked
  <2>1. PICK c \in FileContent : \E m \in DOMAIN c.rows :
           /\ Gives(c, m) /\ sess[i].last[k].given = c.rows[m]
           /\ sess[i].last[k].content = Content(ParseRecord(c.rows[m], m))
    BY DEF MInv, ReadFrom
  <2>2. PICK m \in DOMAIN c.rows :
           /\ Gives(c, m) /\ sess[i].last[k].given = c.rows[m]
           /\ sess[i].last[k].content = Content(ParseRecord(c.rows[m], m))
    BY <2>1
  <2> QED
    BY <2>2, RowsAssumption, MarkedKept DEF Gives
<1> QED
  BY <1>1, NotesInductive, PTL
================================================================================
