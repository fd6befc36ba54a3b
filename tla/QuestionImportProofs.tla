-------------------------- MODULE QuestionImportProofs --------------------------
(***************************************************************************)
(* Proofs about QuestionImport, for any files, pages, pictures, tasks and  *)
(* bounds: types, pictures behind every recorded path and whole on disk,   *)
(* scripts that commit complete sources only, and files that add nothing   *)
(* when they are imported again.                                           *)
(***************************************************************************)
EXTENDS QuestionImport, SequenceTheorems, TLAPS

(***************************************************************************)
(* The inductive invariant.  Its parts are about one session s, given the  *)
(* tables it depends on: b the committed rows, f the picture files, d the  *)
(* files of data/, im the files imported so far, w the session's workers.  *)
(***************************************************************************)
SessionFields == {"pc", "ok", "src", "listed", "file", "held", "rd", "put", "old", "ask", "marked",
                  "urls", "todo", "created", "updated", "unchanged", "skipped",
                  "last", "raced", "again"}
ReaderFields == {"kind", "n", "barren", "fresh", "seen", "queue", "row", "over"}
Pcs == {"idle", "read", "ask", "media", "attach", "finish", "commit"}

SeenBy(s, b, k) == IF k \in DOMAIN s.put THEN s.put[k] ELSE b[k]
OnDisk(f, path) == path = NoUrl \/ (path \in Url /\ f[path] # "none")
Inserting(s, k) == s.pc = "ask" /\ s.ask.op = "insert" /\ s.ask.key = k

Shape(s) ==
    /\ DOMAIN s = SessionFields /\ DOMAIN s.rd = ReaderFields
    /\ s.pc \in Pcs /\ s.created \in Nat
    /\ s.rd.kind \in Kind /\ s.rd.n \in Nat /\ s.rd.row \in Nat
    /\ s.rd.queue \in Seq(Item)
    /\ s.pc # "idle" => s.src \in Name /\ s.listed \in Name
    /\ s.rd.kind # "file" => s.again = FALSE
    /\ s.urls \subseteq Url
    /\ DOMAIN s.put \subseteq Key /\ DOMAIN s.old \subseteq Key
    /\ \A k \in DOMAIN s.put : s.put[k] # NoRow
    /\ \A k \in DOMAIN s.old : s.old[k] # NoRow

AskShape(s) ==
    s.pc = "ask" =>
        /\ s.ask.op \in {"insert", "update"} /\ s.ask.key \in Key
        /\ s.ask.then \in {"read", "attach"}
        /\ s.ask.op = "insert" => s.ask.row # NoRow /\ s.ask.row.path = NoUrl

(* Whoever is past reading a source, without an error, has drained it. *)
ReadToEnd(s) ==
    \/ s.pc \in {"media", "attach", "finish"}
    \/ s.pc = "commit" /\ s.ok
    \/ s.pc = "ask" /\ s.ask.then = "attach"
    => Drained(s.rd)

(* Rows a session knows of are there; paths it writes are on disk. *)
Backed(s, b, f) ==
    /\ \A k \in DOMAIN s.old : SeenBy(s, b, k) # NoRow
    /\ \A k \in DOMAIN s.put : OnDisk(f, s.put[k].path)
    /\ \A t \in s.todo : /\ t[1] \in Key /\ SeenBy(s, b, t[1]) # NoRow
                         /\ t[2] \in Url /\ f[t[2]] # "none"
    /\ s.pc = "ask" /\ s.ask.op = "update" =>
          /\ SeenBy(s, b, s.ask.key) # NoRow
          /\ "path" \in s.ask.cols => OnDisk(f, s.ask.row.path)

(* Row m of a file gives a question, and its key. *)
Gives(c, m) == ParseRecord(c.rows[m], m) # Invalid
KeyOf(name, c, m) == <<name, ParseRecord(c.rows[m], m).id>>

(* A session over a file is some rows into it; if it was not renamed since its
   rows were listed, each row it has taken that gives a question has its key in
   the bank or about to be inserted; and an import of what was imported before
   under its present name has created nothing. *)
Filed(s, b, d, im) ==
    s.pc # "idle" /\ s.rd.kind = "file" =>
        /\ s.file \in Name /\ d[s.file] \in FileContent
        /\ s.rd.n \in {0, 1} /\ s.rd.over = FALSE
        /\ s.rd.n = 0 => /\ s.rd.queue = <<>> /\ s.rd.row = 0
                         /\ s.created = 0 /\ s.again = FALSE
        /\ s.rd.n = 1 => /\ s.held \in FileContent
                         /\ s.rd.row + Len(s.rd.queue) = Len(s.held.rows)
                         /\ \A m \in 1..Len(s.rd.queue) :
                               s.rd.queue[m] = s.held.rows[s.rd.row + m]
        /\ s.src = s.listed =>
              \A m \in 1..s.rd.row : Gives(s.held, m) =>
                 LET k == KeyOf(s.src, s.held, m)
                 IN SeenBy(s, b, k) # NoRow \/ Inserting(s, k)
        /\ s.again => <<s.src, s.held>> \in im /\ s.created = 0

(* Workers are busy only while their session waits for them. *)
Quiet(s, w) ==
    /\ s.pc = "idle" => s = IdleTask
    /\ s.pc # "media" => \A u \in Url : w[u].pc \in {"idle", "ok", "failed"}
    /\ \A u \in Url \ s.urls : w[u].pc = "idle"

Good(s, b, f, d, im) ==
    /\ Shape(s) /\ AskShape(s) /\ ReadToEnd(s)
    /\ Backed(s, b, f) /\ Filed(s, b, d, im)

(* What is imported is in the bank. *)
Known(b, im) ==
    \A e \in im : /\ e[1] \in Name /\ e[2] \in FileContent /\ e = <<e[1], e[2]>>
                  /\ \A m \in DOMAIN e[2].rows :
                        Gives(e[2], m) => b[KeyOf(e[1], e[2], m)] # NoRow

Counters == [imports : Nat, uploads : Nat, edits : Nat, crashes : Nat]

Tables ==
    /\ DOMAIN bank = Key /\ \A k \in Key : bank[k] # NoRow => OnDisk(final, bank[k].path)
    /\ disk \in [Name -> FileContent \cup {NoFile}]
    /\ marks \in Nat /\ count \in Counters
    /\ Known(bank, imported)

(* A file that is not whole is being written to, as long as nothing crashed. *)
Whole(u) ==
    /\ part[u] \in {"none", "full"} \/ Writers(u, "part") # {}
    /\ final[u] \in {"none", "full"} \/ Writers(u, "final") # {}

Pictures ==
    /\ MediaTypeOK
    /\ \A i \in Task : \A u \in Url : work[i][u].pc = "ok" => final[u] # "none"
    /\ count.crashes = 0 => \A u \in Url : Whole(u)

Sessions ==
    /\ DOMAIN sess = Task
    /\ \A i \in Task : /\ Good(sess[i], bank, final, disk, imported)
                       /\ Quiet(sess[i], work[i])
                       /\ i \in Script => sess[i].ok = TRUE

IInv == Tables /\ Pictures /\ Sessions

(***************************************************************************)
(* Rows, items and questions.                                              *)
(***************************************************************************)
LEMMA RowDiffers == ASSUME NEW r, "path" \in DOMAIN r PROVE r # NoRow
BY DEF NoRow

(* The rows upsert writes, for whatever question. *)
LEMMA NewRow ==
    ASSUME NEW q
    PROVE  RowOf(q) # NoRow /\ RowOf(q).path = NoUrl
<1>1. "path" \in DOMAIN RowOf(q) /\ RowOf(q).path = NoUrl
  BY DEF RowOf
<1> QED
  BY <1>1, RowDiffers

LEMMA AppliedRow ==
    ASSUME NEW row, NEW a
    PROVE  /\ Apply(row, a) # NoRow
           /\ Apply(row, a).path = IF "path" \in a.cols THEN a.row.path ELSE row.path
<1>1. "path" \in DOMAIN Apply(row, a)
  BY DEF Apply, Column
<1>2. Apply(row, a).path = IF "path" \in a.cols THEN a.row.path ELSE row.path
  BY DEF Apply, Column
<1> QED
  BY <1>1, <1>2, RowDiffers

(* parse_record keeps the id, or takes the fallback, and keeps the picture. *)
LEMMA Parsed ==
    ASSUME NEW r, NEW fallback, ParseRecord(r, fallback) # Invalid
    PROVE  /\ ParseRecord(r, fallback).id = IF r.id # NoValue THEN r.id ELSE fallback
           /\ ParseRecord(r, fallback).id # NoValue
           /\ ParseRecord(r, fallback).image = r.image
BY DEF ParseRecord

LEMMA WebParsed ==
    ASSUME NEW entry, WebRecord(entry) # NoValue
    PROVE  WebRecord(entry).id = entry.id /\ WebRecord(entry).image = entry.image
BY DEF WebRecord

LEMMA FileYields ==
    ASSUME NEW rd, rd.kind = "file"
    PROVE  Yielded(rd) = ParseRecord(Head(rd.queue), rd.row + 1)
BY DEF Yielded

LEMMA SiteYields ==
    ASSUME NEW rd, rd.kind # "file", Yielded(rd) # Invalid
    PROVE  /\ WebRecord(Head(rd.queue)) # NoValue
           /\ Yielded(rd) = ParseRecord(WebRecord(Head(rd.queue)), NoValue)
BY DEF Yielded

(* The key of a row, and the picture's address, are those of the tables. *)
LEMMA YieldedKey ==
    ASSUME NEW rd, rd.queue \in Seq(Item), rd.queue # <<>>, Yielded(rd) # Invalid,
           rd.kind = "file" => rd.row + 1 \in Id
    PROVE  Yielded(rd).id \in Id /\ Yielded(rd).image \in Url \cup {NoUrl}
<1> DEFINE e == Head(rd.queue)
<1>1. e.id \in Id \cup {NoValue} /\ e.image \in Url \cup {NoUrl}
  BY HeadTailProperties, SupplyAssumption
<1>2. CASE rd.kind = "file"
  BY <1>1, <1>2, FileYields, Parsed
<1>3. CASE rd.kind # "file"
  <2>1. Yielded(rd) = ParseRecord(WebRecord(e), NoValue) /\ WebRecord(e) # NoValue
    BY <1>3, SiteYields
  <2> QED
    BY <1>1, <2>1, Parsed, WebParsed
<1> QED
  BY <1>2, <1>3

LEMMA GivenKey ==
    ASSUME NEW c \in FileContent, NEW m \in DOMAIN c.rows, NEW name \in Name, Gives(c, m)
    PROVE  KeyOf(name, c, m) \in Key
<1>1. c.rows[m] \in Item /\ m \in Id
  BY SupplyAssumption DEF Supply, Item
<1>2. c.rows[m].id \in Id \cup {NoValue}
  BY <1>1, SupplyAssumption
<1>3. ParseRecord(c.rows[m], m).id \in Id
  BY <1>1, <1>2, Parsed DEF Gives
<1> QED
  BY <1>3 DEF KeyOf, Key

LEMMA RowsAreItems ==
    ASSUME NEW c \in FileContent
    PROVE  c.rows \in Seq(Item) /\ DOMAIN c.rows = 1..Len(c.rows) /\ Len(c.rows) \in Nat
<1>1. c.rows \in Seq(Item)
  BY SupplyAssumption DEF Supply
<1> QED
  BY <1>1, LenProperties

(***************************************************************************)
(* What a session relies on stays true while tables grow.                  *)
(***************************************************************************)
LEMMA GoodKept ==
    ASSUME NEW s, NEW t, NEW b, NEW c, NEW f, NEW g, NEW d, NEW e, NEW im, NEW jm,
           Good(s, b, f, d, im), t = s \/ \E x : t = [s EXCEPT !.raced = x],
           \A k \in Key : b[k] # NoRow => c[k] # NoRow,
           \A u \in Url : f[u] # "none" => g[u] # "none",
           \A n \in Name : d[n] \in FileContent => e[n] \in FileContent,
           im \subseteq jm
    PROVE  Good(t, c, g, e, jm)
<1>1. /\ DOMAIN t = DOMAIN s
      /\ \A x \in SessionFields \ {"raced"} : t[x] = s[x]
  BY DEF Good, Shape, SessionFields
<1>2. /\ t.pc = s.pc /\ t.ok = s.ok /\ t.created = s.created /\ t.rd = s.rd /\ t.src = s.src
      /\ t.urls = s.urls /\ t.put = s.put /\ t.old = s.old /\ t.ask = s.ask
      /\ t.listed = s.listed /\ t.todo = s.todo /\ t.file = s.file /\ t.held = s.held /\ t.again = s.again
  BY <1>1 DEF SessionFields
<1>3. Shape(t) /\ AskShape(t) /\ ReadToEnd(t)
  BY <1>1, <1>2 DEF Good, Shape, AskShape, ReadToEnd
<1>4. \A k \in Key : SeenBy(s, b, k) # NoRow => SeenBy(t, c, k) # NoRow
  BY <1>2 DEF SeenBy
<1>5. \A path : OnDisk(f, path) => OnDisk(g, path)
  BY DEF OnDisk
<1>6. Backed(t, c, g)
  <2>1. \A k \in DOMAIN t.old : SeenBy(t, c, k) # NoRow
    BY <1>2, <1>4 DEF Good, Backed, Shape
  <2>2. \A k \in DOMAIN t.put : OnDisk(g, t.put[k].path)
    BY <1>2, <1>5 DEF Good, Backed
  <2>3. \A x \in t.todo : /\ x[1] \in Key /\ SeenBy(t, c, x[1]) # NoRow
                          /\ x[2] \in Url /\ g[x[2]] # "none"
    BY <1>2, <1>4 DEF Good, Backed
  <2>4. t.pc = "ask" /\ t.ask.op = "update" =>
          /\ SeenBy(t, c, t.ask.key) # NoRow
          /\ "path" \in t.ask.cols => OnDisk(g, t.ask.row.path)
    BY <1>2, <1>4, <1>5 DEF Good, Backed, AskShape
  <2> QED
    BY <2>1, <2>2, <2>3, <2>4 DEF Backed
<1>7. Filed(t, c, e, jm)
  <2> SUFFICES ASSUME s.pc # "idle", s.rd.kind = "file"
               PROVE  Filed(t, c, e, jm)
    BY <1>2 DEF Filed
  <2>1. Filed(s, b, d, im) /\ Shape(s)
    BY DEF Good
  <2>2. ASSUME NEW m \in 1..s.rd.row, Gives(s.held, m)
        PROVE  KeyOf(s.src, s.held, m) \in Key
    <3>1. s.rd.n = 1
      BY <2>1 DEF Filed, Shape
    <3>2. s.held \in FileContent /\ s.src \in Name /\ m \in DOMAIN s.held.rows
      BY <2>1, <3>1, RowsAreItems, LenProperties DEF Filed, Shape
    <3> QED
      BY <2>2, <3>2, GivenKey
  <2>3. s.src = s.listed =>
           \A m \in 1..s.rd.row : Gives(s.held, m) =>
              LET k == KeyOf(s.src, s.held, m)
              IN SeenBy(t, c, k) # NoRow \/ Inserting(t, k)
    BY <1>2, <1>4, <2>1, <2>2 DEF Filed, Inserting
  <2> QED
    BY <1>2, <2>1, <2>3 DEF Filed
<1> QED
  BY <1>3, <1>6, <1>7 DEF Good

(* A step of one session that touches neither tables nor workers. *)
LEMMA SessionStep ==
    ASSUME IInv, NEW i \in Task,
           DOMAIN sess' = Task, \A j \in Task \ {i} : sess'[j] = sess[j],
           UNCHANGED <<bank, marks, disk, imported, count, mediaVars>>,
           Good(sess'[i], bank, final, disk, imported), Quiet(sess'[i], work[i]),
           i \in Script => sess'[i].ok = TRUE
    PROVE  IInv'
<1>1. Tables'
  BY DEF IInv, Tables, mediaVars
<1>2. Pictures'
  BY DEF IInv, Pictures, mediaVars, MediaTypeOK, Whole, Writers
<1>3. Sessions'
  BY DEF IInv, Sessions, mediaVars
<1> QED
  BY <1>1, <1>2, <1>3 DEF IInv

(***************************************************************************)
(* The empty session, and how imports begin.                               *)
(***************************************************************************)
LEMMA IdleShape ==
    /\ Shape(IdleTask) /\ AskShape(IdleTask) /\ ReadToEnd(IdleTask)
    /\ IdleTask.pc = "idle" /\ IdleTask.ok = TRUE /\ IdleTask.urls = {} /\ IdleTask.todo = {}
    /\ DOMAIN IdleTask.put = {} /\ DOMAIN IdleTask.old = {} /\ IdleTask.created = 0
    /\ IdleTask.again = FALSE
<1>1. /\ DOMAIN IdleTask = SessionFields /\ IdleTask.rd = OpenReader("file")
      /\ IdleTask.pc = "idle" /\ IdleTask.ok = TRUE /\ IdleTask.urls = {} /\ IdleTask.todo = {}
      /\ IdleTask.put = NoRows /\ IdleTask.old = NoRows /\ IdleTask.created = 0
      /\ IdleTask.again = FALSE
  BY DEF IdleTask, SessionFields
<1>2. DOMAIN NoRows = {}
  BY DEF NoRows
<1>3. \A kind \in Kind : /\ DOMAIN OpenReader(kind) = ReaderFields
                         /\ OpenReader(kind).kind = kind /\ OpenReader(kind).n = 0
                         /\ OpenReader(kind).row = 0 /\ OpenReader(kind).queue \in Seq(Item)
  BY DEF OpenReader, ReaderFields
<1>4. "file" \in Kind /\ "idle" \in Pcs
  BY DEF Kind, Pcs
<1>5. AskShape(IdleTask) /\ ReadToEnd(IdleTask)
  BY <1>1 DEF AskShape, ReadToEnd
<1>6. Shape(IdleTask)
  <2>1. /\ DOMAIN IdleTask.rd = ReaderFields /\ IdleTask.rd.kind \in Kind
        /\ IdleTask.rd.n \in Nat /\ IdleTask.rd.row \in Nat
        /\ IdleTask.rd.queue \in Seq(Item)
    BY <1>1, <1>3, <1>4
  <2>2. /\ IdleTask.pc \in Pcs /\ IdleTask.created \in Nat
        /\ IdleTask.urls \subseteq Url
    BY <1>1, <1>4
  <2>3. /\ DOMAIN IdleTask.put = {} /\ DOMAIN IdleTask.old = {}
    BY <1>1, <1>2
  <2> QED
    BY <1>1, <2>1, <2>2, <2>3 DEF Shape
<1> QED
  BY <1>1, <1>2, <1>5, <1>6

LEMMA IdleGood ==
    ASSUME NEW b, NEW f, NEW d, NEW im
    PROVE  Good(IdleTask, b, f, d, im)
BY IdleShape DEF Good, Backed, Filed

LEMMA InitIInv == ASSUME Init PROVE IInv
<1> USE DEF Init, MediaInit
<1>2. Tables
  <2>1. disk \in [Name -> FileContent \cup {NoFile}]
    OBVIOUS
  <2>2. count \in Counters /\ marks \in Nat
    BY DEF Counters
  <2> QED
    BY <2>1, <2>2 DEF Tables, Known
<1>3. Pictures
  <2>1. Unused \in Worker /\ Unused.pc = "idle"
    BY MediaAssumption DEF Unused, Worker
  <2> QED
    BY <2>1 DEF Pictures, MediaTypeOK, FileState, Whole
<1>4. Sessions
  <2>1. Unused.pc = "idle"
    BY DEF Unused
  <2>2. \A i \in Task : sess[i] = IdleTask /\ \A u \in Url : work[i][u].pc = "idle"
    BY <2>1
  <2>3. \A i \in Task : Quiet(sess[i], work[i])
    BY <2>2, IdleShape DEF Quiet
  <2>4. \A i \in Task : Good(sess[i], bank, final, disk, imported)
    BY <2>2, IdleGood
  <2> QED
    BY <2>2, <2>3, <2>4, IdleShape DEF Sessions
<1> QED
  BY <1>2, <1>3, <1>4 DEF IInv

(* A session that has just begun over a source. *)
LEMMA BegunGood ==
    ASSUME IInv, NEW i \in Task, NEW name \in Name, NEW file, NEW kind \in Kind,
           NEW d \in [Name -> FileContent \cup {NoFile}],
           kind = "file" => file \in Name /\ d[file] \in FileContent,
           Begin(i, name, file, kind)
    PROVE  /\ DOMAIN sess' = Task /\ \A j \in Task \ {i} : sess'[j] = sess[j]
           /\ Good(sess'[i], bank, final, d, imported) /\ Quiet(sess'[i], work[i])
           /\ sess'[i].ok = TRUE
<1> DEFINE s == sess'[i]
           old == [k \in {x \in Key : x[1] = name /\ bank[x] # NoRow} |-> bank[k]]
<1>1. /\ DOMAIN sess' = Task /\ \A j \in Task \ {i} : sess'[j] = sess[j]
      /\ s = [IdleTask EXCEPT !.pc = "read", !.src = name, !.listed = name,
                              !.file = file, !.rd = OpenReader(kind), !.old = old]
  BY DEF Begin, Proceed, IInv, Sessions
<1>2. /\ DOMAIN s = SessionFields /\ s.pc = "read" /\ s.src = name /\ s.listed = name
      /\ s.file = file
      /\ s.rd = OpenReader(kind) /\ s.old = old
      /\ s.ok = IdleTask.ok /\ s.urls = IdleTask.urls /\ s.todo = IdleTask.todo
      /\ s.put = IdleTask.put /\ s.created = IdleTask.created /\ s.again = IdleTask.again
  BY <1>1, IdleShape DEF Shape, SessionFields
<1>3. /\ DOMAIN OpenReader(kind) = ReaderFields /\ OpenReader(kind).over = FALSE
      /\ OpenReader(kind).kind = kind /\ OpenReader(kind).n = 0
      /\ OpenReader(kind).row = 0 /\ OpenReader(kind).queue = <<>>
      /\ OpenReader(kind).queue \in Seq(Item)
  BY DEF OpenReader, ReaderFields
<1>4. Shape(s)
  BY <1>2, <1>3, IdleShape DEF Shape, Pcs
<1>5. AskShape(s) /\ ReadToEnd(s)
  BY <1>2 DEF AskShape, ReadToEnd
<1>6. Backed(s, bank, final)
  <2>1. \A k \in DOMAIN old : bank[k] # NoRow
    OBVIOUS
  <2> QED
    BY <1>2, <2>1, IdleShape DEF Backed, SeenBy
<1>7. Filed(s, bank, d, imported)
  BY <1>2, <1>3, IdleShape DEF Filed
<1>8. Quiet(s, work[i])
  <2>1. sess[i] = IdleTask
    BY DEF Begin, Running, IInv, Sessions, Quiet
  <2>2. \A u \in Url : work[i][u].pc = "idle"
    BY <2>1, IdleShape DEF IInv, Sessions, Quiet
  <2> QED
    BY <1>2, <2>2 DEF Quiet
<1> QED
  BY <1>1, <1>2, <1>4, <1>5, <1>6, <1>7, <1>8, IdleShape DEF Good

(* An import begins; disk may have grown by the file it reads. *)
LEMMA BeginStep ==
    ASSUME IInv, NEW i \in Task, NEW name \in Name, NEW file, NEW kind \in Kind,
           disk' \in [Name -> FileContent \cup {NoFile}],
           \A n \in Name : disk[n] \in FileContent => disk'[n] \in FileContent,
           kind = "file" => file \in Name /\ disk'[file] \in FileContent,
           Begin(i, name, file, kind),
           count' \in Counters, count'.crashes = count.crashes,
           UNCHANGED <<bank, marks, imported, mediaVars>>
    PROVE  IInv'
<1>1. /\ DOMAIN sess' = Task /\ \A j \in Task \ {i} : sess'[j] = sess[j]
      /\ Good(sess'[i], bank, final, disk', imported) /\ Quiet(sess'[i], work[i])
      /\ sess'[i].ok = TRUE
  BY BegunGood
<1>2. \A j \in Task \ {i} : Good(sess'[j], bank, final, disk', imported)
  <2> TAKE j \in Task \ {i}
  <2>1. Good(sess[j], bank, final, disk, imported)
    BY DEF IInv, Sessions
  <2> QED
    BY <1>1, <2>1, GoodKept
<1>3. Sessions'
  BY <1>1, <1>2 DEF IInv, Sessions, mediaVars
<1>4. Tables'
  BY DEF IInv, Tables, mediaVars
<1>5. Pictures'
  BY DEF IInv, Pictures, mediaVars, MediaTypeOK, Whole, Writers
<1> QED
  BY <1>3, <1>4, <1>5 DEF IInv

(***************************************************************************)
(* Reading.                                                                *)
(***************************************************************************)
LEMMA PageTurned ==
    ASSUME NEW rd, DOMAIN rd = ReaderFields, rd.n \in Nat, NEW page
    PROVE  /\ DOMAIN TurnPage(rd, page) = ReaderFields
           /\ TurnPage(rd, page).kind = rd.kind /\ TurnPage(rd, page).over = rd.over
           /\ TurnPage(rd, page).n = rd.n + 1
           /\ TurnPage(rd, page).queue = page /\ TurnPage(rd, page).row = 0
BY DEF TurnPage, ReaderFields

LEMMA EntryTaken ==
    ASSUME NEW rd, DOMAIN rd = ReaderFields
    PROVE  /\ DOMAIN TakeEntry(rd) = ReaderFields
           /\ TakeEntry(rd).kind = rd.kind /\ TakeEntry(rd).over = rd.over
           /\ TakeEntry(rd).n = rd.n
           /\ TakeEntry(rd).queue = Tail(rd.queue) /\ TakeEntry(rd).row = rd.row + 1
BY DEF TakeEntry, ReaderFields

LEMMA EntryTyped ==
    ASSUME NEW rd, DOMAIN rd = ReaderFields, rd.kind \in Kind, rd.n \in Nat, rd.row \in Nat,
           rd.queue \in Seq(Item), rd.queue # <<>>
    PROVE  LET next == TakeEntry(rd)
           IN /\ DOMAIN next = ReaderFields /\ next.kind \in Kind /\ next.n \in Nat
              /\ next.kind = rd.kind
              /\ next.row \in Nat /\ next.queue \in Seq(Item)
<1> DEFINE next == TakeEntry(rd)
<1>1. Tail(rd.queue) \in Seq(Item)
  BY HeadTailProperties
<1>2. /\ DOMAIN next = ReaderFields /\ next.kind = rd.kind /\ next.n = rd.n
      /\ next.queue = Tail(rd.queue) /\ next.row = rd.row + 1
  BY EntryTaken
<1>3. rd.row + 1 \in Nat
  OBVIOUS
<1> HIDE DEF next
<1>4. /\ DOMAIN next = ReaderFields /\ next.kind \in Kind /\ next.n \in Nat
      /\ next.kind = rd.kind
      /\ next.row \in Nat /\ next.queue \in Seq(Item)
  BY <1>1, <1>2, <1>3
<1> QED
  BY <1>4 DEF next

(* A session that goes on reading: its reader and what goes with it moved, and
   its source may have another name. *)
LEMMA ReadingKept ==
    ASSUME IInv, NEW i \in Task, sess[i].pc = "read", NEW s, DOMAIN s = SessionFields,
           \A x \in SessionFields \ {"rd", "src", "held", "again", "skipped"} :
              s[x] = sess[i][x],
           s.src \in Name, DOMAIN s.rd = ReaderFields, s.rd.kind \in Kind, s.rd.n \in Nat, s.rd.row \in Nat,
           s.rd.queue \in Seq(Item), s.rd.kind # "file" => s.again = FALSE,
           Filed(s, bank, disk, imported)
    PROVE  /\ Good(s, bank, final, disk, imported) /\ Quiet(s, work[i])
           /\ i \in Script => s.ok = TRUE
<1>1. /\ s.pc = "read" /\ s.ok = sess[i].ok /\ s.created = sess[i].created
      /\ s.listed = sess[i].listed /\ s.urls = sess[i].urls /\ s.put = sess[i].put
      /\ s.old = sess[i].old /\ s.todo = sess[i].todo
  BY DEF SessionFields
<1>2. /\ Good(sess[i], bank, final, disk, imported) /\ Quiet(sess[i], work[i])
      /\ i \in Script => sess[i].ok = TRUE
  BY DEF IInv, Sessions
<1>3. Shape(s)
  BY <1>1, <1>2 DEF Good, Shape
<1>4. AskShape(s) /\ ReadToEnd(s)
  BY <1>1 DEF AskShape, ReadToEnd
<1>5. Backed(s, bank, final)
  BY <1>1, <1>2 DEF Good, Backed, SeenBy
<1>6. Quiet(s, work[i])
  BY <1>1, <1>2 DEF Quiet
<1> QED
  BY <1>1, <1>2, <1>3, <1>4, <1>5, <1>6 DEF Good

(* What a read leaves a source called is a source name. *)
LEMMA NamedSource ==
    ASSUME NEW name \in Name, NEW c \in FileContent
    PROVE  SourceName(name, c) \in Name
<1>1. c.declared \in Base \cup {NoValue}
  BY SupplyAssumption
<1> QED
  BY <1>1 DEF SourceName, Name

LEMMA ReadPageStep == ASSUME IInv, NEW i \in Task, ReadPage(i) PROVE IInv'
<1> DEFINE rd == sess[i].rd
<1>1. /\ Good(sess[i], bank, final, disk, imported)
      /\ DOMAIN sess = Task /\ sess[i].pc = "read" /\ WantsPage(rd)
  BY DEF IInv, Sessions, ReadPage, Reading
<1>2. PICK page \in Pages(i) :
        LET next == [sess[i] EXCEPT !.rd = TurnPage(@, page)]
            file == disk[next.file]
            name == SourceName(next.src, file)
        IN Proceed(i, IF next.rd.kind = "file"
                      THEN [next EXCEPT !.held = file, !.src = name,
                                        !.again = <<name, file>> \in imported]
                      ELSE next)
  BY DEF ReadPage
<1> DEFINE s == sess'[i]
<1>3. /\ DOMAIN rd = ReaderFields /\ rd.n \in Nat /\ rd.kind \in Kind
      /\ DOMAIN sess[i] = SessionFields
  BY <1>1 DEF Good, Shape
<1>4. /\ TurnPage(rd, page).kind = rd.kind /\ TurnPage(rd, page).over = rd.over
      /\ TurnPage(rd, page).n = rd.n + 1 /\ DOMAIN TurnPage(rd, page) = ReaderFields
      /\ TurnPage(rd, page).queue = page /\ TurnPage(rd, page).row = 0
  BY <1>3, PageTurned
<1>5. /\ DOMAIN sess' = Task /\ \A j \in Task \ {i} : sess'[j] = sess[j]
      /\ DOMAIN s = SessionFields /\ s.rd = TurnPage(rd, page)
      /\ \A x \in SessionFields \ {"rd", "src", "held", "again", "skipped"} :
            s[x] = sess[i][x]
      /\ rd.kind # "file" => s.again = sess[i].again /\ s.src = sess[i].src
      /\ rd.kind = "file" => /\ s.held = disk[sess[i].file]
                             /\ s.src = SourceName(sess[i].src, disk[sess[i].file])
                             /\ s.again = (<<s.src, s.held>> \in imported)
  BY <1>1, <1>2, <1>3, <1>4 DEF Proceed, SessionFields
<1>6. s.file = sess[i].file /\ s.created = sess[i].created /\ s.put = sess[i].put
  BY <1>5 DEF SessionFields
<1>7. /\ rd.kind = "file" => page = disk[sess[i].file].rows
      /\ page \in Seq(Item)
  <2>1. CASE rd.kind = "file"
    <3>1. disk[sess[i].file] \in FileContent
      BY <1>1, <2>1 DEF Good, Filed
    <3>2. page = disk[sess[i].file].rows
      BY <1>2, <2>1 DEF Pages
    <3> QED
      BY <3>1, <3>2, RowsAreItems
  <2>2. CASE rd.kind # "file"
    <3>1. page \in Page \cup Ticket
      BY <1>2, <1>3, <2>2 DEF Pages, Kind
    <3> QED
      BY <2>2, <3>1, SupplyAssumption DEF Supply
  <2> QED
    BY <2>1, <2>2
<1>8. Filed(s, bank, disk, imported)
  <2> SUFFICES ASSUME rd.kind = "file" PROVE Filed(s, bank, disk, imported)
    BY <1>4, <1>5 DEF Filed
  <2>1. /\ sess[i].file \in Name /\ disk[sess[i].file] \in FileContent
        /\ rd.n = 0 /\ rd.over = FALSE /\ sess[i].created = 0
    BY <1>1, <1>3 DEF Good, Filed, WantsPage
  <2>3. Len(s.held.rows) \in Nat
    BY <1>5, <2>1, RowsAreItems
  <2>4. /\ s.rd.n = 1 /\ s.rd.over = FALSE /\ s.rd.row = 0 /\ s.rd.queue = s.held.rows
        /\ s.held \in FileContent /\ 1..s.rd.row = {}
    BY <1>4, <1>5, <1>7, <2>1
  <2>5. s.again => <<s.src, s.held>> \in imported /\ s.created = 0
    BY <1>5, <1>6, <2>1, Zenon
  <2> QED
    BY <1>6, <2>1, <2>3, <2>4, <2>5 DEF Filed
<1>9. /\ Good(s, bank, final, disk, imported) /\ Quiet(s, work[i])
      /\ i \in Script => s.ok = TRUE
  <2>1. /\ DOMAIN s.rd = ReaderFields /\ s.rd.kind \in Kind /\ s.rd.n \in Nat
        /\ s.rd.row \in Nat /\ s.rd.queue \in Seq(Item)
    BY <1>3, <1>4, <1>5, <1>7
  <2>2. s.rd.kind # "file" => s.again = FALSE
    BY <1>1, <1>4, <1>5 DEF Good, Shape
  <2>3. s.src \in Name
    <3>1. sess[i].src \in Name
      BY <1>1 DEF Good, Shape
    <3>2. rd.kind = "file" => disk[sess[i].file] \in FileContent
      BY <1>1 DEF Good, Filed
    <3> QED
      BY <1>5, <3>1, <3>2, NamedSource
  <2> HIDE DEF s
  <2> QED
    BY <1>1, <1>5, <1>8, <2>1, <2>2, <2>3, ReadingKept
<1> QED
  BY <1>5, <1>9, SessionStep DEF ReadPage

(***************************************************************************)
(* How imports fail.                                                       *)
(***************************************************************************)
(* Workers that are not writing may come and go. *)
LEMMA WholeKept ==
    ASSUME NEW u \in Url, Whole(u), part'[u] = part[u], final'[u] = final[u],
           \A j \in Task : work'[j][u] = work[j][u]
                             \/ (work[j][u].pc # "write" /\ work'[j][u].pc # "write")
    PROVE  Whole(u)'
<1>1. Writers(u, "part") \subseteq Writers(u, "part")'
  BY DEF Writers
<1>2. Writers(u, "final") \subseteq Writers(u, "final")'
  BY DEF Writers
<1> QED
  BY <1>1, <1>2 DEF Whole

LEMMA StoppedWorkers ==
    ASSUME Pictures, NEW tasks \in SUBSET Task, StopWorkers(tasks)
    PROVE  /\ part' = part /\ final' = final /\ MediaTypeOK'
           /\ \A j \in Task : \A u \in Url :
                 work'[j][u] = IF j \in tasks THEN Unused ELSE work[j][u]
           /\ Unused.pc = "idle"
<1>1. Unused \in Worker /\ Unused.pc = "idle"
  BY MediaAssumption DEF Unused, Worker
<1> QED
  BY <1>1 DEF Pictures, MediaTypeOK, StopWorkers

LEMMA AbortStep ==
    ASSUME IInv, NEW i \in Task, sess[i].pc # "media", Abort(i)
    PROVE  IInv'
<1>1. /\ DOMAIN sess' = Task /\ sess'[i] = IdleTask /\ \A j \in Task \ {i} : sess'[j] = sess[j]
      /\ UNCHANGED <<bank, marks, disk, imported, count>>
  BY DEF Abort, Proceed, IInv, Sessions
<1>2. /\ part' = part /\ final' = final /\ MediaTypeOK'
      /\ \A j \in Task : \A u \in Url :
            work'[j][u] = IF j = i THEN Unused ELSE work[j][u]
      /\ Unused.pc = "idle"
  BY StoppedWorkers DEF Abort, IInv
<1>3. \A u \in Url : work[i][u].pc # "write"
  BY DEF IInv, Sessions, Quiet
<1>4. Tables'
  BY <1>1, <1>2 DEF IInv, Tables
<1>5. Pictures'
  <2>1. \A j \in Task : \A u \in Url : work'[j][u].pc = "ok" => final'[u] # "none"
    BY <1>2 DEF IInv, Pictures
  <2>2. ASSUME count.crashes = 0, NEW u \in Url PROVE Whole(u)'
    <3>1. Whole(u)
      BY <2>2 DEF IInv, Pictures
    <3>2. \A j \in Task : work'[j][u] = work[j][u]
                            \/ (work[j][u].pc # "write" /\ work'[j][u].pc # "write")
      BY <1>2, <1>3
    <3> QED
      BY <1>2, <3>1, <3>2, WholeKept
  <2> QED
    BY <1>1, <1>2, <2>1, <2>2 DEF Pictures
<1>6. Sessions'
  <2>1. ASSUME NEW j \in Task
        PROVE  /\ Good(sess'[j], bank', final', disk', imported') /\ Quiet(sess'[j], work'[j])
               /\ j \in Script => sess'[j].ok = TRUE
    <3>1. CASE j = i
      BY <1>1, <1>2, <3>1, IdleGood, IdleShape DEF Quiet
    <3>2. CASE j # i
      <4>1. sess'[j] = sess[j] /\ \A u \in Url : work'[j][u] = work[j][u]
        BY <1>1, <1>2, <3>2
      <4>2. Quiet(sess'[j], work'[j])
        BY <4>1 DEF IInv, Sessions, Quiet
      <4> QED
        BY <1>1, <1>2, <4>1, <4>2 DEF IInv, Sessions
    <3> QED
      BY <3>1, <3>2
  <2> QED
    BY <1>1, <2>1 DEF Sessions
<1> QED
  BY <1>4, <1>5, <1>6 DEF IInv

(* The panel keeps what it has and goes on to its commit. *)
LEMMA PanelKeepsStep ==
    ASSUME IInv, NEW i \in Task, sess[i].pc = "read", PanelKeeps(i)
    PROVE  IInv'
<1> DEFINE s == sess'[i]
<1>1. /\ Good(sess[i], bank, final, disk, imported) /\ Quiet(sess[i], work[i])
      /\ DOMAIN sess = Task
  BY DEF IInv, Sessions
<1>2. DOMAIN sess[i] = SessionFields
  BY <1>1 DEF Good, Shape
<1>3. /\ DOMAIN sess' = Task /\ \A j \in Task \ {i} : sess'[j] = sess[j]
      /\ DOMAIN s = SessionFields /\ s.pc = "commit" /\ s.ok = FALSE
      /\ \A x \in SessionFields \ {"pc", "ok"} : s[x] = sess[i][x]
  BY <1>1, <1>2 DEF PanelKeeps, Proceed, SessionFields
<1>4. /\ s.rd = sess[i].rd /\ s.src = sess[i].src /\ s.file = sess[i].file
      /\ s.listed = sess[i].listed
      /\ s.created = sess[i].created /\ s.put = sess[i].put /\ s.old = sess[i].old
      /\ s.todo = sess[i].todo /\ s.urls = sess[i].urls /\ s.held = sess[i].held
      /\ s.again = sess[i].again
  BY <1>3 DEF SessionFields
<1> HIDE DEF s
<1>5. Shape(s)
  BY <1>1, <1>3, <1>4 DEF Good, Shape, Pcs
<1>6. AskShape(s) /\ ReadToEnd(s)
  BY <1>3 DEF AskShape, ReadToEnd
<1>7. Backed(s, bank, final)
  BY <1>1, <1>3, <1>4 DEF Good, Backed, SeenBy
<1>8. Filed(s, bank, disk, imported)
  BY <1>1, <1>3, <1>4 DEF Good, Filed, SeenBy, Inserting
<1>9. Quiet(s, work[i])
  BY <1>1, <1>3, <1>4 DEF Quiet
<1>10. Good(s, bank, final, disk, imported) /\ i \notin Script
  BY <1>5, <1>6, <1>7, <1>8 DEF Good, PanelKeeps, Panel
<1> QED
  BY <1>3, <1>9, <1>10, SessionStep DEF PanelKeeps, s

LEMMA SourceFailsStep ==
    ASSUME IInv, NEW i \in Task, sess[i].pc = "read", SourceFails(i)
    PROVE  IInv'
BY AbortStep, PanelKeepsStep DEF SourceFails, ScriptDrops

(* A website that failed half-way: the reader stops, or goes on. *)
LEMMA TolerateStep ==
    ASSUME IInv, NEW i \in Task, sess[i].pc = "read", sess[i].rd.kind # "file",
           Proceed(i, [sess[i] EXCEPT !.rd = Tolerate(@)]),
           UNCHANGED <<bank, marks, disk, imported, count, mediaVars>>
    PROVE  IInv'
<1> DEFINE s == sess'[i]
           rd == sess[i].rd
<1>1. Good(sess[i], bank, final, disk, imported) /\ DOMAIN sess = Task
  BY DEF IInv, Sessions
<1>2. /\ DOMAIN sess[i] = SessionFields /\ DOMAIN rd = ReaderFields
      /\ rd.kind \in Kind /\ rd.n \in Nat /\ rd.row \in Nat /\ rd.queue \in Seq(Item)
  BY <1>1 DEF Good, Shape
<1>3. /\ DOMAIN sess' = Task /\ \A j \in Task \ {i} : sess'[j] = sess[j]
      /\ DOMAIN s = SessionFields /\ s.rd = Tolerate(rd)
      /\ \A x \in SessionFields \ {"rd"} : s[x] = sess[i][x]
  BY <1>1, <1>2 DEF Proceed, SessionFields
<1>4. /\ DOMAIN s.rd = ReaderFields /\ s.rd.kind = rd.kind /\ s.rd.n \in Nat
      /\ s.rd.row \in Nat /\ s.rd.queue \in Seq(Item)
  <2>1. CASE rd.kind = "eam"
    <3>1. Tolerate(rd) = [rd EXCEPT !.over = TRUE]
      BY <2>1 DEF Tolerate
    <3> QED
      BY <1>2, <1>3, <3>1 DEF ReaderFields
  <2>2. CASE rd.kind # "eam"
    <3>1. Tolerate(rd) = TurnPage(rd, <<>>)
      BY <2>2 DEF Tolerate
    <3>2. <<>> \in Seq(Item)
      OBVIOUS
    <3>3. /\ DOMAIN s.rd = ReaderFields /\ s.rd.kind = rd.kind /\ s.rd.n = rd.n + 1
          /\ s.rd.row = 0 /\ s.rd.queue = <<>>
      BY <1>2, <1>3, <3>1, PageTurned
    <3> QED
      BY <1>2, <3>2, <3>3
  <2> QED
    BY <2>1, <2>2
<1>5. Filed(s, bank, disk, imported)
  BY <1>4 DEF Filed
<1>6. s.again = sess[i].again
  BY <1>3 DEF SessionFields
<1>7. s.rd.kind # "file" => s.again = FALSE
  BY <1>1, <1>4, <1>6 DEF Good, Shape
<1> HIDE DEF s
<1>8. /\ Good(s, bank, final, disk, imported) /\ Quiet(s, work[i])
      /\ i \in Script => s.ok = TRUE
  <2>1. s.src \in Name
    BY <1>1, <1>3 DEF Good, Shape, SessionFields
  <2> QED
    BY <1>2, <1>3, <1>4, <1>5, <1>7, <2>1, ReadingKept
<1> QED
  BY <1>3, <1>8, SessionStep DEF s

LEMMA ReadFailsStep == ASSUME IInv, NEW i \in Task, ReadFails(i) PROVE IInv'
<1>1. sess[i].pc = "read"
  BY DEF ReadFails, Reading
<1>2. ASSUME SourceFails(i) PROVE IInv'
  BY <1>1, <1>2, SourceFailsStep
<1>3. ASSUME sess[i].rd.kind = "file" PROVE SourceFails(i)
  BY <1>3 DEF ReadFails, Outcome
<1>4. CASE sess[i].rd.kind # "file"
  BY <1>1, <1>2, <1>4, TolerateStep DEF ReadFails
<1> QED
  BY <1>2, <1>3, <1>4

(***************************************************************************)
(* The rows of a source, one by one.                                       *)
(***************************************************************************)
(* What upsert does to a session s that has taken question q's row, t being
   the session after it and row the object it works on. *)
Told(t, s, q) ==
    /\ DOMAIN t = SessionFields
    /\ t.ok = s.ok /\ t.src = s.src /\ t.listed = s.listed /\ t.file = s.file
    /\ t.held = s.held /\ t.rd = s.rd
    /\ t.put = s.put /\ t.todo = s.todo /\ t.again = s.again
    /\ t.urls = s.urls \cup ({q.image} \ {NoUrl})
Created(t, s, k, row, q) ==
    /\ row = NoRow /\ t.pc = "ask" /\ t.ask = Insert(k, RowOf(q))
    /\ t.old = s.old /\ t.created = s.created + 1
Written(t, s, k, row, q) ==
    /\ row # NoRow /\ t.pc = "ask" /\ \E cols : t.ask = Update(k, RowOf(q), cols, "read")
    /\ t.old = With(s.old, k, row) /\ t.created = s.created
Left(t, s, k, row) ==
    /\ row # NoRow /\ t.pc = s.pc
    /\ t.old = With(s.old, k, row) /\ t.created = s.created

LEMMA Upserted ==
    ASSUME DOMAIN sess = Task, NEW i \in Task, NEW q, NEW s, DOMAIN s = SessionFields,
           Upsert(i, q, s)
    PROVE  LET k == RowKey(s, q)
               row == Existing(i, k)
               t == sess'[i]
           IN /\ DOMAIN sess' = Task /\ \A j \in Task \ {i} : sess'[j] = sess[j]
              /\ Told(t, s, q)
              /\ Created(t, s, k, row, q) \/ Written(t, s, k, row, q) \/ Left(t, s, k, row)
<1> DEFINE k == RowKey(s, q)
           row == Existing(i, k)
           t == sess'[i]
           given == [content |-> Content(q), url |-> q.image, given |-> Head(sess[i].rd.queue)]
           told == [s EXCEPT !.last = With(@, k, given), !.urls = @ \cup ({q.image} \ {NoUrl})]
           known == [told EXCEPT !.old = With(@, k, row)]
<1>1. /\ DOMAIN told = SessionFields /\ Told(told, s, q)
      /\ told.pc = s.pc /\ told.ask = s.ask /\ told.old = s.old /\ told.created = s.created
  BY DEF Told, SessionFields
<1>2. /\ DOMAIN known = SessionFields /\ Told(known, s, q)
      /\ known.pc = s.pc /\ known.ask = s.ask /\ known.old = With(s.old, k, row)
      /\ known.created = s.created
  BY <1>1 DEF Told, SessionFields
<1>3. \/ /\ row = NoRow
         /\ Proceed(i, [told EXCEPT !.created = @ + 1, !.pc = "ask",
                                    !.ask = Insert(k, RowOf(q))])
      \/ /\ row # NoRow
         /\ Proceed(i, [known EXCEPT !.updated = @ + 1, !.pc = "ask",
                                     !.ask = Update(k, RowOf(q), Changed(row, q), "read")])
      \/ /\ row # NoRow
         /\ Proceed(i, [known EXCEPT !.unchanged = @ + 1, !.pc = "ask",
                                     !.ask = Update(k, RowOf(q), {"url"}, "read")])
      \/ row # NoRow /\ Proceed(i, [known EXCEPT !.unchanged = @ + 1])
  BY DEF Upsert
<1>4. /\ DOMAIN sess' = Task /\ \A j \in Task \ {i} : sess'[j] = sess[j]
  BY <1>3 DEF Proceed
<1> HIDE DEF told, known, k, row
<1>5. CASE row = NoRow /\ Proceed(i, [told EXCEPT !.created = @ + 1, !.pc = "ask",
                                                  !.ask = Insert(k, RowOf(q))])
  <2>1. Told(t, s, q)
    BY <1>1, <1>5 DEF Told, Proceed, SessionFields
  <2>2. Created(t, s, k, row, q)
    BY <1>1, <1>5 DEF Created, Proceed, SessionFields
  <2> QED
    BY <1>4, <2>1, <2>2 DEF k, row
<1>6. CASE row # NoRow
           /\ Proceed(i, [known EXCEPT !.updated = @ + 1, !.pc = "ask",
                                       !.ask = Update(k, RowOf(q), Changed(row, q), "read")])
  <2>1. Told(t, s, q)
    BY <1>2, <1>6 DEF Told, Proceed, SessionFields
  <2>2. Written(t, s, k, row, q)
    BY <1>2, <1>6 DEF Written, Proceed, SessionFields
  <2> QED
    BY <1>4, <2>1, <2>2 DEF k, row
<1>7. CASE row # NoRow
           /\ Proceed(i, [known EXCEPT !.unchanged = @ + 1, !.pc = "ask",
                                       !.ask = Update(k, RowOf(q), {"url"}, "read")])
  <2>1. Told(t, s, q)
    BY <1>2, <1>7 DEF Told, Proceed, SessionFields
  <2>2. Written(t, s, k, row, q)
    BY <1>2, <1>7 DEF Written, Proceed, SessionFields
  <2> QED
    BY <1>4, <2>1, <2>2 DEF k, row
<1>8. CASE row # NoRow /\ Proceed(i, [known EXCEPT !.unchanged = @ + 1])
  <2>1. Told(t, s, q)
    BY <1>2, <1>8 DEF Told, Proceed, SessionFields
  <2>2. Left(t, s, k, row)
    BY <1>2, <1>8 DEF Left, Proceed, SessionFields
  <2> QED
    BY <1>4, <2>1, <2>2 DEF k, row
<1> QED
  BY <1>3, <1>5, <1>6, <1>7, <1>8

(* A file's reader stands at row sess[i].rd.row + 1 of what it holds. *)
LEMMA FileRow ==
    ASSUME IInv, NEW i \in Task, sess[i].pc = "read", sess[i].rd.kind = "file",
           sess[i].rd.queue # <<>>
    PROVE  LET s == sess[i]
               m == s.rd.row + 1
               q == Yielded(s.rd)
           IN /\ s.rd.n = 1 /\ s.held \in FileContent /\ m \in DOMAIN s.held.rows /\ m \in Id
              /\ q = ParseRecord(s.held.rows[m], m)
              /\ q # Invalid =>
                    /\ Gives(s.held, m)
                    /\ \/ RowKey(s, q) = KeyOf(s.src, s.held, m)
                       \/ s.src # s.listed /\ RowKey(s, q) \in DOMAIN s.old
              /\ m + Len(Tail(s.rd.queue)) = Len(s.held.rows)
              /\ \A x \in 1..Len(Tail(s.rd.queue)) :
                    Tail(s.rd.queue)[x] = s.held.rows[m + x]
<1> DEFINE s == sess[i]
           m == s.rd.row + 1
           queue == s.rd.queue
<1>1. Shape(s) /\ Filed(s, bank, disk, imported)
  BY DEF IInv, Sessions, Good
<1>2. /\ s.rd.n = 1 /\ s.held \in FileContent /\ s.rd.row \in Nat /\ queue \in Seq(Item)
      /\ s.rd.row + Len(queue) = Len(s.held.rows)
      /\ \A x \in 1..Len(queue) : queue[x] = s.held.rows[s.rd.row + x]
  BY <1>1 DEF Shape, Filed
<1>3. /\ Len(queue) \in Nat /\ Len(queue) > 0 /\ Head(queue) = queue[1]
      /\ Len(Tail(queue)) = Len(queue) - 1
      /\ \A x \in 1..Len(Tail(queue)) : Tail(queue)[x] = queue[x + 1]
  BY <1>2, HeadTailProperties, LenProperties
<1>4. m \in DOMAIN s.held.rows /\ m \in Id /\ Head(queue) = s.held.rows[m]
  BY <1>2, <1>3, RowsAreItems, SupplyAssumption
<1>5. Yielded(s.rd) = ParseRecord(s.held.rows[m], m)
  BY <1>4, FileYields
<1>6. ASSUME NEW x \in 1..Len(Tail(queue)) PROVE Tail(queue)[x] = s.held.rows[m + x]
  <2>1. x + 1 \in 1..Len(queue) /\ s.rd.row + (x + 1) = m + x
    BY <1>2, <1>3
  <2>2. Tail(queue)[x] = queue[x + 1]
    BY <1>3
  <2> QED
    BY <1>2, <2>1, <2>2
<1>7. m + Len(Tail(queue)) = Len(s.held.rows)
  BY <1>2, <1>3
<1>8. Yielded(s.rd) # Invalid =>
         /\ Gives(s.held, m)
         /\ \/ RowKey(s, Yielded(s.rd)) = KeyOf(s.src, s.held, m)
            \/ s.src # s.listed /\ RowKey(s, Yielded(s.rd)) \in DOMAIN s.old
  BY <1>5 DEF Gives, KeyOf, RowKey
<1> QED
  BY <1>2, <1>4, <1>5, <1>6, <1>7, <1>8

(* What the next entry of a session yields has a key and a picture's address. *)
LEMMA NextKey ==
    ASSUME IInv, NEW i \in Task, sess[i].pc = "read", sess[i].rd.queue # <<>>,
           Yielded(sess[i].rd) # Invalid
    PROVE  /\ RowKey(sess[i], Yielded(sess[i].rd)) \in Key
           /\ Yielded(sess[i].rd).image \in Url \cup {NoUrl}
<1>1. Shape(sess[i])
  BY DEF IInv, Sessions, Good
<1>2. sess[i].rd.queue \in Seq(Item) /\ sess[i].src \in Name /\ sess[i].listed \in Name
  BY <1>1 DEF Shape
<1>3. sess[i].rd.kind = "file" => sess[i].rd.row + 1 \in Id
  BY FileRow
<1> QED
  BY <1>2, <1>3, YieldedKey DEF RowKey, Key

(* A file's next row is taken: its key is there, or about to be. *)
LEMMA FiledNext ==
    ASSUME IInv, NEW i \in Task, sess[i].pc = "read", sess[i].rd.queue # <<>>,
           NEW t, t.rd = TakeEntry(sess[i].rd), t.src = sess[i].src,
           t.listed = sess[i].listed, t.file = sess[i].file,
           t.held = sess[i].held, t.put = sess[i].put, t.again = sess[i].again,
           Yielded(sess[i].rd) # Invalid =>
              LET k == RowKey(sess[i], Yielded(sess[i].rd))
              IN SeenBy(t, bank, k) # NoRow \/ Inserting(t, k),
           sess[i].rd.kind = "file" /\ sess[i].again => t.created = 0
    PROVE  Filed(t, bank, disk, imported)
<1> DEFINE s == sess[i]
           m == s.rd.row + 1
<1>1. Shape(s) /\ Filed(s, bank, disk, imported)
  BY DEF IInv, Sessions, Good
<1>2. /\ t.rd.kind = s.rd.kind /\ t.rd.over = s.rd.over /\ t.rd.n = s.rd.n
      /\ t.rd.queue = Tail(s.rd.queue) /\ t.rd.row = m /\ s.rd.row \in Nat
  BY <1>1, EntryTaken DEF Shape
<1> SUFFICES ASSUME s.rd.kind = "file" PROVE Filed(t, bank, disk, imported)
  BY <1>2 DEF Filed
<1>3. /\ s.rd.n = 1 /\ s.held \in FileContent
      /\ Yielded(s.rd) = ParseRecord(s.held.rows[m], m)
      /\ Yielded(s.rd) # Invalid /\ s.src = s.listed =>
            RowKey(s, Yielded(s.rd)) = KeyOf(s.src, s.held, m)
      /\ m + Len(Tail(s.rd.queue)) = Len(s.held.rows)
      /\ \A x \in 1..Len(Tail(s.rd.queue)) : Tail(s.rd.queue)[x] = s.held.rows[m + x]
  BY FileRow
<1>4. ASSUME s.src = s.listed, NEW x \in 1..m, Gives(s.held, x)
      PROVE  LET k == KeyOf(s.src, s.held, x)
             IN SeenBy(t, bank, k) # NoRow \/ Inserting(t, k)
  <2>1. CASE x = m
    BY <1>3, <1>4, <2>1 DEF Gives
  <2>2. CASE x # m
    <3>1. x \in 1..s.rd.row
      BY <1>2, <2>2
    <3>2. SeenBy(s, bank, KeyOf(s.src, s.held, x)) # NoRow
      BY <1>1, <1>4, <3>1 DEF Filed, Inserting
    <3> QED
      BY <3>2 DEF SeenBy
  <2> QED
    BY <2>1, <2>2
<1>5. /\ s.file \in Name /\ disk[s.file] \in FileContent /\ s.rd.over = FALSE
      /\ s.again => <<s.src, s.held>> \in imported /\ t.created = 0
  BY <1>1 DEF Filed
<1> QED
  BY <1>2, <1>3, <1>4, <1>5 DEF Filed

(* The object upsert works on tells whether the row is there. *)
LEMMA ExistingSeen ==
    ASSUME IInv, NEW i \in Task, NEW k
    PROVE  /\ Existing(i, k) # NoRow => SeenBy(sess[i], bank, k) # NoRow
           /\ Existing(i, k) = NoRow => bank[k] = NoRow
<1>1. Shape(sess[i]) /\ Backed(sess[i], bank, final)
  BY DEF IInv, Sessions, Good
<1> QED
  BY <1>1 DEF Shape, Backed, Existing, Seen, SeenBy

(* upsert, as a whole. *)
LEMMA UpsertGood ==
    ASSUME IInv, NEW i \in Task, sess[i].pc = "read", sess[i].rd.queue # <<>>,
           Yielded(sess[i].rd) # Invalid,
           NEW s0, DOMAIN s0 = SessionFields, s0.rd = TakeEntry(sess[i].rd),
           \A x \in SessionFields \ {"rd"} : s0[x] = sess[i][x],
           Upsert(i, Yielded(sess[i].rd), s0)
    PROVE  /\ DOMAIN sess' = Task /\ \A j \in Task \ {i} : sess'[j] = sess[j]
           /\ Good(sess'[i], bank, final, disk, imported) /\ Quiet(sess'[i], work[i])
           /\ i \in Script => sess'[i].ok = TRUE
<1> DEFINE s == sess[i]
           q == Yielded(s.rd)
           k == RowKey(s, q)
           row == Existing(i, k)
           t == sess'[i]
<1>1. /\ s0.pc = "read" /\ s0.ok = s.ok /\ s0.src = s.src /\ s0.listed = s.listed
      /\ s0.file = s.file /\ s0.held = s.held /\ s0.put = s.put /\ s0.todo = s.todo /\ s0.again = s.again
      /\ s0.urls = s.urls /\ s0.old = s.old /\ s0.created = s.created
  BY DEF SessionFields
<1>2. RowKey(s0, q) = k
  BY <1>1 DEF RowKey
<1>3. DOMAIN sess = Task
  BY DEF IInv, Sessions
<1>4. /\ DOMAIN sess' = Task /\ \A j \in Task \ {i} : sess'[j] = sess[j]
      /\ Told(t, s0, q)
      /\ Created(t, s0, k, row, q) \/ Written(t, s0, k, row, q) \/ Left(t, s0, k, row)
  BY <1>2, <1>3, Upserted
<1>5. /\ Good(s, bank, final, disk, imported) /\ Quiet(s, work[i])
      /\ i \in Script => s.ok = TRUE
  BY DEF IInv, Sessions
<1>6. k \in Key /\ q.image \in Url \cup {NoUrl}
  BY NextKey
<1>7. /\ DOMAIN s.rd = ReaderFields /\ s.rd.kind \in Kind /\ s.rd.n \in Nat /\ s.rd.row \in Nat
      /\ s.rd.queue \in Seq(Item) /\ s.src \in Name /\ s.listed \in Name /\ s.urls \subseteq Url
      /\ (s.rd.kind # "file" => s.again = FALSE)
      /\ DOMAIN s.put \subseteq Key /\ DOMAIN s.old \subseteq Key /\ s.created \in Nat
      /\ (\A x \in DOMAIN s.put : s.put[x] # NoRow) /\ \A x \in DOMAIN s.old : s.old[x] # NoRow
  BY <1>5 DEF Good, Shape
<1>8. /\ DOMAIN t = SessionFields /\ t.ok = s.ok /\ t.src = s.src /\ t.listed = s.listed
      /\ t.file = s.file
      /\ t.held = s.held /\ t.put = s.put /\ t.todo = s.todo /\ t.again = s.again
      /\ t.rd = TakeEntry(s.rd) /\ t.urls = s.urls \cup ({q.image} \ {NoUrl})
  BY <1>1, <1>4 DEF Told
<1>9. /\ DOMAIN t.rd = ReaderFields /\ t.rd.kind \in Kind /\ t.rd.n \in Nat
      /\ t.rd.kind = s.rd.kind
      /\ t.rd.row \in Nat /\ t.rd.queue \in Seq(Item)
  BY <1>7, <1>8, EntryTyped
<1> HIDE DEF q, k, row, t
<1>10. ASSUME Created(t, s0, k, row, q)
       PROVE  /\ t.pc = "ask" /\ t.old = s.old /\ t.created \in Nat
              /\ t.ask.op = "insert" /\ t.ask.key = k /\ t.ask.then = "read"
              /\ t.ask.row # NoRow /\ t.ask.row.path = NoUrl
  BY <1>1, <1>7, <1>10, NewRow DEF Created, Insert
<1>11. ASSUME Written(t, s0, k, row, q)
       PROVE  /\ t.pc = "ask" /\ t.old = With(s.old, k, row) /\ t.created = s.created
              /\ t.ask.op = "update" /\ t.ask.key = k /\ t.ask.then = "read"
              /\ t.ask.row.path = NoUrl /\ row # NoRow
  BY <1>1, <1>11, NewRow DEF Written, Update
<1>12. ASSUME Left(t, s0, k, row)
       PROVE  /\ t.pc = "read" /\ t.old = With(s.old, k, row) /\ t.created = s.created
              /\ row # NoRow
  BY <1>1, <1>12 DEF Left
<1>13. /\ t.pc \in {"read", "ask"} /\ t.created \in Nat
       /\ t.old = s.old \/ (t.old = With(s.old, k, row) /\ row # NoRow)
       /\ t.pc = "ask" => t.ask.op \in {"insert", "update"} /\ t.ask.key = k
                            /\ t.ask.then = "read" /\ t.ask.row.path = NoUrl
       /\ t.pc = "ask" /\ t.ask.op = "insert" => t.ask.row # NoRow
       /\ t.pc = "ask" /\ t.ask.op = "update" => row # NoRow
  BY <1>4, <1>7, <1>10, <1>11, <1>12
<1>14. DOMAIN t.old \subseteq DOMAIN s.old \cup {k} /\ \A x \in DOMAIN t.old : t.old[x] # NoRow
  <2>1. CASE t.old = s.old
    BY <1>7, <2>1
  <2>2. CASE t.old = With(s.old, k, row) /\ row # NoRow
    <3>1. /\ DOMAIN t.old = DOMAIN s.old \cup {k} /\ t.old[k] = row
          /\ \A x \in DOMAIN s.old \ {k} : t.old[x] = s.old[x]
      <4>1. ASSUME NEW g
            PROVE  /\ DOMAIN With(g, k, row) = DOMAIN g \cup {k} /\ With(g, k, row)[k] = row
                   /\ \A x \in DOMAIN g \ {k} : With(g, k, row)[x] = g[x]
        BY DEF With
      <4> QED
        BY <2>2, <4>1
    <3> QED
      BY <1>7, <2>2, <3>1
  <2> QED
    BY <1>13, <2>1, <2>2
<1>15. Shape(t)
  BY <1>6, <1>7, <1>8, <1>9, <1>13, <1>14 DEF Shape, Pcs
<1>16. AskShape(t) /\ ReadToEnd(t)
  BY <1>6, <1>13 DEF AskShape, ReadToEnd
<1>17. row # NoRow => SeenBy(t, bank, k) # NoRow
  BY <1>8, ExistingSeen DEF row, SeenBy
<1>18. Backed(t, bank, final)
  <2>1. \A x \in DOMAIN t.old : SeenBy(t, bank, x) # NoRow
    <3>1. \A x \in DOMAIN s.old : SeenBy(t, bank, x) # NoRow
      BY <1>5, <1>8 DEF Good, Backed, SeenBy
    <3>2. CASE t.old = s.old
      BY <3>1, <3>2
    <3>3. CASE row # NoRow
      BY <1>14, <1>17, <3>1, <3>3
    <3> QED
      BY <1>13, <3>2, <3>3
  <2>2. /\ \A x \in DOMAIN t.put : OnDisk(final, t.put[x].path)
        /\ \A x \in t.todo : /\ x[1] \in Key /\ SeenBy(t, bank, x[1]) # NoRow
                             /\ x[2] \in Url /\ final[x[2]] # "none"
    BY <1>5, <1>8 DEF Good, Backed, SeenBy
  <2>3. t.pc = "ask" /\ t.ask.op = "update" =>
           /\ SeenBy(t, bank, t.ask.key) # NoRow
           /\ "path" \in t.ask.cols => OnDisk(final, t.ask.row.path)
    BY <1>13, <1>17 DEF OnDisk
  <2> QED
    BY <2>1, <2>2, <2>3 DEF Backed
<1>19. Filed(t, bank, disk, imported)
  <2>1. SeenBy(t, bank, k) # NoRow \/ Inserting(t, k)
    BY <1>4, <1>10, <1>11, <1>12, <1>17 DEF Inserting
  <2>2. ASSUME s.rd.kind = "file", s.again PROVE t.created = 0
    <3>1. /\ <<s.src, s.held>> \in imported /\ s.created = 0
      BY <1>5, <2>2 DEF Good, Filed
    <3>2. /\ s.held \in FileContent /\ s.rd.row + 1 \in DOMAIN s.held.rows
          /\ Gives(s.held, s.rd.row + 1)
          /\ k = KeyOf(s.src, s.held, s.rd.row + 1) \/ k \in DOMAIN s.old
      BY <2>2, FileRow DEF q, k
    <3>3. bank[KeyOf(s.src, s.held, s.rd.row + 1)] # NoRow
      BY <3>1, <3>2 DEF IInv, Tables, Known
    <3>4. k \in DOMAIN s.old => row # NoRow
      BY <1>7 DEF row, Existing
    <3>5. row # NoRow
      BY <3>2, <3>3, <3>4, ExistingSeen DEF row
    <3> QED
      BY <1>4, <1>11, <1>12, <3>1, <3>5 DEF Created
  <2> QED
    BY <1>8, <2>1, <2>2, FiledNext DEF q, k
<1>20. Quiet(t, work[i])
  BY <1>5, <1>8, <1>13 DEF Quiet
<1> QED
  BY <1>4, <1>5, <1>8, <1>15, <1>16, <1>18, <1>19, <1>20 DEF Good, t

LEMMA NextEntryStep == ASSUME IInv, NEW i \in Task, NextEntry(i) PROVE IInv'
<1> DEFINE rd == sess[i].rd
           q == Yielded(rd)
           s0 == [sess[i] EXCEPT !.rd = TakeEntry(rd)]
           t == sess'[i]
<1>1. /\ sess[i].pc = "read" /\ rd.queue # <<>> /\ Shape(sess[i]) /\ DOMAIN sess = Task
  BY DEF NextEntry, Reading, IInv, Sessions, Good
<1>2. /\ DOMAIN s0 = SessionFields /\ s0.rd = TakeEntry(rd)
      /\ \A x \in SessionFields \ {"rd"} : s0[x] = sess[i][x]
  BY <1>1 DEF Shape, SessionFields
<1>3. \/ q # Invalid /\ Upsert(i, q, s0)
      \/ /\ q = Invalid
         /\ Proceed(i, [s0 EXCEPT !.skipped = IF rd.kind = "file" THEN @ + 1 ELSE @])
  BY DEF NextEntry
<1> HIDE DEF s0
<1>4. CASE q # Invalid /\ Upsert(i, q, s0)
  BY <1>1, <1>2, <1>4, UpsertGood, SessionStep DEF NextEntry
<1>5. CASE /\ q = Invalid
           /\ Proceed(i, [s0 EXCEPT !.skipped = IF rd.kind = "file" THEN @ + 1 ELSE @])
  <2>1. /\ DOMAIN sess' = Task /\ \A j \in Task \ {i} : sess'[j] = sess[j]
        /\ DOMAIN t = SessionFields /\ t.rd = TakeEntry(rd)
        /\ \A x \in SessionFields \ {"rd", "skipped"} : t[x] = sess[i][x]
    BY <1>1, <1>2, <1>5 DEF Proceed, SessionFields
  <2>2. /\ t.src = sess[i].src /\ t.listed = sess[i].listed /\ t.src \in Name
        /\ t.file = sess[i].file /\ t.held = sess[i].held
        /\ t.put = sess[i].put /\ t.again = sess[i].again /\ t.created = sess[i].created
    BY <1>1, <2>1 DEF SessionFields, Shape
  <2>3. /\ DOMAIN rd = ReaderFields /\ rd.kind \in Kind /\ rd.n \in Nat /\ rd.row \in Nat
        /\ rd.queue \in Seq(Item)
    BY <1>1 DEF Shape
  <2>4. /\ DOMAIN t.rd = ReaderFields /\ t.rd.kind \in Kind /\ t.rd.n \in Nat
        /\ t.rd.row \in Nat /\ t.rd.queue \in Seq(Item)
        /\ t.rd.kind # "file" => t.again = FALSE
    BY <1>1, <2>1, <2>2, <2>3, EntryTyped DEF Shape
  <2>5. rd.kind = "file" /\ sess[i].again => t.created = 0
    BY <1>1, <2>2 DEF IInv, Sessions, Good, Filed
  <2>6. Filed(t, bank, disk, imported)
    BY <1>1, <1>5, <2>1, <2>2, <2>5, FiledNext
  <2>7. /\ Good(t, bank, final, disk, imported) /\ Quiet(t, work[i])
        /\ i \in Script => t.ok = TRUE
    <3> HIDE DEF t
    <3> QED
      BY <1>1, <2>1, <2>2, <2>4, <2>6, ReadingKept
  <2> QED
    BY <2>1, <2>7, SessionStep DEF NextEntry
<1> QED
  BY <1>3, <1>4, <1>5

(***************************************************************************)
(* Statements.                                                             *)
(***************************************************************************)
LEMMA ExecuteStep == ASSUME IInv, NEW i \in Task, Execute(i) PROVE IInv'
<1> DEFINE s == sess[i]
           a == s.ask
           row == IF a.op = "insert" THEN a.row ELSE Apply(Seen(i, a.key), a)
           kept == IF a.key \in DOMAIN s.old THEN Apply(s.old[a.key], a) ELSE row
           t == sess'[i]
<1>1. /\ Good(s, bank, final, disk, imported) /\ Quiet(s, work[i])
      /\ i \in Script => s.ok = TRUE
      /\ DOMAIN sess = Task /\ s.pc = "ask" /\ DOMAIN s = SessionFields
  BY DEF IInv, Sessions, Good, Shape, Execute
<1>2. /\ DOMAIN sess' = Task /\ \A j \in Task \ {i} : sess'[j] = sess[j]
      /\ t = [s EXCEPT !.put = With(@, a.key, row), !.ask = NoAsk, !.pc = a.then,
                       !.old = With(@, a.key, kept)]
  BY <1>1 DEF Execute, Proceed
<1>3. a.key \in Key /\ a.op \in {"insert", "update"} /\ a.then \in {"read", "attach"}
  BY <1>1 DEF Good, AskShape
<1>4. row # NoRow /\ OnDisk(final, row.path)
  <2>1. CASE a.op = "insert"
    BY <1>1, <2>1 DEF Good, AskShape, OnDisk
  <2>2. CASE a.op # "insert"
    <3>1. /\ Seen(i, a.key) # NoRow
          /\ "path" \in a.cols => OnDisk(final, a.row.path)
      BY <1>1, <1>3, <2>2 DEF Good, Backed, Seen, SeenBy
    <3>2. OnDisk(final, Seen(i, a.key).path)
      <4>1. CASE a.key \in DOMAIN s.put
        BY <1>1, <4>1 DEF Good, Backed, Seen
      <4>2. CASE a.key \notin DOMAIN s.put
        <5>1. Seen(i, a.key) = bank[a.key] /\ bank[a.key] # NoRow
          BY <3>1, <4>2 DEF Seen
        <5> QED
          BY <1>3, <5>1 DEF IInv, Tables
      <4> QED
        BY <4>1, <4>2
    <3>3. ASSUME NEW old
          PROVE  /\ Apply(old, a) # NoRow
                 /\ "path" \in a.cols => Apply(old, a).path = a.row.path
                 /\ "path" \notin a.cols => Apply(old, a).path = old.path
      BY AppliedRow
    <3>4. row = Apply(Seen(i, a.key), a)
      BY <2>2
    <3> HIDE DEF row
    <3>5. /\ row # NoRow
          /\ "path" \in a.cols => row.path = a.row.path
          /\ "path" \notin a.cols => row.path = Seen(i, a.key).path
      BY <3>3, <3>4
    <3> QED
      BY <3>1, <3>2, <3>5
  <2> QED
    BY <2>1, <2>2
<1>5. kept # NoRow
  BY <1>4, AppliedRow
<1> HIDE DEF row, kept
<1>7. /\ DOMAIN t = SessionFields /\ t.pc = a.then
      /\ t.put = With(s.put, a.key, row) /\ t.old = With(s.old, a.key, kept)
      /\ t.ok = s.ok /\ t.src = s.src /\ t.listed = s.listed
      /\ t.file = s.file /\ t.held = s.held /\ t.rd = s.rd
      /\ t.urls = s.urls /\ t.todo = s.todo /\ t.created = s.created /\ t.again = s.again
  BY <1>1, <1>2 DEF SessionFields
<1> HIDE DEF t
<1>8. /\ DOMAIN t.put = DOMAIN s.put \cup {a.key} /\ t.put[a.key] = row
      /\ \A x \in DOMAIN s.put \ {a.key} : t.put[x] = s.put[x]
  BY <1>7 DEF With
<1>9. /\ DOMAIN t.old = DOMAIN s.old \cup {a.key} /\ t.old[a.key] = kept
      /\ \A x \in DOMAIN s.old \ {a.key} : t.old[x] = s.old[x]
  BY <1>7 DEF With
<1>10. Shape(t)
  <2>1. /\ DOMAIN t.put \subseteq Key /\ \A k \in DOMAIN t.put : t.put[k] # NoRow
    BY <1>1, <1>3, <1>4, <1>8 DEF Good, Shape
  <2>2. /\ DOMAIN t.old \subseteq Key /\ \A k \in DOMAIN t.old : t.old[k] # NoRow
    BY <1>1, <1>3, <1>5, <1>9 DEF Good, Shape
  <2> QED
    BY <1>1, <1>3, <1>7, <2>1, <2>2 DEF Good, Shape, Pcs
<1>11. AskShape(t) /\ ReadToEnd(t)
  BY <1>1, <1>3, <1>7 DEF AskShape, ReadToEnd, Good
<1>12. /\ \A k : SeenBy(s, bank, k) # NoRow => SeenBy(t, bank, k) # NoRow
       /\ SeenBy(t, bank, a.key) # NoRow
  BY <1>4, <1>8 DEF SeenBy
<1>13. Backed(t, bank, final)
  <2>1. \A k \in DOMAIN t.old : SeenBy(t, bank, k) # NoRow
    BY <1>1, <1>9, <1>12 DEF Good, Backed
  <2>2. \A k \in DOMAIN t.put : OnDisk(final, t.put[k].path)
    BY <1>1, <1>4, <1>8 DEF Good, Backed
  <2>3. \A x \in t.todo : /\ x[1] \in Key /\ SeenBy(t, bank, x[1]) # NoRow
                          /\ x[2] \in Url /\ final[x[2]] # "none"
    BY <1>1, <1>7, <1>12 DEF Good, Backed
  <2> QED
    BY <1>3, <1>7, <2>1, <2>2, <2>3 DEF Backed
<1>14. Filed(t, bank, disk, imported)
  <2>1. \A k : Inserting(s, k) => SeenBy(t, bank, k) # NoRow
    BY <1>12 DEF Inserting
  <2>2. s.rd.kind = "file" => Filed(s, bank, disk, imported)
    BY <1>1 DEF Good
  <2> QED
    BY <1>1, <1>7, <1>12, <2>1, <2>2 DEF Filed
<1>15. Quiet(t, work[i])
  BY <1>1, <1>3, <1>7 DEF Quiet
<1> QED
  BY <1>1, <1>2, <1>7, <1>10, <1>11, <1>13, <1>14, <1>15, SessionStep DEF Good, t, Execute

(***************************************************************************)
(* After the source is read.                                               *)
(***************************************************************************)
(* A session moves on without touching rows or its reader. *)
LEMMA MovesOn ==
    ASSUME NEW s, NEW t, Good(s, bank, final, disk, imported),
           DOMAIN t = SessionFields,
           \A x \in SessionFields \ {"pc", "todo", "ask", "marked"} : t[x] = s[x],
           t.pc \in Pcs \ {"idle"}, s.pc \notin {"idle", "ask"}, AskShape(t),
           t.pc = "ask" => t.ask.op = "update" /\ t.ask.then = "attach"
                             /\ SeenBy(s, bank, t.ask.key) # NoRow
                             /\ OnDisk(final, t.ask.row.path),
           Drained(s.rd) \/ (t.pc = "commit" /\ ~t.ok),
           \A x \in t.todo : /\ x[1] \in Key /\ SeenBy(s, bank, x[1]) # NoRow
                             /\ x[2] \in Url /\ final[x[2]] # "none"
    PROVE  Good(t, bank, final, disk, imported)
<1>1. /\ t.ok = s.ok /\ t.src = s.src /\ t.listed = s.listed
      /\ t.file = s.file /\ t.held = s.held /\ t.rd = s.rd
      /\ t.put = s.put /\ t.old = s.old /\ t.urls = s.urls /\ t.created = s.created
      /\ t.again = s.again
  BY DEF SessionFields
<1>2. Shape(t)
  BY <1>1 DEF Good, Shape
<1>3. ReadToEnd(t)
  BY <1>1 DEF ReadToEnd
<1>4. Backed(t, bank, final)
  BY <1>1 DEF Good, Backed, SeenBy
<1>5. Filed(t, bank, disk, imported)
  BY <1>1 DEF Good, Filed, SeenBy, Inserting
<1> QED
  BY <1>2, <1>3, <1>4, <1>5 DEF Good

LEMMA DownloadedStep == ASSUME IInv, NEW i \in Task, Downloaded(i) PROVE IInv'
<1> DEFINE s == sess[i]
           t == sess'[i]
           missing == Attachable(i)
<1>1. /\ Good(s, bank, final, disk, imported) /\ Quiet(s, work[i])
      /\ i \in Script => s.ok = TRUE
      /\ DOMAIN sess = Task /\ s.pc = "media" /\ DOMAIN s = SessionFields
      /\ s.urls \subseteq Url
  BY DEF IInv, Sessions, Good, Shape, Downloaded
<1>2. /\ DOMAIN sess' = Task /\ \A j \in Task \ {i} : sess'[j] = sess[j]
      /\ t = [s EXCEPT !.pc = "attach", !.todo = missing]
  BY <1>1 DEF Downloaded, Proceed
<1> HIDE DEF missing
<1>3. /\ DOMAIN t = SessionFields /\ t.pc = "attach" /\ t.todo = missing
      /\ \A x \in SessionFields \ {"pc", "todo"} : t[x] = s[x]
  <2>1. ASSUME NEW m, t = [s EXCEPT !.pc = "attach", !.todo = m]
        PROVE  /\ DOMAIN t = SessionFields /\ t.pc = "attach" /\ t.todo = m
               /\ \A x \in SessionFields \ {"pc", "todo"} : t[x] = s[x]
    <3>1. DOMAIN s = SessionFields
      BY <1>1
    <3> HIDE DEF s, t
    <3> QED
      BY <2>1, <3>1 DEF SessionFields
  <2> QED
    BY <1>2, <2>1
<1>4. \A x \in t.todo : /\ x[1] \in Key /\ SeenBy(s, bank, x[1]) # NoRow
                        /\ x[2] \in Url /\ final[x[2]] # "none"
  BY <1>1, <1>3 DEF missing, Attachable, Missing, Seen, SeenBy, IInv, Pictures
<1>5. Drained(s.rd)
  BY <1>1 DEF Good, ReadToEnd
<1>6. t.urls = s.urls /\ t.ok = s.ok
  BY <1>3 DEF SessionFields
<1> HIDE DEF t
<1>7. Good(t, bank, final, disk, imported)
  BY <1>1, <1>3, <1>4, <1>5, MovesOn DEF AskShape, Pcs
<1>8. Quiet(t, work[i])
  BY <1>1, <1>3, <1>6 DEF Quiet, Downloaded, Settled
<1> QED
  BY <1>1, <1>2, <1>6, <1>7, <1>8, SessionStep DEF t, Downloaded

LEMMA AttachStep == ASSUME IInv, NEW i \in Task, Attach(i) PROVE IInv'
<1> DEFINE s == sess[i]
           t == sess'[i]
<1>1. /\ Good(s, bank, final, disk, imported) /\ Quiet(s, work[i])
      /\ i \in Script => s.ok = TRUE
      /\ DOMAIN sess = Task /\ s.pc = "attach" /\ DOMAIN s = SessionFields
  BY DEF IInv, Sessions, Good, Shape, Attach
<1>2. Drained(s.rd)
  BY <1>1 DEF Good, ReadToEnd
<1>3. \A x \in s.todo : /\ x[1] \in Key /\ SeenBy(s, bank, x[1]) # NoRow
                        /\ x[2] \in Url /\ final[x[2]] # "none"
  BY <1>1 DEF Good, Backed
<1>4. CASE s.todo = {} /\ Proceed(i, [s EXCEPT !.pc = "finish"])
  <2>1. /\ DOMAIN sess' = Task /\ \A j \in Task \ {i} : sess'[j] = sess[j]
        /\ DOMAIN t = SessionFields /\ t.pc = "finish"
        /\ \A x \in SessionFields \ {"pc"} : t[x] = s[x]
    BY <1>1, <1>4 DEF Proceed, SessionFields
  <2>2. t.urls = s.urls /\ t.ok = s.ok /\ t.todo = s.todo
    BY <2>1 DEF SessionFields
  <2> HIDE DEF t
  <2>3. Good(t, bank, final, disk, imported)
    BY <1>1, <1>2, <1>3, <2>1, <2>2, MovesOn DEF AskShape, Pcs
  <2>4. Quiet(t, work[i])
    BY <1>1, <2>1, <2>2 DEF Quiet
  <2> QED
    BY <1>1, <2>1, <2>2, <2>3, <2>4, SessionStep DEF t, Attach
<1>5. ASSUME NEW x \in s.todo,
             Proceed(i, [s EXCEPT !.todo = @ \ {x}, !.pc = "ask",
                            !.ask = Update(x[1], [path |-> x[2]], {"path"}, "attach")])
      PROVE  IInv'
  <2>1. /\ DOMAIN sess' = Task /\ \A j \in Task \ {i} : sess'[j] = sess[j]
        /\ DOMAIN t = SessionFields /\ t.pc = "ask" /\ t.todo = s.todo \ {x}
        /\ t.ask = Update(x[1], [path |-> x[2]], {"path"}, "attach")
        /\ \A y \in SessionFields \ {"pc", "todo", "ask"} : t[y] = s[y]
    BY <1>1, <1>5 DEF Proceed, SessionFields
  <2>2. /\ t.ask.op = "update" /\ t.ask.then = "attach" /\ t.ask.key = x[1]
        /\ t.ask.row.path = x[2]
    BY <2>1 DEF Update
  <2>3. t.urls = s.urls /\ t.ok = s.ok
    BY <2>1 DEF SessionFields
  <2> HIDE DEF t
  <2>4. AskShape(t) /\ SeenBy(s, bank, t.ask.key) # NoRow /\ OnDisk(final, t.ask.row.path)
    BY <1>3, <2>2 DEF AskShape, OnDisk
  <2>5. Good(t, bank, final, disk, imported)
    BY <1>1, <1>2, <1>3, <2>1, <2>2, <2>4, MovesOn DEF Pcs
  <2>6. Quiet(t, work[i])
    BY <1>1, <2>1, <2>3 DEF Quiet
  <2> QED
    BY <1>1, <2>1, <2>3, <2>5, <2>6, SessionStep DEF t, Attach
<1> QED
  BY <1>4, <1>5 DEF Attach

LEMMA MarkStep == ASSUME IInv, NEW i \in Task, Mark(i) PROVE IInv'
<1> DEFINE s == sess[i]
           t == sess'[i]
<1>1. /\ Good(s, bank, final, disk, imported) /\ Quiet(s, work[i])
      /\ i \in Script => s.ok = TRUE
      /\ DOMAIN sess = Task /\ s.pc = "finish" /\ DOMAIN s = SessionFields
  BY DEF IInv, Sessions, Good, Shape, Mark
<1>2. PICK how \in {"inserted", "updated"} :
          Proceed(i, [s EXCEPT !.pc = "commit", !.marked = how])
  BY DEF Mark
<1>3. /\ DOMAIN sess' = Task /\ \A j \in Task \ {i} : sess'[j] = sess[j]
      /\ DOMAIN t = SessionFields /\ t.pc = "commit"
      /\ \A x \in SessionFields \ {"pc", "marked"} : t[x] = s[x]
  BY <1>1, <1>2 DEF Proceed, SessionFields
<1>4. t.urls = s.urls /\ t.ok = s.ok /\ t.todo = s.todo
  BY <1>3 DEF SessionFields
<1>5. Drained(s.rd)
  BY <1>1 DEF Good, ReadToEnd
<1> HIDE DEF t
<1>6. \A x \in t.todo : /\ x[1] \in Key /\ SeenBy(s, bank, x[1]) # NoRow
                        /\ x[2] \in Url /\ final[x[2]] # "none"
  BY <1>1, <1>4 DEF Good, Backed
<1>7. Good(t, bank, final, disk, imported)
  BY <1>1, <1>3, <1>5, <1>6, MovesOn DEF AskShape, Pcs
<1>8. Quiet(t, work[i])
  BY <1>1, <1>3, <1>4 DEF Quiet
<1> QED
  BY <1>1, <1>3, <1>4, <1>7, <1>8, SessionStep DEF t, Mark

(***************************************************************************)
(* Downloads.                                                              *)
(***************************************************************************)
(* A step of task i's worker for address u: other files and other workers'
   places in the code stay; the file is still there; and it is still whole or
   written to. *)
Touched(i, u) ==
    /\ MediaTypeOK'
    /\ \A v \in Url \ {u} : /\ part'[v] = part[v] /\ final'[v] = final[v]
                            /\ \A j \in Task : work'[j][v] = work[j][v]
    /\ \A j \in Task \ {i} : work'[j][u].pc = work[j][u].pc
    /\ final[u] # "none" => final'[u] # "none"
    /\ work'[i][u].pc = "ok" => final'[u] # "none"
    /\ Whole(u) => Whole(u)'

LEMMA WorkerPlace ==
    ASSUME NEW pc \in {"idle", "look", "queue", "fetch", "open", "write", "rename", "ok", "failed"}
    PROVE  /\ [Unused EXCEPT !.pc = pc] \in Worker
           /\ [Unused EXCEPT !.pc = pc].pc = pc /\ [Unused EXCEPT !.pc = pc].into = "part"
BY MediaAssumption DEF Unused, Worker

(* Steps that only move the worker on, and not to or from writing. *)
LEMMA WorkerMoves ==
    ASSUME MediaTypeOK, NEW i \in Task, NEW u \in Url, NEW w \in Worker,
           work' = [work EXCEPT ![i][u] = w], UNCHANGED <<part, final>>,
           work[i][u].pc # "write", w.pc # "write", w.pc = "ok" => final[u] # "none"
    PROVE  Touched(i, u)
<1>1. /\ MediaTypeOK' /\ work'[i][u] = w
      /\ \A j \in Task, v \in Url : (j # i \/ v # u) => work'[j][v] = work[j][v]
  BY DEF MediaTypeOK
<1>2. Whole(u) => Whole(u)'
  BY <1>1, WholeKept
<1> QED
  BY <1>1, <1>2 DEF Touched

LEMMA LookTouches ==
    ASSUME MediaTypeOK, NEW i \in Task, NEW u \in Url, Look(i, u)
    PROVE  Touched(i, u)
<1>1. PICK pc \in {"failed", "ok", "queue"} : Become(i, u, pc) /\ (pc = "ok" => Cached(u))
  BY DEF Look
<1>2. /\ [Unused EXCEPT !.pc = pc] \in Worker /\ [Unused EXCEPT !.pc = pc].pc = pc
  BY WorkerPlace
<1>3. pc = "ok" => final[u] # "none"
  BY <1>1 DEF Cached
<1> DEFINE w == [Unused EXCEPT !.pc = pc]
<1>4. /\ work' = [work EXCEPT ![i][u] = w] /\ UNCHANGED <<part, final>>
      /\ work[i][u].pc # "write"
  BY <1>1 DEF Become, Look
<1>5. w \in Worker /\ w.pc # "write" /\ (w.pc = "ok" => final[u] # "none")
  BY <1>2, <1>3
<1> HIDE DEF w
<1> QED
  BY <1>4, <1>5, WorkerMoves

LEMMA AcquireTouches ==
    ASSUME MediaTypeOK, NEW i \in Task, NEW u \in Url, Acquire(i, u)
    PROVE  Touched(i, u)
<1> DEFINE w == [work[i][u] EXCEPT !.pc = "fetch", !.tries = 1]
<1>1. work[i][u] \in Worker /\ work \in [Task -> [Url -> Worker]]
  BY DEF MediaTypeOK
<1>2. w \in Worker /\ w.pc = "fetch"
  <2>1. ASSUME NEW x \in Worker
        PROVE  /\ [x EXCEPT !.pc = "fetch", !.tries = 1] \in Worker
               /\ [x EXCEPT !.pc = "fetch", !.tries = 1].pc = "fetch"
    <3>1. 1 \in 0..MaxRetries
      BY MediaAssumption
    <3> QED
      BY <3>1 DEF Worker
  <2> QED
    BY <1>1, <2>1
<1>3. work' = [work EXCEPT ![i][u] = w]
  BY <1>1 DEF Acquire, Worker
<1> HIDE DEF w
<1> QED
  BY <1>2, <1>3, WorkerMoves DEF Acquire

LEMMA FetchTouches ==
    ASSUME MediaTypeOK, NEW i \in Task, NEW u \in Url,
           FetchOk(i, u) \/ FetchTransient(i, u) \/ FetchRefused(i, u)
    PROVE  Touched(i, u)
<1>1. /\ work[i][u] \in Worker /\ work \in [Task -> [Url -> Worker]]
      /\ work[i][u].pc = "fetch" /\ UNCHANGED <<part, final>>
  BY DEF MediaTypeOK, FetchOk, FetchTransient, FetchRefused
<1>2. \/ \E pc \in {"open", "failed"} : Become(i, u, pc)
      \/ /\ work[i][u].tries < MaxRetries
         /\ work' = [work EXCEPT ![i][u].tries = @ + 1]
  BY DEF FetchOk, FetchTransient, FetchRefused
<1>3. ASSUME NEW pc \in {"open", "failed"}, Become(i, u, pc) PROVE Touched(i, u)
  <2>1. [Unused EXCEPT !.pc = pc] \in Worker /\ [Unused EXCEPT !.pc = pc].pc = pc
    BY WorkerPlace
  <2> QED
    BY <1>1, <1>3, <2>1, WorkerMoves DEF Become
<1>4. ASSUME work[i][u].tries < MaxRetries, work' = [work EXCEPT ![i][u].tries = @ + 1]
      PROVE  Touched(i, u)
  <2> DEFINE w == [work[i][u] EXCEPT !.tries = @ + 1]
  <2>1. w \in Worker /\ w.pc = "fetch"
    BY <1>1, <1>4, MediaAssumption DEF Worker
  <2>2. work' = [work EXCEPT ![i][u] = w]
    BY <1>1, <1>4 DEF Worker
  <2> HIDE DEF w
  <2> QED
    BY <1>1, <2>1, <2>2, WorkerMoves
<1> QED
  BY <1>2, <1>3, <1>4

LEMMA OpenTouches ==
    ASSUME MediaTypeOK, NEW i \in Task, NEW u \in Url, OpenPart(i, u)
    PROVE  Touched(i, u)
<1>1. /\ [Unused EXCEPT !.pc = "write"] \in Worker
      /\ [Unused EXCEPT !.pc = "write"].pc = "write" /\ [Unused EXCEPT !.pc = "write"].into = "part"
  BY WorkerPlace
<1>2. /\ work'[i][u].pc = "write" /\ work'[i][u].into = "part" /\ work[i][u].pc = "open"
      /\ \A j \in Task, v \in Url : (j # i \/ v # u) => work'[j][v] = work[j][v]
      /\ MediaTypeOK' /\ final' = final /\ \A v \in Url \ {u} : part'[v] = part[v]
  BY <1>1 DEF MediaTypeOK, OpenPart, Become, FileState
<1>3. Whole(u) => Whole(u)'
  <2>1. i \in Writers(u, "part")'
    BY <1>2 DEF Writers
  <2>2. Writers(u, "final") \subseteq Writers(u, "final")'
    BY <1>2 DEF Writers
  <2> QED
    BY <1>2, <2>1, <2>2 DEF Whole
<1> QED
  BY <1>2, <1>3 DEF Touched

LEMMA WriteTouches ==
    ASSUME MediaTypeOK, NEW i \in Task, NEW u \in Url, WriteSome(i, u)
    PROVE  Touched(i, u)
<1>1. /\ work' = work /\ work[i][u].pc = "write"
      /\ \A v \in Url \ {u} : part'[v] = part[v] /\ final'[v] = final[v]
      /\ MediaTypeOK'
      /\ final[u] # "none" => final'[u] # "none"
  BY DEF MediaTypeOK, WriteSome, FileState
<1>2. \/ i \in Writers(u, "part") /\ final' = final
      \/ i \in Writers(u, "final") /\ part' = part
  BY <1>1 DEF WriteSome, Writers
<1>3. /\ Writers(u, "part")' = Writers(u, "part")
      /\ Writers(u, "final")' = Writers(u, "final")
  BY <1>1 DEF Writers
<1>4. Whole(u) => Whole(u)'
  BY <1>2, <1>3 DEF Whole
<1> QED
  BY <1>1, <1>4 DEF Touched

LEMMA CloseTouches ==
    ASSUME MediaTypeOK, NEW i \in Task, NEW u \in Url, WriteDone(i, u)
    PROVE  Touched(i, u)
<1>1. PICK name \in {"part", "final", "gone"} : name = work[i][u].into
  BY DEF MediaTypeOK, Worker
<1> DEFINE state == IF Writers(u, name) = {i} THEN "full" ELSE "torn"
<1>2. /\ [Unused EXCEPT !.pc = "rename"] \in Worker
      /\ [Unused EXCEPT !.pc = "rename"].pc = "rename"
  BY WorkerPlace
<1>3. /\ work'[i][u].pc = "rename" /\ work[i][u].pc = "write"
      /\ \A j \in Task, v \in Url : (j # i \/ v # u) => work'[j][v] = work[j][v]
      /\ work' \in [Task -> [Url -> Worker]]
  BY <1>2 DEF MediaTypeOK, WriteDone, Become
<1>4. /\ part' = IF name = "part" THEN [part EXCEPT ![u] = state] ELSE part
      /\ final' = IF name = "final" THEN [final EXCEPT ![u] = state] ELSE final
      /\ state \in {"full", "torn"}
  BY <1>1 DEF WriteDone
<1>5. /\ part' \in [Url -> FileState] /\ final' \in [Url -> FileState]
      /\ \A v \in Url \ {u} : part'[v] = part[v] /\ final'[v] = final[v]
      /\ name = "part" => part'[u] = state
      /\ name # "part" => part'[u] = part[u]
      /\ name = "final" => final'[u] = state
      /\ name # "final" => final'[u] = final[u]
  BY <1>4 DEF MediaTypeOK, FileState
<1>6. /\ name # "part" => Writers(u, "part")' = Writers(u, "part")
      /\ name # "final" => Writers(u, "final")' = Writers(u, "final")
  BY <1>1, <1>3 DEF Writers
<1>7. state = "full" \/ Writers(u, name)' # {}
  <2> SUFFICES ASSUME Writers(u, name) # {i} PROVE Writers(u, name)' # {}
    OBVIOUS
  <2>1. i \in Writers(u, name)
    BY <1>1, <1>3 DEF Writers
  <2>2. PICK j \in Writers(u, name) : j # i
    BY <2>1
  <2>3. j \in Writers(u, name)'
    BY <1>3, <2>2 DEF Writers
  <2> QED
    BY <2>3
<1> HIDE DEF state
<1>8. Whole(u) => Whole(u)'
  <2>1. CASE name = "part"
    BY <1>4, <1>5, <1>6, <1>7, <2>1 DEF Whole
  <2>2. CASE name = "final"
    BY <1>4, <1>5, <1>6, <1>7, <2>2 DEF Whole
  <2>3. CASE name = "gone"
    BY <1>5, <1>6, <2>3 DEF Whole
  <2> QED
    BY <2>1, <2>2, <2>3
<1>9. final[u] # "none" => final'[u] # "none"
  BY <1>4, <1>5
<1> QED
  BY <1>3, <1>5, <1>8, <1>9 DEF Touched, MediaTypeOK

LEMMA RenameTouches ==
    ASSUME MediaTypeOK, NEW i \in Task, NEW u \in Url, Rename(i, u)
    PROVE  Touched(i, u)
<1>1. /\ work \in [Task -> [Url -> Worker]] /\ part \in [Url -> FileState]
      /\ final \in [Url -> FileState] /\ work[i][u].pc = "rename" /\ part[u] # "none"
  BY DEF MediaTypeOK, Rename
<1>2. \A x \in Worker :
         /\ x.into \in {"part", "final", "gone"} /\ Moved(x.into) \in {"final", "gone"}
         /\ x.into = "part" => Moved(x.into) = "final"
         /\ [x EXCEPT !.pc = "ok"] \in Worker
         /\ \A m \in {"final", "gone"} : [x EXCEPT !.into = m] \in Worker
  BY DEF Worker, Moved
<1>3. /\ work' = [j \in Task |-> work'[j]]
      /\ \A j \in Task : work'[j] =
            IF j = i THEN [work[j] EXCEPT ![u].pc = "ok"]
            ELSE IF work[j][u].pc = "write"
                 THEN [work[j] EXCEPT ![u].into = Moved(work[j][u].into)]
                 ELSE work[j]
  BY DEF Rename
<1>4. /\ \A j \in Task, v \in Url : v # u => work'[j][v] = work[j][v]
      /\ work'[i][u].pc = "ok"
      /\ \A j \in Task \ {i} :
            /\ work'[j][u].pc = work[j][u].pc
            /\ work[j][u].pc = "write" /\ work[j][u].into = "part"
                  => work'[j][u].into = "final"
  <2>1. \A j \in Task : work[j] \in [Url -> Worker] /\ work[j][u] \in Worker
    BY <1>1
  <2>2. \A j \in Task, v \in Url : v # u => work'[j][v] = work[j][v]
    BY <1>3, <2>1
  <2>3. \A x \in Worker : DOMAIN x = {"pc", "tries", "into"}
    BY DEF Worker
  <2>4. work'[i][u].pc = "ok"
    BY <1>3, <2>1, <2>3
  <2>5. ASSUME NEW j \in Task \ {i}
        PROVE  /\ work'[j][u].pc = work[j][u].pc
               /\ work[j][u].pc = "write" /\ work[j][u].into = "part"
                     => work'[j][u].into = "final"
    <3>1. work[j] \in [Url -> Worker] /\ work[j][u] \in Worker /\ j # i
      BY <2>1
    <3>2. CASE work[j][u].pc = "write"
      <4>1. work'[j] = [work[j] EXCEPT ![u].into = Moved(work[j][u].into)]
        BY <1>3, <3>1, <3>2
      <4>2. /\ work'[j][u].pc = work[j][u].pc
            /\ work'[j][u].into = Moved(work[j][u].into)
        BY <2>3, <3>1, <4>1
      <4> QED
        BY <1>2, <3>1, <4>2
    <3>3. CASE work[j][u].pc # "write"
      BY <1>3, <3>1, <3>3
    <3> QED
      BY <3>2, <3>3
  <2> QED
    BY <2>2, <2>4, <2>5
<1>5. work' \in [Task -> [Url -> Worker]]
  <2>1. ASSUME NEW j \in Task PROVE work'[j] \in [Url -> Worker]
    <3>1. work[j] \in [Url -> Worker] /\ work[j][u] \in Worker
      BY <1>1
    <3> QED
      BY <1>2, <1>3, <3>1
  <2> QED
    BY <1>3, <2>1
<1>6. /\ part' = [part EXCEPT ![u] = "none"] /\ final' = [final EXCEPT ![u] = part[u]]
  BY DEF Rename
<1>7. /\ part' \in [Url -> FileState] /\ final' \in [Url -> FileState]
      /\ part'[u] = "none" /\ final'[u] = part[u] /\ final'[u] # "none"
      /\ \A v \in Url \ {u} : part'[v] = part[v] /\ final'[v] = final[v]
  BY <1>1, <1>6 DEF FileState
<1>8. Writers(u, "part") \subseteq Writers(u, "final")'
  <2> SUFFICES ASSUME NEW j \in Task, work[j][u].pc = "write", work[j][u].into = "part"
               PROVE  work'[j][u].pc = "write" /\ work'[j][u].into = "final"
    BY DEF Writers
  <2> QED
    BY <1>1, <1>4
<1>9. Whole(u) => Whole(u)'
  BY <1>7, <1>8 DEF Whole
<1> QED
  BY <1>4, <1>5, <1>7, <1>9 DEF Touched, MediaTypeOK

LEMMA LostTouches ==
    ASSUME MediaTypeOK, NEW i \in Task, NEW u \in Url, RenameLost(i, u)
    PROVE  Touched(i, u)
<1> DEFINE w == [Unused EXCEPT !.pc = "failed"]
<1>1. w \in Worker /\ w.pc = "failed"
  BY WorkerPlace
<1>2. /\ work' = [work EXCEPT ![i][u] = w] /\ UNCHANGED <<part, final>>
      /\ work[i][u].pc # "write"
  BY DEF RenameLost, Become
<1> HIDE DEF w
<1> QED
  BY <1>1, <1>2, WorkerMoves

LEMMA DownloadStep == ASSUME IInv, NEW i \in Task, Download(i) PROVE IInv'
<1>1. PICK u \in sess[i].urls : MediaStep(i, u)
  BY DEF Download
<1>2. /\ sess[i].pc = "media" /\ u \in Url /\ MediaTypeOK
      /\ UNCHANGED <<bank, marks, disk, sess, imported, count>>
  BY DEF Download, importVars, IInv, Pictures, Sessions, Good, Shape
<1>3. Touched(i, u)
  BY <1>1, <1>2, LookTouches, AcquireTouches, FetchTouches, OpenTouches, WriteTouches,
     CloseTouches, RenameTouches, LostTouches DEF MediaStep
<1>4. \A v \in Url : final[v] # "none" => final'[v] # "none"
  BY <1>3 DEF Touched
<1>5. Tables'
  <2>1. \A path : OnDisk(final, path) => OnDisk(final', path)
    BY <1>4 DEF OnDisk
  <2> QED
    BY <1>2, <2>1 DEF IInv, Tables
<1>6. Pictures'
  <2>1. \A j \in Task : \A v \in Url : work'[j][v].pc = "ok" => final'[v] # "none"
    BY <1>3 DEF Touched, IInv, Pictures
  <2>2. ASSUME count.crashes = 0, NEW v \in Url PROVE Whole(v)'
    <3>1. Whole(v)
      BY <2>2 DEF IInv, Pictures
    <3>2. CASE v = u
      BY <1>3, <3>1, <3>2 DEF Touched
    <3>3. CASE v # u
      BY <1>3, <3>1, <3>3, WholeKept DEF Touched
    <3> QED
      BY <3>2, <3>3
  <2> QED
    BY <1>2, <1>3, <2>1, <2>2 DEF Pictures, Touched
<1>7. Sessions'
  <2>1. ASSUME NEW j \in Task
        PROVE  /\ Good(sess[j], bank, final', disk, imported) /\ Quiet(sess[j], work'[j])
               /\ j \in Script => sess[j].ok = TRUE
    <3>1. /\ Good(sess[j], bank, final, disk, imported) /\ Quiet(sess[j], work[j])
          /\ j \in Script => sess[j].ok = TRUE
      BY DEF IInv, Sessions
    <3>2. Good(sess[j], bank, final', disk, imported)
      BY <1>4, <3>1, GoodKept
    <3>3. Quiet(sess[j], work'[j])
      <4>1. CASE j = i
        BY <1>2, <1>3, <3>1, <4>1 DEF Quiet, Touched
      <4>2. CASE j # i
        BY <1>3, <3>1, <4>2 DEF Quiet, Touched
      <4> QED
        BY <4>1, <4>2
    <3> QED
      BY <3>1, <3>2, <3>3
  <2> QED
    BY <1>2, <2>1 DEF IInv, Sessions
<1> QED
  BY <1>5, <1>6, <1>7 DEF IInv

LEMMA ReadDoneStep == ASSUME IInv, NEW i \in Task, ReadDone(i) PROVE IInv'
<1> DEFINE s == sess[i]
           t == sess'[i]
           pc == IF s.urls = {} THEN "finish" ELSE "media"
<1>1. /\ Good(s, bank, final, disk, imported) /\ Quiet(s, work[i])
      /\ i \in Script => s.ok = TRUE
      /\ DOMAIN sess = Task /\ s.pc = "read" /\ Drained(s.rd) /\ DOMAIN s = SessionFields
      /\ s.urls \subseteq Url /\ MediaTypeOK
      /\ UNCHANGED <<bank, marks, disk, imported, count, part, final>>
  BY DEF IInv, Pictures, Sessions, Good, Shape, ReadDone, Reading
<1>2. /\ DOMAIN sess' = Task /\ \A j \in Task \ {i} : sess'[j] = sess[j]
      /\ t = [s EXCEPT !.pc = pc]
  BY <1>1 DEF ReadDone, Proceed
<1>3. /\ pc \in {"finish", "media"}
      /\ pc = "finish" => s.urls = {}
  OBVIOUS
<1> HIDE DEF pc
<1>4. /\ DOMAIN t = SessionFields /\ t.pc = pc
      /\ \A x \in SessionFields \ {"pc"} : t[x] = s[x]
  BY <1>1, <1>2 DEF SessionFields
<1>5. t.urls = s.urls /\ t.ok = s.ok /\ t.todo = s.todo
  BY <1>4 DEF SessionFields
<1>6. \A x \in s.todo : /\ x[1] \in Key /\ SeenBy(s, bank, x[1]) # NoRow
                        /\ x[2] \in Url /\ final[x[2]] # "none"
  BY <1>1 DEF Good, Backed
<1>7. Good(t, bank, final, disk, imported)
  <2> HIDE DEF t
  <2> QED
    BY <1>1, <1>3, <1>4, <1>5, <1>6, MovesOn DEF AskShape, Pcs
<1>8. /\ [Unused EXCEPT !.pc = "look"] \in Worker /\ [Unused EXCEPT !.pc = "look"].pc = "look"
      /\ Unused \in Worker /\ Unused.pc = "idle"
  BY MediaAssumption DEF Unused, Worker
<1>9. work' = [work EXCEPT ![i] = [u \in Url |->
                  IF u \in s.urls THEN [Unused EXCEPT !.pc = "look"] ELSE Unused]]
  BY DEF ReadDone, StartWorkers
<1> DEFINE fresh == [Unused EXCEPT !.pc = "look"]
<1> HIDE DEF fresh
<1>10. /\ work' \in [Task -> [Url -> Worker]]
       /\ \A j \in Task \ {i} : work'[j] = work[j]
       /\ \A u \in Url : work'[i][u].pc = IF u \in s.urls THEN "look" ELSE "idle"
  BY <1>1, <1>8, <1>9 DEF MediaTypeOK
<1>11. Tables'
  BY <1>1 DEF IInv, Tables
<1>12. Pictures'
  <2>1. MediaTypeOK'
    BY <1>1, <1>10 DEF MediaTypeOK
  <2>2. \A j \in Task : \A u \in Url : work'[j][u].pc = "ok" => final'[u] # "none"
    BY <1>1, <1>10 DEF IInv, Pictures
  <2>3. ASSUME count.crashes = 0, NEW u \in Url PROVE Whole(u)'
    <3>1. Whole(u)
      BY <2>3 DEF IInv, Pictures
    <3>2. work[i][u].pc # "write" /\ work'[i][u].pc # "write"
      BY <1>1, <1>10 DEF Quiet
    <3>3. \A j \in Task : work'[j][u] = work[j][u]
                            \/ (work[j][u].pc # "write" /\ work'[j][u].pc # "write")
      BY <1>10, <3>2
    <3> QED
      BY <1>1, <3>1, <3>3, WholeKept
  <2> QED
    BY <1>1, <2>1, <2>2, <2>3 DEF Pictures
<1>13. Sessions'
  <2>1. Quiet(t, work'[i])
    BY <1>3, <1>4, <1>5, <1>10 DEF Quiet
  <2>2. ASSUME NEW j \in Task
        PROVE  /\ Good(sess'[j], bank', final', disk', imported') /\ Quiet(sess'[j], work'[j])
               /\ j \in Script => sess'[j].ok = TRUE
    <3>1. CASE j = i
      BY <1>1, <1>5, <1>7, <2>1, <3>1
    <3>2. CASE j # i
      BY <1>1, <1>2, <1>10, <3>2 DEF IInv, Sessions
    <3> QED
      BY <3>1, <3>2
  <2> QED
    BY <1>2, <2>2 DEF Sessions
<1> QED
  BY <1>11, <1>12, <1>13 DEF IInv

(***************************************************************************)
(* Commits and crashes.                                                    *)
(***************************************************************************)
(* A file that was read to its end under one name has all its questions seen. *)
LEMMA WholeFile ==
    ASSUME NEW s, NEW b, NEW d, NEW im, Shape(s), ReadToEnd(s), Filed(s, b, d, im),
           s.pc = "commit", s.ok, s.rd.kind = "file", s.src = s.listed
    PROVE  /\ s.src \in Name /\ s.held \in FileContent
           /\ \A m \in DOMAIN s.held.rows :
                 Gives(s.held, m) => SeenBy(s, b, KeyOf(s.src, s.held, m)) # NoRow
<1>1. s.rd.queue = <<>> /\ ~WantsPage(s.rd)
  BY DEF ReadToEnd, Drained
<1>2. s.src \in Name /\ s.rd.n = 1
  BY <1>1 DEF WantsPage, Filed, Shape
<1>3. /\ s.held \in FileContent
      /\ s.rd.row + Len(s.rd.queue) = Len(s.held.rows)
      /\ \A m \in 1..s.rd.row : Gives(s.held, m) =>
            SeenBy(s, b, KeyOf(s.src, s.held, m)) # NoRow
  BY <1>2 DEF Filed, Inserting
<1>4. Len(s.rd.queue) = 0 /\ s.rd.row \in Nat
  BY <1>1 DEF Shape
<1>5. DOMAIN s.held.rows = 1..s.rd.row
  BY <1>3, <1>4, RowsAreItems
<1> QED
  BY <1>2, <1>3, <1>5

(* What others see of a commit. *)
LEMMA CommitShows ==
    ASSUME IInv, NEW i \in Task, Commit(i)
    PROVE  /\ DOMAIN bank' = Key /\ \A k \in Key : bank'[k] = SeenBy(sess[i], bank, k)
           /\ \A k \in Key : bank[k] # NoRow => bank'[k] # NoRow
           /\ DOMAIN sess' = Task /\ sess'[i] = IdleTask
           /\ \A j \in Task \ {i} :
                 /\ sess'[j] = sess[j] \/ \E x : sess'[j] = [sess[j] EXCEPT !.raced = x]
                 /\ sess'[j].pc = sess[j].pc /\ sess'[j].urls = sess[j].urls
                 /\ sess'[j].ok = sess[j].ok /\ (sess[j].pc = "idle" => sess'[j] = sess[j])
           /\ imported \subseteq imported'
<1>1. Shape(sess[i])
  BY DEF IInv, Sessions, Good
<1>2. DOMAIN bank' = Key /\ \A k \in Key : bank'[k] = SeenBy(sess[i], bank, k)
  BY DEF Commit, Seen, SeenBy
<1>3. \A k \in Key : bank[k] # NoRow => bank'[k] # NoRow
  BY <1>1, <1>2 DEF SeenBy, Shape
<1>4. DOMAIN sess' = Task /\ sess'[i] = IdleTask
  BY DEF Commit
<1>5. ASSUME NEW j \in Task \ {i}
      PROVE  /\ sess'[j] = sess[j] \/ \E x : sess'[j] = [sess[j] EXCEPT !.raced = x]
             /\ sess'[j].pc = sess[j].pc /\ sess'[j].urls = sess[j].urls
             /\ sess'[j].ok = sess[j].ok /\ (sess[j].pc = "idle" => sess'[j] = sess[j])
  <2>1. DOMAIN sess[j] = SessionFields
    BY DEF IInv, Sessions, Good, Shape
  <2>2. CASE sess[j].pc = "idle"
    BY <2>2 DEF Commit, Running
  <2>3. CASE sess[j].pc # "idle"
    <3>1. sess'[j] = [sess[j] EXCEPT !.raced = @ \cup DOMAIN sess[i].put]
      BY <2>3 DEF Commit, Running
    <3>2. PICK x : sess'[j] = [sess[j] EXCEPT !.raced = x]
      BY <3>1
    <3> QED
      BY <2>1, <2>3, <3>2 DEF SessionFields
  <2> QED
    BY <2>2, <2>3
<1>6. imported \subseteq imported'
  BY DEF Commit
<1> QED
  BY <1>2, <1>3, <1>4, <1>5, <1>6

LEMMA CommitStep == ASSUME IInv, NEW i \in Task, Commit(i) PROVE IInv'
<1> DEFINE s == sess[i]
<1>1. /\ Good(s, bank, final, disk, imported) /\ Quiet(s, work[i]) /\ s.pc = "commit"
      /\ UNCHANGED <<disk, count>>
  BY DEF IInv, Sessions, Commit
<1>2. /\ part' = part /\ final' = final /\ MediaTypeOK'
      /\ \A j \in Task : \A u \in Url :
            work'[j][u] = IF j = i THEN Unused ELSE work[j][u]
      /\ Unused.pc = "idle"
  BY StoppedWorkers DEF Commit, IInv
<1>3. Tables'
  <2>1. \A k \in Key : bank'[k] # NoRow => OnDisk(final', bank'[k].path)
    BY <1>1, <1>2, CommitShows DEF SeenBy, Good, Backed, IInv, Tables
  <2>2. marks' \in Nat
    BY DEF Commit, IInv, Tables
  <2>3. Known(bank', imported')
    <3> SUFFICES ASSUME NEW e \in imported'
                 PROVE  /\ e[1] \in Name /\ e[2] \in FileContent /\ e = <<e[1], e[2]>>
                        /\ \A m \in DOMAIN e[2].rows :
                              Gives(e[2], m) => bank'[KeyOf(e[1], e[2], m)] # NoRow
      BY DEF Known
    <3>1. CASE e \in imported
      <4>1. /\ e[1] \in Name /\ e[2] \in FileContent /\ e = <<e[1], e[2]>>
            /\ \A m \in DOMAIN e[2].rows :
                  Gives(e[2], m) => bank[KeyOf(e[1], e[2], m)] # NoRow
        BY <3>1 DEF IInv, Tables, Known
      <4>2. \A m \in DOMAIN e[2].rows : Gives(e[2], m) => KeyOf(e[1], e[2], m) \in Key
        BY <4>1, GivenKey
      <4> QED
        BY <4>1, <4>2, CommitShows
    <3>2. CASE e \notin imported
      <4>1. s.ok /\ s.rd.kind = "file" /\ s.src = s.listed /\ e = <<s.src, s.held>>
        BY <3>2 DEF Commit
      <4>2. /\ s.src \in Name /\ s.held \in FileContent
            /\ \A m \in DOMAIN s.held.rows :
                  Gives(s.held, m) => SeenBy(s, bank, KeyOf(s.src, s.held, m)) # NoRow
        BY <1>1, <4>1, WholeFile DEF Good
      <4>3. \A m \in DOMAIN s.held.rows : Gives(s.held, m) => KeyOf(s.src, s.held, m) \in Key
        BY <4>2, GivenKey
      <4>4. \A m \in DOMAIN s.held.rows :
               Gives(s.held, m) => bank'[KeyOf(s.src, s.held, m)] # NoRow
        BY <4>2, <4>3, CommitShows
      <4> HIDE DEF s
      <4> QED
        BY <4>1, <4>2, <4>4
    <3> QED
      BY <3>1, <3>2
  <2> QED
    BY <1>1, <2>1, <2>2, <2>3, CommitShows DEF IInv, Tables
<1>4. Pictures'
  <2>1. \A j \in Task : \A u \in Url : work'[j][u].pc = "ok" => final'[u] # "none"
    BY <1>2 DEF IInv, Pictures
  <2>2. ASSUME count.crashes = 0, NEW u \in Url PROVE Whole(u)'
    <3>1. Whole(u)
      BY <2>2 DEF IInv, Pictures
    <3>2. work[i][u].pc # "write"
      BY <1>1 DEF Quiet
    <3>3. \A j \in Task : work'[j][u] = work[j][u]
                            \/ (work[j][u].pc # "write" /\ work'[j][u].pc # "write")
      BY <1>2, <3>2
    <3> QED
      BY <1>2, <3>1, <3>3, WholeKept
  <2> QED
    BY <1>1, <1>2, <2>1, <2>2 DEF Pictures
<1>5. Sessions'
  <2>1. ASSUME NEW j \in Task
        PROVE  /\ Good(sess'[j], bank', final', disk', imported') /\ Quiet(sess'[j], work'[j])
               /\ j \in Script => sess'[j].ok = TRUE
    <3>1. CASE j = i
      BY <1>2, <3>1, CommitShows, IdleGood, IdleShape DEF Quiet
    <3>2. CASE j # i
      <4>1. Good(sess[j], bank, final, disk, imported) /\ Quiet(sess[j], work[j])
        BY DEF IInv, Sessions
      <4>2. Good(sess'[j], bank', final', disk', imported')
        <5>1. /\ sess'[j] = sess[j] \/ \E x : sess'[j] = [sess[j] EXCEPT !.raced = x]
              /\ \A k \in Key : bank[k] # NoRow => bank'[k] # NoRow
              /\ imported \subseteq imported'
          BY <3>2, CommitShows
        <5>2. ASSUME NEW old, NEW t, Good(old, bank, final, disk, imported),
                     t = old \/ \E x : t = [old EXCEPT !.raced = x]
              PROVE  Good(t, bank', final, disk, imported')
          BY <5>1, <5>2, GoodKept
        <5> QED
          BY <1>1, <1>2, <4>1, <5>1, <5>2
      <4>3. Quiet(sess'[j], work'[j])
        <5>1. /\ sess'[j].pc = sess[j].pc /\ sess'[j].urls = sess[j].urls
              /\ sess[j].pc = "idle" => sess'[j] = sess[j]
          BY <3>2, CommitShows
        <5> QED
          BY <1>2, <3>2, <4>1, <5>1 DEF Quiet
      <4> QED
        BY <3>2, <4>2, <4>3, CommitShows DEF IInv, Sessions
    <3> QED
      BY <3>1, <3>2
  <2> QED
    BY <2>1, CommitShows DEF Sessions
<1> QED
  BY <1>3, <1>4, <1>5 DEF IInv

LEMMA CrashStep == ASSUME IInv, Crash PROVE IInv'
<1>1. PICK P \in {Panel} \cup {{i} : i \in Script} :
         /\ sess' = [i \in Task |-> IF i \in P THEN IdleTask ELSE sess[i]]
         /\ StopWorkers(P)
  BY DEF Crash
<1>2. P \in SUBSET Task /\ UNCHANGED <<bank, marks, disk, imported>>
  BY <1>1, MediaAssumption DEF Crash, Panel
<1>3. /\ part' = part /\ final' = final /\ MediaTypeOK'
      /\ \A j \in Task : \A u \in Url :
            work'[j][u] = IF j \in P THEN Unused ELSE work[j][u]
      /\ Unused.pc = "idle"
  BY <1>1, <1>2, StoppedWorkers DEF IInv
<1>4. count' = [count EXCEPT !.crashes = @ + 1] /\ count \in Counters
  BY DEF Crash, IInv, Tables
<1>5. count' \in Counters /\ count'.crashes # 0
  BY <1>4 DEF Counters
<1>6. Tables'
  BY <1>2, <1>3, <1>5 DEF IInv, Tables
<1>7. Pictures'
  BY <1>3, <1>5 DEF IInv, Pictures
<1>8. Sessions'
  <2>1. ASSUME NEW j \in Task
        PROVE  /\ Good(sess'[j], bank', final', disk', imported') /\ Quiet(sess'[j], work'[j])
               /\ j \in Script => sess'[j].ok = TRUE
    <3>1. CASE j \in P
      BY <1>1, <1>3, <3>1, IdleGood, IdleShape DEF Quiet
    <3>2. CASE j \notin P
      <4>1. sess'[j] = sess[j] /\ \A u \in Url : work'[j][u] = work[j][u]
        BY <1>1, <1>3, <3>2
      <4>2. Quiet(sess'[j], work'[j])
        BY <4>1 DEF IInv, Sessions, Quiet
      <4> QED
        BY <1>2, <1>3, <4>1, <4>2 DEF IInv, Sessions
    <3> QED
      BY <3>1, <3>2
  <2> QED
    BY <1>1, <2>1 DEF Sessions
<1> QED
  BY <1>6, <1>7, <1>8 DEF IInv

(***************************************************************************)
(* Imports begin, files are replaced.                                      *)
(***************************************************************************)
LEMMA StartFileStep == ASSUME IInv, NEW i \in Task, StartFile(i) PROVE IInv'
<1>1. PICK f \in Name :
        disk[f] # NoFile /\ \E name \in NamesOf(f, disk[f]) : Begin(i, name, f, "file")
  BY DEF StartFile
<1>2. disk \in [Name -> FileContent \cup {NoFile}] /\ count \in Counters
  BY DEF IInv, Tables
<1>3. disk[f] \in FileContent /\ NamesOf(f, disk[f]) \subseteq Name
  BY <1>1, <1>2, NamedSource DEF NamesOf
<1>4. /\ count' = [count EXCEPT !.imports = @ + 1]
      /\ UNCHANGED <<bank, marks, disk, imported, mediaVars>>
  BY DEF StartFile
<1>5. count' \in Counters /\ count'.crashes = count.crashes
  BY <1>2, <1>4 DEF Counters
<1>6. "file" \in Kind
  BY DEF Kind
<1> QED
  BY <1>1, <1>2, <1>3, <1>4, <1>5, <1>6, BeginStep

LEMMA StartUploadStep == ASSUME IInv, NEW i \in Task, StartUpload(i) PROVE IInv'
<1> DEFINE n == count.uploads + 1
<1>1. PICK f \in Stem, c \in FileContent :
        /\ \E name \in NamesOf(<<f, n>>, c) : Begin(i, name, <<f, n>>, "file")
        /\ disk' = [disk EXCEPT ![<<f, n>>] = c]
  BY DEF StartUpload
<1>2. disk \in [Name -> FileContent \cup {NoFile}] /\ count \in Counters
  BY DEF IInv, Tables
<1>3. n \in 1..MaxUploads
  BY <1>2, ImportAssumption DEF StartUpload, Counters
<1>4. <<f, n>> \in Name
  BY <1>3 DEF Name
<1>5. /\ count' = [count EXCEPT !.imports = @ + 1, !.uploads = @ + 1]
      /\ UNCHANGED <<bank, marks, imported, mediaVars>>
  BY DEF StartUpload
<1>6. count' \in Counters /\ count'.crashes = count.crashes
  <2>1. count' = [imports |-> count.imports + 1, uploads |-> count.uploads + 1,
                  edits |-> count.edits, crashes |-> count.crashes]
    BY <1>2, <1>5 DEF Counters
  <2> QED
    BY <1>2, <2>1 DEF Counters
<1> DEFINE file == <<f, n>>
<1>7. file \in Name /\ NamesOf(file, c) \subseteq Name /\ "file" \in Kind
  BY <1>4, NamedSource DEF NamesOf, Kind
<1>8. /\ \E name \in NamesOf(file, c) : Begin(i, name, file, "file")
      /\ disk' = [disk EXCEPT ![file] = c]
  BY <1>1
<1> HIDE DEF file
<1>9. /\ disk' \in [Name -> FileContent \cup {NoFile}] /\ disk'[file] \in FileContent
      /\ \A m \in Name : disk[m] \in FileContent => disk'[m] \in FileContent
  BY <1>2, <1>7, <1>8
<1> QED
  BY <1>5, <1>6, <1>7, <1>8, <1>9, BeginStep

LEMMA StartSiteStep == ASSUME IInv, NEW i \in Task, StartSite(i) PROVE IInv'
<1>1. PICK site \in DOMAIN Site : Begin(i, <<site, 0>>, <<>>, Site[site])
  BY DEF StartSite
<1>2. <<site, 0>> \in Name /\ Site[site] \in Kind /\ Site[site] # "file"
  BY ImportAssumption DEF Name, Kind
<1>3. disk \in [Name -> FileContent \cup {NoFile}] /\ count \in Counters
  BY DEF IInv, Tables
<1>4. /\ count' = [count EXCEPT !.imports = @ + 1]
      /\ UNCHANGED <<bank, marks, disk, imported, mediaVars>>
  BY DEF StartSite
<1>5. count' \in Counters /\ count'.crashes = count.crashes
  BY <1>3, <1>4 DEF Counters
<1> QED
  BY <1>1, <1>2, <1>3, <1>4, <1>5, BeginStep

LEMMA EditFileStep == ASSUME IInv, EditFile PROVE IInv'
<1>1. PICK n \in Name, c \in FileContent : disk[n] # NoFile /\ disk' = [disk EXCEPT ![n] = c]
  BY DEF EditFile
<1>2. /\ count' = [count EXCEPT !.edits = @ + 1]
      /\ UNCHANGED <<bank, marks, sess, imported, mediaVars>>
  BY DEF EditFile
<1>3. disk \in [Name -> FileContent \cup {NoFile}] /\ count \in Counters
  BY DEF IInv, Tables
<1>4. count' \in Counters /\ count'.crashes = count.crashes
  BY <1>2, <1>3 DEF Counters
<1>5. /\ disk' \in [Name -> FileContent \cup {NoFile}]
      /\ \A m \in Name : disk[m] \in FileContent => disk'[m] \in FileContent
  BY <1>1, <1>3
<1>6. Tables'
  BY <1>2, <1>4, <1>5 DEF IInv, Tables, mediaVars
<1>7. Pictures'
  BY <1>2, <1>4 DEF IInv, Pictures, mediaVars, MediaTypeOK, Whole, Writers
<1>8. Sessions'
  <2>1. ASSUME NEW j \in Task
        PROVE  Good(sess[j], bank, final, disk', imported)
    <3>1. Good(sess[j], bank, final, disk, imported)
      BY DEF IInv, Sessions
    <3> QED
      BY <1>5, <3>1, GoodKept
  <2> QED
    BY <1>2, <2>1 DEF IInv, Sessions, mediaVars
<1> QED
  BY <1>6, <1>7, <1>8 DEF IInv

(***************************************************************************)
(* Every step.                                                             *)
(***************************************************************************)
LEMMA WorkStep == ASSUME IInv, NEW i \in Task, Step(i) PROVE IInv'
<1>1. CASE ReadPage(i)
  BY <1>1, ReadPageStep
<1>2. CASE ReadFails(i)
  BY <1>2, ReadFailsStep
<1>3. CASE NextEntry(i)
  BY <1>3, NextEntryStep
<1>4. CASE Execute(i)
  BY <1>4, ExecuteStep
<1>5. CASE Collide(i)
  BY <1>5, AbortStep DEF Collide
<1>6. CASE DeadlockVictim(i)
  BY <1>6, AbortStep DEF DeadlockVictim
<1>7. CASE ReadDone(i)
  BY <1>7, ReadDoneStep
<1>8. CASE Download(i)
  BY <1>8, DownloadStep
<1>9. CASE Downloaded(i)
  BY <1>9, DownloadedStep
<1>10. CASE Attach(i)
  BY <1>10, AttachStep
<1>11. CASE Mark(i)
  BY <1>11, MarkStep
<1>12. CASE RenderFails(i)
  BY <1>12, AbortStep DEF RenderFails
<1>13. CASE Commit(i)
  BY <1>13, CommitStep
<1> QED
  BY <1>1, <1>2, <1>3, <1>4, <1>5, <1>6, <1>7, <1>8, <1>9, <1>10, <1>11, <1>12, <1>13
     DEF Step

LEMMA NextIInv == ASSUME IInv, [Next]_vars PROVE IInv'
<1>1. CASE UNCHANGED vars
  BY <1>1 DEF vars, importVars, mediaVars, IInv, Tables, Pictures, Sessions,
              MediaTypeOK, Whole, Writers
<1>2. ASSUME NEW i \in Task, StartFile(i) \/ StartUpload(i) \/ StartSite(i) \/ Step(i)
      PROVE  IInv'
  BY <1>2, StartFileStep, StartUploadStep, StartSiteStep, WorkStep
<1>3. CASE EditFile
  BY <1>3, EditFileStep
<1>4. CASE Crash
  BY <1>4, CrashStep
<1>5. CASE Quiescent
  BY <1>1, <1>5 DEF Quiescent
<1> QED
  BY <1>1, <1>2, <1>3, <1>4, <1>5 DEF Next

(* The strengthening holds in every reachable state, for any sources, tasks
   and bounds. *)
THEOREM Invariance == Spec => []IInv
<1>1. Init => IInv
  BY InitIInv
<1>2. IInv /\ [Next]_vars => IInv'
  BY NextIInv
<1> QED
  BY <1>1, <1>2, PTL DEF Spec

(***************************************************************************)
(* What the strengthening gives.                                           *)
(***************************************************************************)
(* Tables, picture files, workers and sessions keep their types. *)
THEOREM TypeCorrect == Spec => []TypeOK
<1>1. IInv => TypeOK
  <2> SUFFICES ASSUME IInv PROVE TypeOK
    OBVIOUS
  <2>1. MediaTypeOK /\ marks \in Nat /\ DOMAIN bank = Key /\ DOMAIN disk = Name
    BY DEF IInv, Tables, Pictures
  <2>2. /\ DOMAIN sess = Task
        /\ \A i \in Task : DOMAIN sess[i].put \subseteq Key /\ sess[i].urls \subseteq Url
    BY DEF IInv, Sessions, Good, Shape
  <2> QED
    BY <2>1, <2>2 DEF TypeOK
<1> QED
  BY <1>1, Invariance, PTL

(* A path is recorded with a question only when the picture is on disk, in the
   bank and in every open import, whatever failed or crashed. *)
THEOREM PathsBacked == Spec => []PathBacked
<1>1. IInv => PathBacked
  <2> SUFFICES ASSUME IInv PROVE PathBacked
    OBVIOUS
  <2>1. \A k \in Key : bank[k] # NoRow => OnDisk(final, bank[k].path)
    BY DEF IInv, Tables
  <2>2. \A i \in Task : \A k \in DOMAIN sess[i].put : OnDisk(final, sess[i].put[k].path)
    BY DEF IInv, Sessions, Good, Backed
  <2> QED
    BY <2>1, <2>2 DEF PathBacked, OnDisk
<1> QED
  BY <1>1, Invariance, PTL

(* Short of a crash a picture file is whole or still being written, however
   many imports fetch the same address and rename each other's .part file. *)
THEOREM PicturesWhole == Spec => []PictureWhole
<1>1. IInv => PictureWhole
  BY DEF IInv, Pictures, Whole, PictureWhole
<1> QED
  BY <1>1, Invariance, PTL

(* A file whose content was once imported under one name from its first read on
   creates no question when it is imported under that name again, also when
   imports of it overlap and whatever name its rows are listed by. *)
THEOREM SameFileOnce == Spec => []SameFileAddsNothing
<1>1. IInv => SameFileAddsNothing
  <2> SUFFICES ASSUME IInv, NEW i \in Task, sess[i].pc = "commit", sess[i].again
               PROVE  sess[i].created = 0
    BY DEF SameFileAddsNothing
  <2>1. Shape(sess[i]) /\ Filed(sess[i], bank, disk, imported)
    BY DEF IInv, Sessions, Good
  <2> QED
    BY <2>1 DEF Shape, Filed
<1> QED
  BY <1>1, Invariance, PTL

(* Only a commit changes the bank. *)
LEMMA BankChanges ==
    ASSUME Next, bank' # bank
    PROVE  \E i \in Task : Commit(i)
<1>1. \A i \in Task : ~(StartFile(i) \/ StartUpload(i) \/ StartSite(i))
  BY DEF StartFile, StartUpload, StartSite
<1>2. ~EditFile /\ ~Crash /\ ~Quiescent
  BY DEF EditFile, Crash, Quiescent, vars, importVars
<1>3. ASSUME NEW i \in Task, Step(i)
      PROVE  Commit(i)
  <2>1. ~ReadPage(i) /\ ~NextEntry(i) /\ ~Execute(i)
    BY DEF ReadPage, NextEntry, Execute
  <2>2. ~ReadFails(i)
    BY DEF ReadFails, SourceFails, PanelKeeps, ScriptDrops, Abort
  <2>3. ~Collide(i) /\ ~DeadlockVictim(i) /\ ~RenderFails(i)
    BY DEF Collide, DeadlockVictim, RenderFails, Abort
  <2>4. ~ReadDone(i) /\ ~Download(i) /\ ~Downloaded(i) /\ ~Attach(i) /\ ~Mark(i)
    BY DEF ReadDone, Download, Downloaded, Attach, Mark, importVars
  <2> QED
    BY <1>3, <2>1, <2>2, <2>3, <2>4 DEF Step
<1> QED
  BY <1>1, <1>2, <1>3 DEF Next

(* What the refresh script commits comes from a source whose iterator ended, of
   itself or after an error it tolerates: of one that raised it keeps nothing. *)
THEOREM ScriptsWhole == Spec => ScriptCommitsWhole
<1>1. IInv /\ [Next]_vars =>
        [ \A i \in Script : Running(i) /\ ~Running(i)' /\ bank' # bank => Drained(sess[i].rd) ]_vars
  <2> SUFFICES ASSUME IInv, Next, NEW i \in Script, Running(i), ~Running(i)', bank' # bank
               PROVE  Drained(sess[i].rd)
    OBVIOUS
  <2>1. i \in Task
    BY MediaAssumption
  <2>2. PICK j \in Task : Commit(j)
    BY BankChanges
  <2>3. j = i
    <3>1. \A x \in Task \ {j} : sess'[x].pc = sess[x].pc
      BY <2>2, CommitShows
    <3> QED
      BY <2>1, <3>1 DEF Running
  <2>4. sess[i].pc = "commit" /\ sess[i].ok /\ ReadToEnd(sess[i])
    BY <2>1, <2>2, <2>3 DEF Commit, IInv, Sessions, Good
  <2> QED
    BY <2>4 DEF ReadToEnd
<1> QED
  BY <1>1, Invariance, PTL DEF Spec, ScriptCommitsWhole
================================================================================
