----------------------------- MODULE QuestionImport -----------------------------
(***************************************************************************)
(* ImportService over the question bank.                                   *)
(*                                                                         *)
(* A task is one import: a press in the panel (a file of data/, an upload  *)
(* or a website) or scripts/refresh_questions.py (a website).  It runs in  *)
(* one PostgreSQL transaction at READ COMMITTED: it sees committed rows    *)
(* and its own, an UPDATE carries only the columns that differ from the    *)
(* object it had loaded, and a row or unique key written by an open        *)
(* transaction makes others wait.                                          *)
(*                                                                         *)
(* deactivate_missing is off in every caller, so rows stay active; the     *)
(* cached file_id is written by publishing.  Both are left out.            *)
(***************************************************************************)
EXTENDS QuestionReader, MediaCache

CONSTANTS
    Base,           \* names: of files (without extension), declared, and of websites
    Stem,           \* those of files
    Site,           \* [website name -> kind]
    Id,             \* ids a record can have, row numbers included
    FileContent,    \* what an operator's file may hold: [declared, rows]
    Page,           \* entry lists e-avtomaktab may answer with
    Ticket,         \* entry lists an avtotestu ticket may hold
    NoFile,
    MaxImports,     \* bound: imports started
    MaxUploads,     \* bound: files uploaded
    MaxEvents       \* bound: uploads, files replaced in data/ and crashes together

ASSUME ImportAssumption ==
    /\ Stem \subseteq Base /\ DOMAIN Site \subseteq Base
    /\ \A s \in DOMAIN Site : Site[s] \in {"eam", "avt"}
    /\ {MaxImports, MaxUploads, MaxEvents} \subseteq Nat

(* What the sources may hand over: pages of items, a file being one page. *)
Supply == {c.rows : c \in FileContent} \cup Page \cup Ticket
Item == UNION {{page[n] : n \in DOMAIN page} : page \in Supply}

ASSUME SupplyAssumption ==
    /\ Supply \subseteq Seq(Item)
    /\ \A e \in Item : e.id \in Id \cup {NoValue} /\ e.image \in Url \cup {NoUrl}
    /\ \A c \in FileContent :
          c.declared \in Base \cup {NoValue} /\ DOMAIN c.rows \subseteq Id

ASSUME RowsAssumption ==
    \A c \in FileContent : \A m \in DOMAIN c.rows : RowTyped(c.rows[m])

VARIABLES
    bank,       \* committed rows of questions, by (source, external_id)
    marks,      \* committed rows of settings for LAST_IMPORT_AT, owner NULL
    disk,       \* files of data/ by name
    sess,       \* per task: its transaction and the locals of import_source
    imported,   \* history: files imported whole, under the name their rows were
                \* looked up by, and committed: <<source name, content>>
    count       \* imports, uploads, edits and crashes so far

importVars == <<bank, marks, disk, sess, imported, count>>
vars == <<importVars, mediaVars>>

(* Source names: a stem, and the time stamp an upload adds to it. *)
Name == (Base \X {0}) \cup (Stem \X (1..MaxUploads))
Key == Name \X Id
Column == {"content", "url", "path"}
NoRow == [url |-> NoValue]
NoRows == [k \in {} |-> NoRow]
NoAsk == [op |-> "none"]

(* src: the source's name at present; listed: its name when get_existing_map
   read the rows it has; put: rows written, and locked, by the transaction;
   old: objects loaded; ask: the statement that comes next; todo: pictures to
   attach.  last, raced and again are history: what the source last gave per
   id, the ids others committed since, and whether this file content was
   imported before. *)
IdleTask == [pc |-> "idle", ok |-> TRUE, src |-> <<>>, listed |-> <<>>, file |-> <<>>,
             held |-> NoFile, rd |-> OpenReader("file"), put |-> NoRows, old |-> NoRows,
             ask |-> NoAsk, marked |-> "no", urls |-> {}, todo |-> {},
             created |-> 0, updated |-> 0, unchanged |-> 0, skipped |-> 0,
             last |-> NoRows, raced |-> {}, again |-> FALSE]

Panel == Task \ Script
Running(i) == sess[i].pc # "idle"
Events == count.uploads + count.edits + count.crashes
Seen(i, k) == IF k \in DOMAIN sess[i].put THEN sess[i].put[k] ELSE bank[k]

With(f, k, v) == [x \in DOMAIN f \cup {k} |-> IF x = k THEN v ELSE f[x]]
Proceed(i, s) == sess' = [sess EXCEPT ![i] = s]

--------------------------------------------------------------------------------
(* Row locks. *)

Holders(i) ==
    {j \in Task \ {i} : sess[i].pc = "ask" /\ sess[i].ask.key \in DOMAIN sess[j].put}
Granted(i) == Holders(i) = {}

(* i is on a cycle of transactions each waiting for the next. *)
Deadlocked(i) ==
    \E W \in SUBSET Task : i \in W /\ UNION {Holders(j) : j \in W} = W

--------------------------------------------------------------------------------
Init ==
    /\ bank = [k \in Key |-> NoRow]
    /\ marks \in {0, 1}
    /\ \E f \in Stem, c \in FileContent :
          disk = [n \in Name |-> IF n = <<f, 0>> THEN c ELSE NoFile]
    /\ sess = [i \in Task |-> IdleTask]
    /\ imported = {}
    /\ count = [imports |-> 0, uploads |-> 0, edits |-> 0, crashes |-> 0]
    /\ MediaInit

(* A source goes by the file's stem until a JSON file names it; each read of
   the file assigns the name again. *)
SourceName(name, c) == IF c.declared # NoValue THEN <<c.declared, 0>> ELSE name

(* import_source up to get_existing_map: the rows of the source as they are
   committed now, under the name it has now.  For a file count_estimate has read
   it once, or failed to and left the stem (NamesOf). *)
NamesOf(file, c) == {file, SourceName(file, c)}

Begin(i, name, file, kind) ==
    /\ ~Running(i) /\ count.imports < MaxImports
    /\ Proceed(i, [IdleTask EXCEPT
          !.pc = "read", !.src = name, !.listed = name,
          !.file = file, !.rd = OpenReader(kind),
          !.old = [k \in {x \in Key : x[1] = name /\ bank[x] # NoRow} |-> bank[k]]])

StartFile(i) ==
    /\ i \in Panel
    /\ \E f \in Name :
          /\ disk[f] # NoFile
          /\ \E name \in NamesOf(f, disk[f]) : Begin(i, name, f, "file")
    /\ count' = [count EXCEPT !.imports = @ + 1]
    /\ UNCHANGED <<bank, marks, disk, imported, mediaVars>>

(* receive_upload: the document is stored under its stem and the time. *)
StartUpload(i) ==
    /\ i \in Panel /\ count.uploads < MaxUploads /\ Events < MaxEvents
    /\ \E f \in Stem, c \in FileContent :
          LET file == <<f, count.uploads + 1>> IN
          /\ \E name \in NamesOf(file, c) : Begin(i, name, file, "file")
          /\ disk' = [disk EXCEPT ![file] = c]
    /\ count' = [count EXCEPT !.imports = @ + 1, !.uploads = @ + 1]
    /\ UNCHANGED <<bank, marks, imported, mediaVars>>

StartSite(i) ==
    /\ \E s \in DOMAIN Site : Begin(i, <<s, 0>>, <<>>, Site[s])
    /\ count' = [count EXCEPT !.imports = @ + 1]
    /\ UNCHANGED <<bank, marks, disk, imported, mediaVars>>

(* The operator puts another version of the file into data/. *)
EditFile ==
    /\ Events < MaxEvents
    /\ \E f \in Name, c \in FileContent :
          /\ f[2] = 0 /\ disk[f] \notin {NoFile, c}
          /\ disk' = [disk EXCEPT ![f] = c]
    /\ count' = [count EXCEPT !.edits = @ + 1]
    /\ UNCHANGED <<bank, marks, sess, imported, mediaVars>>

--------------------------------------------------------------------------------
(* How an import ends. *)

(* Rolled back: nothing of it remains but the files it downloaded. *)
Abort(i) ==
    /\ Proceed(i, IdleTask)
    /\ StopWorkers({i})
    /\ UNCHANGED <<bank, marks, disk, imported, count>>

(* Mutant: the script, too, commits what it has when a source fails. *)
SourceFails_Swallowed(i) ==
    /\ Proceed(i, [sess[i] EXCEPT !.pc = "commit", !.ok = FALSE])
    /\ UNCHANGED <<bank, marks, disk, imported, count, mediaVars>>

(* An exception from the source while the transaction is sound.  The panel's
   handler shows it and returns, so the middleware commits what was written;
   the script lets it leave db.session(), which rolls back. *)
PanelKeeps(i) ==
    /\ i \in Panel
    /\ Proceed(i, [sess[i] EXCEPT !.pc = "commit", !.ok = FALSE])
    /\ UNCHANGED <<bank, marks, disk, imported, count, mediaVars>>
ScriptDrops(i) == i \in Script /\ Abort(i)
SourceFails(i) == PanelKeeps(i) \/ ScriptDrops(i)

(* The panel's last message is refused, or lost: the exception leaves the
   handler, and the middleware rolls back. *)
RenderFails(i) == i \in Panel /\ sess[i].pc = "commit" /\ Abort(i)

Commit(i) ==
    /\ sess[i].pc = "commit"
    /\ bank' = [k \in Key |-> Seen(i, k)]
    /\ marks' = IF sess[i].marked = "inserted" THEN marks + 1 ELSE marks
    /\ sess' = [j \in Task |->
          IF j = i THEN IdleTask
          ELSE IF Running(j) THEN [sess[j] EXCEPT !.raced = @ \cup DOMAIN sess[i].put]
          ELSE sess[j]]
    /\ imported' = IF sess[i].ok /\ sess[i].rd.kind = "file" /\ sess[i].src = sess[i].listed
                   THEN imported \cup {<<sess[i].src, sess[i].held>>} ELSE imported
    /\ StopWorkers({i})
    /\ UNCHANGED <<disk, count>>

--------------------------------------------------------------------------------
(* Reading the source. *)

Reading(i) == sess[i].pc = "read"
Pages(i) ==
    CASE sess[i].rd.kind = "file" -> {disk[sess[i].file].rows}
      [] sess[i].rd.kind = "eam"  -> Page
      [] sess[i].rd.kind = "avt"  -> Ticket

ReadPage(i) ==
    /\ Reading(i) /\ WantsPage(sess[i].rd)
    /\ \E page \in Pages(i) :
          LET next == [sess[i] EXCEPT !.rd = TurnPage(@, page)]
              file == disk[next.file]
              name == SourceName(next.src, file)
          IN Proceed(i, IF next.rd.kind = "file"
                        THEN [next EXCEPT !.held = file, !.src = name,
                                          !.again = <<name, file>> \in imported]
                        ELSE next)
    /\ UNCHANGED <<bank, marks, disk, imported, count, mediaVars>>

ReadFails(i) ==
    /\ Reading(i) /\ WantsPage(sess[i].rd)
    /\ \E mishap \in IF sess[i].rd.kind = "file" THEN {"unreadable"} ELSE Mishap :
          \/ /\ Outcome(sess[i].rd, mishap) = "tolerated"
             /\ Proceed(i, [sess[i] EXCEPT !.rd = Tolerate(@)])
             /\ UNCHANGED <<bank, marks, disk, imported, count, mediaVars>>
          \/ Outcome(sess[i].rd, mishap) # "tolerated" /\ SourceFails(i)

(* A statement on row key: insert the values, or write these columns. *)
Insert(k, row) == [op |-> "insert", key |-> k, cols |-> Column, row |-> row, then |-> "read"]
Update(k, row, cols, then) ==
    [op |-> "update", key |-> k, cols |-> cols, row |-> row, then |-> then]
Apply(row, ask) == [c \in Column |-> IF c \in ask.cols THEN ask.row[c] ELSE row[c]]

(* The object upsert works on: the one loaded with the source, or what
   get_by_external_id finds now. *)
Existing(i, k) == IF k \in DOMAIN sess[i].old THEN sess[i].old[k] ELSE Seen(i, k)

(* Mutant: content is compared by its text alone. *)
SameContent_TextOnly(row, q) == row.content.text = q.text

SameContent(row, q) == row.content = Content(q)

NewUrl(row, q) == q.image # NoUrl /\ q.image # row.url

(* Columns that new content assigns: a new address drops the picture too.
   With the same content only the address is repaired. *)
Changed(row, q) ==
    {"content"} \cup (IF NewUrl(row, q) THEN {"url"} ELSE {})
                \cup (IF NewUrl(row, q) /\ row.path # NoUrl THEN {"path"} ELSE {})
RowOf(q) == [content |-> Content(q), url |-> q.image, path |-> NoUrl]

(* Mutant: rows are kept under the file's name, whatever name it declares. *)
RowKey_ByFile(s, q) == <<IF s.file = <<>> THEN s.src ELSE s.file, q.id>>

(* The unique (source, external_id) of questions.  The rows listed are looked up
   by external_id alone, whatever the source is called by now. *)
RowKey(s, q) ==
    IF <<s.listed, q.id>> \in DOMAIN s.old THEN <<s.listed, q.id>> ELSE <<s.src, q.id>>

(* upsert(q): the action is counted, the object kept, and the statement to
   flush, if there is one, comes next. *)
Upsert(i, q, s) ==
    \E k \in {RowKey(s, q)} : \E row \in {Existing(i, k)} :
      LET told == [s EXCEPT !.last = With(@, k, [content |-> Content(q), url |-> q.image,
                                                 given |-> Head(sess[i].rd.queue)]),
                            !.urls = @ \cup ({q.image} \ {NoUrl})]
          known == [told EXCEPT !.old = With(@, k, row)]
      IN \/ /\ row = NoRow
            /\ Proceed(i, [told EXCEPT !.created = @ + 1, !.pc = "ask",
                                       !.ask = Insert(k, RowOf(q))])
         \/ /\ row # NoRow /\ ~SameContent(row, q)
            /\ Proceed(i, [known EXCEPT !.updated = @ + 1, !.pc = "ask",
                                        !.ask = Update(k, RowOf(q), Changed(row, q), "read")])
         \/ /\ row # NoRow /\ SameContent(row, q) /\ NewUrl(row, q)
            /\ Proceed(i, [known EXCEPT !.unchanged = @ + 1, !.pc = "ask",
                                        !.ask = Update(k, RowOf(q), {"url"}, "read")])
         \/ /\ row # NoRow /\ SameContent(row, q) /\ ~NewUrl(row, q)
            /\ Proceed(i, [known EXCEPT !.unchanged = @ + 1])

(* The next record of the page: yielded, or dropped.  A file's reader keeps
   the errors of the rows it drops. *)
NextEntry(i) ==
    LET rd == sess[i].rd IN
    /\ Reading(i) /\ rd.queue # <<>>
    /\ \E q \in {Yielded(rd)}, s \in {[sess[i] EXCEPT !.rd = TakeEntry(rd)]} :
          \/ q # Invalid /\ Upsert(i, q, s)
          \/ /\ q = Invalid
             /\ Proceed(i, [s EXCEPT !.skipped = IF rd.kind = "file" THEN @ + 1 ELSE @])
    /\ UNCHANGED <<bank, marks, disk, imported, count, mediaVars>>

(* The statement runs once no other transaction holds the row. *)
Execute(i) ==
    LET a   == sess[i].ask
        row == IF a.op = "insert" THEN a.row ELSE Apply(Seen(i, a.key), a)
    IN /\ sess[i].pc = "ask" /\ Granted(i)
       /\ a.op = "insert" => Seen(i, a.key) = NoRow
       /\ Proceed(i, [sess[i] EXCEPT
             !.put = With(@, a.key, row), !.ask = NoAsk, !.pc = a.then,
             !.old = With(@, a.key, IF a.key \in DOMAIN @ THEN Apply(@[a.key], a) ELSE row)])
       /\ UNCHANGED <<bank, marks, disk, imported, count, mediaVars>>

(* Another import committed that external_id after it was looked up: the
   unique index fails the flush, and with it the transaction.  The panel's
   handler returns, but the commit after it is refused. *)
Collide(i) ==
    /\ sess[i].pc = "ask" /\ Granted(i)
    /\ sess[i].ask.op = "insert" /\ Seen(i, sess[i].ask.key) # NoRow
    /\ Abort(i)

(* One of those that wait is cancelled. *)
DeadlockVictim(i) == sess[i].pc = "ask" /\ Deadlocked(i) /\ Abort(i)

--------------------------------------------------------------------------------
(* Pictures, the mark, the end. *)

ReadDone(i) ==
    /\ Reading(i) /\ Drained(sess[i].rd)
    /\ Proceed(i, [sess[i] EXCEPT !.pc = IF sess[i].urls = {} THEN "finish" ELSE "media"])
    /\ StartWorkers(i, sess[i].urls)
    /\ UNCHANGED <<bank, marks, disk, imported, count, part, final>>

Download(i) ==
    /\ sess[i].pc = "media"
    /\ \E u \in sess[i].urls : MediaStep(i, u)
    /\ UNCHANGED importVars

(* list_missing_images: rows with an address and no picture. *)
Missing(i) ==
    {k \in Key : /\ Seen(i, k) # NoRow
                 /\ Seen(i, k).url # NoUrl /\ Seen(i, k).path = NoUrl}

(* Mutant: pictures whose download failed are attached too. *)
Attachable_Failed(i) ==
    {t \in Missing(i) \X sess[i].urls : Existing(i, t[1]).url = t[2]}

(* Grouped by the address of the object, which a session that had loaded it
   keeps; for the downloads that worked. *)
Attachable(i) ==
    {t \in Missing(i) \X sess[i].urls :
        Existing(i, t[1]).url = t[2] /\ work[i][t[2]].pc = "ok"}

Downloaded(i) ==
    /\ sess[i].pc = "media" /\ \A u \in sess[i].urls : Settled(i, u)
    /\ Proceed(i, [sess[i] EXCEPT !.pc = "attach", !.todo = Attachable(i)])
    /\ UNCHANGED <<bank, marks, disk, imported, count, mediaVars>>

(* set_image, question by question. *)
Attach(i) ==
    /\ sess[i].pc = "attach"
    /\ \/ \E t \in sess[i].todo :
             Proceed(i, [sess[i] EXCEPT
                !.todo = @ \ {t}, !.pc = "ask",
                !.ask = Update(t[1], [path |-> t[2]], {"path"}, "attach")])
       \/ sess[i].todo = {} /\ Proceed(i, [sess[i] EXCEPT !.pc = "finish"])
    /\ UNCHANGED <<bank, marks, disk, imported, count, mediaVars>>

(* set_raw for LAST_IMPORT_AT on the installation-wide layer. *)
Mark(i) ==
    /\ sess[i].pc = "finish"
    /\ \/ marks = 0 /\ Proceed(i, [sess[i] EXCEPT !.pc = "commit", !.marked = "inserted"])
       \/ /\ marks > 0 /\ \A j \in Task : sess[j].marked # "updated"
          /\ Proceed(i, [sess[i] EXCEPT !.pc = "commit", !.marked = "updated"])
    /\ UNCHANGED <<bank, marks, disk, imported, count, mediaVars>>

(* The bot, or a script, dies. *)
Crash ==
    /\ Events < MaxEvents
    /\ \E P \in {Panel} \cup {{i} : i \in Script} :
          /\ \E i \in P : Running(i)
          /\ sess' = [i \in Task |-> IF i \in P THEN IdleTask ELSE sess[i]]
          /\ StopWorkers(P)
    /\ count' = [count EXCEPT !.crashes = @ + 1]
    /\ UNCHANGED <<bank, marks, disk, imported>>

Step(i) ==
    \/ ReadPage(i) \/ ReadFails(i) \/ NextEntry(i)
    \/ Execute(i) \/ Collide(i) \/ DeadlockVictim(i)
    \/ ReadDone(i) \/ Download(i) \/ Downloaded(i) \/ Attach(i) \/ Mark(i)
    \/ RenderFails(i) \/ Commit(i)

(* All the imports the bound allows are over. *)
Quiescent ==
    /\ count.imports = MaxImports /\ \A i \in Task : ~Running(i)
    /\ UNCHANGED vars

Next ==
    \/ \E i \in Task : StartFile(i) \/ StartUpload(i) \/ StartSite(i)
                        \/ Step(i)
    \/ EditFile \/ Crash \/ Quiescent

Spec == Init /\ [][Next]_vars

(* The event loop serves every running import, requests and writes end, and
   PostgreSQL detects deadlocks. *)
Fairness == \A i \in Task : WF_vars(Step(i))

FairSpec == Spec /\ Fairness

--------------------------------------------------------------------------------
TypeOK ==
    /\ MediaTypeOK
    /\ marks \in Nat /\ DOMAIN bank = Key /\ DOMAIN disk = Name /\ DOMAIN sess = Task
    /\ \A i \in Task : DOMAIN sess[i].put \subseteq Key /\ sess[i].urls \subseteq Url

(* The counts shown to the operator are true: "created" is the number of rows
   this import inserts, a website's question is counted once however often it
   was served, and every row of a file is counted or reported as skipped. *)
CountsAddUp ==
    \A i \in Task : Running(i) =>
        LET s == sess[i]
            kept == s.created + s.updated + s.unchanged
        IN /\ s.created = Cardinality({k \in DOMAIN s.put : bank[k] = NoRow})
                          + (IF s.ask.op = "insert" THEN 1 ELSE 0)
           /\ IF s.rd.kind = "file" THEN kept + s.skipped = s.rd.row
                                    ELSE kept = Cardinality(DOMAIN s.last)

(* What a successful import reports is in the bank when it commits: every
   question holds the content its source gave last, has the picture's address
   and, if the download worked, a picture.  It does so under the source's name
   or, where the name changed between the two reads of a file, under the name
   its rows were listed by (_read_records).  Rows another import committed
   meanwhile are excepted: there the later statement wins. *)
ReportedIsStored ==
    \A i \in Task : sess[i].pc = "commit" /\ sess[i].ok =>
        \A k \in DOMAIN sess[i].last \ sess[i].raced :
            LET row == Seen(i, k)
                given == sess[i].last[k]
            IN /\ k[1] \in {sess[i].src, sess[i].listed}
               /\ row.content = given.content
               /\ given.url # NoUrl =>
                     /\ row.url = given.url
                     /\ work[i][given.url].pc = "ok" => row.path # NoUrl

(* The options as laid out by the author, empty ones in their places, and the
   position the author marked. *)
Supplied(r) ==
    CASE r.options # NoValue -> r.options
      [] r.options = NoValue /\ r.cell # NoValue /\ Len(NonBlank(r.cell)) >= 2 -> r.cell
      [] OTHER -> IF Columns(r.numbered) # <<>> THEN r.numbered ELSE r.lettered
Marked(r) ==
    IF r.index # NoValue THEN r.index + 1
    ELSE IF IsKind(r, "letter") THEN r.correct.at + 1 ELSE r.correct.at
GivesPosition(r) == r.index # NoValue \/ IsKind(r, "letter") \/ IsKind(r, "number")
MarksOneOf(r, options) == GivesPosition(r) /\ Marked(r) \in DOMAIN options
GaplessUpTo(m, options) == \A p \in 1..m : options[p] \in Label \ {Blank}

StoresMarked(r, options, content) ==
    content.options[content.correct + 1] = Clip[options[Marked(r)]]

(* "3 or C: third option": where a file marks the answer by position and no
   option up to that one is empty, the option stored as correct is the marked
   one (_extract_options, _resolve_correct_index). *)
AnswerAsMarked ==
    \A i \in Task : Running(i) /\ sess[i].rd.kind = "file" =>
        \A k \in DOMAIN sess[i].last :
            LET r == sess[i].last[k].given
                options == Supplied(r)
            IN MarksOneOf(r, options) /\ GaplessUpTo(Marked(r), options)
                  => StoresMarked(r, options, sess[i].last[k].content)

(* "Three spellings are accepted, and they mean different things", and a
   "value out of range" is refused: every record a file's import commits with a
   position marked has an option at that position, and it is the one stored as
   correct - records with empty options and letters beyond the options included
   (_resolve_correct_index). *)
AnswerAlwaysAsMarked ==
    \A i \in Task : sess[i].pc = "commit" /\ sess[i].rd.kind = "file" =>
        \A k \in DOMAIN sess[i].last :
            LET r == sess[i].last[k].given
                content == sess[i].last[k].content
            IN GivesPosition(r) => /\ MarksOneOf(r, Supplied(r))
                                   /\ content.correct + 1 \in DOMAIN content.options
                                   /\ StoresMarked(r, Supplied(r), content)

(* A question's picture is on disk: a path is recorded only after the file has
   its name, whatever fails or crashes in between (download, _fetch_images). *)
PathBacked ==
    /\ \A k \in Key : bank[k] # NoRow /\ bank[k].path # NoUrl => final[bank[k].path] # "none"
    /\ \A i \in Task : \A k \in DOMAIN sess[i].put :
          sess[i].put[k].path # NoUrl => final[sess[i].put[k].path] # "none"

(* "An interrupted download must not leave a truncated file that later looks
   like a valid cache hit": short of a crash a picture is whole, or a worker is
   still writing to it, also when several imports fetch the same address. *)
PictureWhole ==
    count.crashes = 0 =>
        \A u \in Url : final[u] \in {"none", "full"} \/ Writers(u, "final") # {}

(* "Every source failed; the bank is unchanged": what the refresh script
   commits comes from a source whose iterator has ended, the early end after a
   tolerated error included, and never from one that raised. *)
ScriptCommitsWhole ==
    [][ \A i \in Script : Running(i) /\ ~Running(i)' /\ bank' # bank
                            => Drained(sess[i].rd) ]_vars

(* Every import ends: page loops, retries, the semaphore, waits for rows and
   deadlocks included. *)
ImportEnds == \A i \in Task : []<>~Running(i)

(* "Running it twice over the same file changes nothing": once a file's content
   has been imported under one name from its first read on, another import of
   that content under that name creates no question, also when the two overlap,
   come from different files that declare the name, or the second lists the
   rows of another name first (upsert). *)
SameFileAddsNothing ==
    \A i \in Task : sess[i].pc = "commit" /\ sess[i].again => sess[i].created = 0
================================================================================
