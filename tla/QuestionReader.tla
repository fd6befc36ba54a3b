----------------------------- MODULE QuestionReader -----------------------------
(***************************************************************************)
(* The three kinds of source as iterators.  A reader is the state of one   *)
(* fetch() generator: it asks for a page (a file is one page, e-avtomaktab *)
(* a random selection per request, avtotestu one ticket per number) and    *)
(* hands over the questions of the page one by one.                        *)
(***************************************************************************)
EXTENDS QuestionRecords

CONSTANTS
    MaxRequests,    \* max_requests of e-avtomaktab, 120 in the code
    BarrenRounds,   \* stop_after_barren_rounds, 12 in the code
    MaxVariant      \* max_variant of avtotestu, 63 in the code

ASSUME ReaderAssumption ==
    {MaxRequests, BarrenRounds, MaxVariant} \subseteq Nat \ {0}

Kind == {"file", "eam", "avt"}

(* n: pages asked for; barren, fresh: fruitless rounds before this page, and
   whether this page brought anything new; seen: ids met; queue: what is left
   of the page; row: entries taken from it; over: stopped early. *)
OpenReader(kind) == [kind |-> kind, n |-> 0, barren |-> 0, fresh |-> FALSE,
                     seen |-> {}, queue |-> <<>>, row |-> 0, over |-> FALSE]

Barren(rd) == IF rd.n = 0 \/ rd.fresh THEN 0 ELSE rd.barren + 1

WantsPage(rd) ==
    /\ rd.queue = <<>> /\ ~rd.over
    /\ \/ rd.kind = "file" /\ rd.n = 0
       \/ rd.kind = "eam" /\ rd.n < MaxRequests /\ Barren(rd) < BarrenRounds
       \/ rd.kind = "avt" /\ rd.n < MaxVariant

Drained(rd) == rd.queue = <<>> /\ ~WantsPage(rd)

(* A page arrived. *)
TurnPage(rd, page) ==
    [rd EXCEPT !.n = @ + 1, !.barren = Barren(rd), !.fresh = FALSE,
               !.queue = page, !.row = 0]

(* What a request may bring when it brings no entries: a transport error; a
   body without readable questions (bad file, no or broken array, not a list,
   no such ticket); or a timeout, which is no ClientError. *)
Mishap == {"transport", "unreadable", "timeout"}

(* "source": SourceError, the fetch is over; "unexpected": an exception the
   source does not know; "tolerated": keep what there is. *)
Outcome(rd, mishap) ==
    CASE mishap = "timeout" -> "unexpected"
      [] rd.kind = "file" -> "source"
      [] rd.kind = "eam" -> IF mishap = "unreadable" \/ rd.seen = {} THEN "source"
                                                                   ELSE "tolerated"
      [] rd.kind = "avt" -> IF rd.n = 0 THEN "source" ELSE "tolerated"

(* e-avtomaktab stops there, avtotestu goes on with the next ticket. *)
Tolerate(rd) == IF rd.kind = "eam" THEN [rd EXCEPT !.over = TRUE]
                                   ELSE TurnPage(rd, <<>>)

(* The id under which a page's entry counts as met: e-avtomaktab looks before
   it builds the record, avtotestu after. *)
IdOf(rd, entry) ==
    IF rd.kind = "avt" /\ WebRecord(entry) = NoValue THEN NoValue ELSE entry.id

Fresh(rd, entry) ==
    rd.kind = "file" \/ (IdOf(rd, entry) # NoValue /\ IdOf(rd, entry) \notin rd.seen)

(* Mutant: ids are remembered per page only. *)
TakeEntry_ForgetsSeen(rd) ==
    LET entry == Head(rd.queue)
        rest  == [rd EXCEPT !.queue = Tail(@), !.row = @ + 1]
    IN IF rd.kind # "file" /\ Fresh(rd, entry)
       THEN [rest EXCEPT !.seen = {IdOf(rd, entry)}, !.fresh = TRUE]
       ELSE rest

(* The reader after its next entry. *)
TakeEntry(rd) ==
    LET entry == Head(rd.queue)
        rest  == [rd EXCEPT !.queue = Tail(@), !.row = @ + 1]
    IN IF rd.kind # "file" /\ Fresh(rd, entry)
       THEN [rest EXCEPT !.seen = @ \cup {IdOf(rd, entry)}, !.fresh = TRUE]
       ELSE rest

(* The question it yields for that entry; Invalid when it yields none.  A
   file's row number is the id of a row without one. *)
Yielded(rd) ==
    LET entry == Head(rd.queue) IN
    CASE rd.kind = "file" -> ParseRecord(entry, rd.row + 1)
      [] rd.kind # "file" /\ Fresh(rd, entry) /\ WebRecord(entry) # NoValue ->
             ParseRecord(WebRecord(entry), NoValue)
      [] OTHER -> Invalid
================================================================================
