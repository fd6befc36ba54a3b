---------------------------- MODULE QuestionRecords ----------------------------
(***************************************************************************)
(* From what a source supplies to a validated question.                    *)
(*                                                                         *)
(* A record is one row of a file or one object of a JSON list; an entry is *)
(* one question of a website, turned into a record first.  Texts are       *)
(* opaque; Clip and Fold say what normalising and case-folding do to them. *)
(* Explanation, category, language and links are carried along unchecked   *)
(* and left out.                                                           *)
(***************************************************************************)
EXTENDS Integers, Sequences, FiniteSets

CONSTANTS
    Label,      \* option texts as supplied
    Blank,      \* the one that is empty once stripped
    NoneText,   \* what str(None) is
    Clip,       \* normalize_for_poll: collapse whitespace, cut at the limit
    Fold,       \* collapse_whitespace(...).casefold()
    NoValue,    \* a field or cell that holds nothing
    Absent      \* a column the record does not have

ASSUME LabelAssumption ==
    /\ {Blank, NoneText} \subseteq Label /\ Blank # NoneText
    /\ NoValue \notin Label /\ Absent \notin Label
ASSUME ClipAssumption == Clip \in [Label -> Label] /\ Fold \in [Label -> Label]

MIN_OPTIONS == 2
MAX_OPTIONS == 10
NoIndex == -1
Invalid == [id |-> NoValue]

(* The options that are not empty, in their order. *)
NonBlank(labels) ==
    LET kept[n \in 0..Len(labels)] ==
            IF n = 0 THEN <<>>
            ELSE IF labels[n] = Blank THEN kept[n - 1]
            ELSE Append(kept[n - 1], labels[n])
    IN kept[Len(labels)]

(* A row or object as the reader of a file hands it over. *)
RowTyped(r) ==
    /\ {r.options, r.cell} \subseteq {NoValue} \cup Seq(Label)
    /\ {r.numbered, r.lettered} \subseteq Seq(Label \cup {NoValue, Absent})
    /\ r.index \in {NoValue} \cup Int
    /\ r.correct # NoValue => r.correct.at \in Int

(* Flat layouts: str(record[key]) of every column that exists, so that an
   empty cell of a worksheet, None, reads "None". *)
Columns(cells) ==
    NonBlank([i \in DOMAIN cells |->
                 CASE cells[i] = Absent  -> Blank
                   [] cells[i] = NoValue -> NoneText
                   [] OTHER              -> cells[i]])

(* A list wins; then a cell that splits into at least two parts; then the
   numbered columns; then a, b, c, d. *)
ExtractOptions(r) ==
    CASE r.options # NoValue -> NonBlank(r.options)
      [] r.options = NoValue /\ r.cell # NoValue /\ Len(NonBlank(r.cell)) >= 2 ->
             NonBlank(r.cell)
      [] OTHER -> IF Columns(r.numbered) # <<>> THEN Columns(r.numbered)
                                               ELSE Columns(r.lettered)

InRange(i, options) == i \in 0..(Len(options) - 1)
IfInRange(i, options) == IF InRange(i, options) THEN i ELSE NoIndex

(* The first option with the given text, ignoring case and spacing. *)
MatchText(text, options) ==
    LET hits == {i \in DOMAIN options : Fold[options[i]] = Fold[text]} IN
    IF hits = {} THEN NoIndex
    ELSE (CHOOSE i \in hits : \A j \in hits : i <= j) - 1

IsKind(r, kind) == r.correct # NoValue /\ r.correct.kind = kind

(* Mutant: a letter or number is read one too low. *)
ResolveCorrectIndex_OffByOne(r, options) ==
    CASE r.index # NoValue      -> IfInRange(r.index, options)
      [] r.index = NoValue /\ IsKind(r, "letter") -> r.correct.at
      [] r.index = NoValue /\ IsKind(r, "number") -> IfInRange(r.correct.at, options)
      [] OTHER -> NoIndex

(* Three spellings in this order.  A letter is the position of that letter
   among a to d and is not compared with the number of options; anything in
   the one-based field that is neither letter nor number is matched as text,
   after the field meant for text.  at is zero-based for a letter. *)
ResolveCorrectIndex(r, options) ==
    CASE r.index # NoValue      -> IfInRange(r.index, options)
      [] r.index = NoValue /\ IsKind(r, "letter") -> r.correct.at
      [] r.index = NoValue /\ IsKind(r, "number") -> IfInRange(r.correct.at - 1, options)
      [] OTHER ->
            IF r.answer # NoValue THEN MatchText(r.answer, options)
            ELSE IF r.correct # NoValue THEN MatchText(r.correct.text, options)
            ELSE NoIndex

DistinctOptions(options) ==
    Cardinality({Fold[options[i]] : i \in DOMAIN options}) = Len(options)

(* parse_record: the validated question, or Invalid.  fallback is the row
   number for files and NoValue for websites. *)
ParseRecord(r, fallback) ==
    LET found   == ExtractOptions(r)
        options == [i \in DOMAIN found |-> Clip[found[i]]]
        id      == IF r.id # NoValue THEN r.id ELSE fallback
        correct == ResolveCorrectIndex(r, options)
        sound   == /\ r.text # NoValue
                   /\ Len(found) \in MIN_OPTIONS..MAX_OPTIONS
                   /\ \A i \in DOMAIN options : options[i] # Blank
                   /\ DistinctOptions(options)
                   /\ correct # NoIndex
                   /\ id # NoValue
    IN IF sound
       THEN [id |-> id, text |-> r.text, options |-> options,
             correct |-> correct, image |-> r.image]
       ELSE Invalid

(* _to_record of either website: blank answers are dropped, the first answer
   marked right counts, and an entry without text, without a right answer or
   with too few or too many answers makes no record. *)
Kept(entry) == SelectSeq(entry.answers, LAMBDA a : a.label # Blank)
Right(entry) == {i \in DOMAIN Kept(entry) : Kept(entry)[i].right}
WebRecord(entry) ==
    IF /\ entry.text # NoValue /\ Right(entry) # {}
       /\ Len(Kept(entry)) \in MIN_OPTIONS..MAX_OPTIONS
    THEN [id |-> entry.id, text |-> entry.text, image |-> entry.image,
          options |-> [i \in DOMAIN Kept(entry) |-> Kept(entry)[i].label],
          cell |-> NoValue, numbered |-> <<>>, lettered |-> <<>>,
          index |-> (CHOOSE i \in Right(entry) : \A j \in Right(entry) : i <= j) - 1,
          correct |-> NoValue, answer |-> NoValue]
    ELSE NoValue

(* What compute_content_hash tells apart. *)
Content(q) == [text |-> q.text, options |-> q.options, correct |-> q.correct]
================================================================================
