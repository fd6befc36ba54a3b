---------------------------- MODULE MCQuestionImport ----------------------------
(***************************************************************************)
(* Small instances of QuestionImport for TLC.                              *)
(***************************************************************************)
EXTENDS QuestionImport, TLC

CONSTANTS nothing, absent, nofile, nourl, pic, sig, ftp, bot1, cron

Labels == {"", "None", "A", "a", "B", "C", "Clong"}
Clipped == [l \in Labels |-> IF l = "Clong" THEN "C" ELSE l]
Folded == [l \in Labels |-> IF l = "a" THEN "A" ELSE l]

Rec(id, text) ==
    [id |-> id, text |-> text, options |-> nothing, cell |-> nothing,
     numbered |-> <<>>, lettered |-> <<>>, index |-> nothing,
     correct |-> nothing, answer |-> nothing, image |-> nourl]
ByNumber(n) == [kind |-> "number", at |-> n, text |-> "None"]
ByLetter(n) == [kind |-> "letter", at |-> n, text |-> "None"]
ByText(l) == [kind |-> "text", at |-> 0, text |-> l]

(* A worksheet row without an id, with a cell of one part and columns left
   empty; a row that names its answer in words; one that marks it by letter; one
   whose options share a cell; one with two equal options, which is dropped; one
   whose first option is empty, and one that marks a letter it has no option
   for. *)
SheetRow == [Rec(nothing, "q1") EXCEPT !.cell = <<"B">>, !.index = 0, !.image = ftp,
                                       !.numbered = <<"A", nothing, absent>>]
TextRow == [Rec(1, "q1") EXCEPT !.options = <<"A", "B">>, !.answer = "a", !.image = pic]
LetterRow == [Rec(2, "q2") EXCEPT !.lettered = <<"A", "B", "Clong", "">>, !.correct = ByLetter(2),
                              !.image = sig]
CellRow == [Rec(2, "q2") EXCEPT !.cell = <<"B", "A">>, !.correct = ByNumber(1)]
TwinRow == [Rec(2, "q2") EXCEPT !.options = <<"A", "a">>, !.correct = ByText("A")]
GapRow == [Rec(1, "q1") EXCEPT !.numbered = <<"", "A", "B">>, !.correct = ByNumber(2)]
OverRow == [Rec(2, "q2") EXCEPT !.lettered = <<"A", "B">>, !.correct = ByLetter(3)]

FileA == [declared |-> nothing, rows |-> <<TextRow, LetterRow>>]
FileB == [declared |-> "set", rows |-> <<SheetRow, CellRow, TwinRow>>]
FileGap == [declared |-> nothing, rows |-> <<GapRow, OverRow>>]
GapFiles == {FileGap}

Answer(l, right) == [label |-> l, right |-> right]
Entry(id, text, image, answers) ==
    [id |-> id, text |-> text, image |-> image, answers |-> answers]
Sign == Entry(1, "s1", pic, <<Answer("A", FALSE), Answer("", TRUE), Answer("B", TRUE)>>)
SignNew == Entry(1, "s2", pic, <<Answer("A", TRUE), Answer("B", TRUE)>>)
Rule == Entry(2, "r1", nourl, <<Answer("B", TRUE), Answer("C", FALSE)>>)
Broken == Entry(2, "r1", nourl, <<Answer("B", FALSE), Answer("C", FALSE)>>)

Sites == [eam |-> "eam", avt |-> "avt"]
Files == {FileA, FileB}
Pages1 == {<<Sign, Rule>>, <<Rule, SignNew>>}
Tickets1 == {<<Broken, Sign>>}
================================================================================
