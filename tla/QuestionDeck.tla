----------------------------- MODULE QuestionDeck -----------------------------
(***************************************************************************)
(* What the posting cycle promises to a single writer: a deck of questions *)
(* drawn without replacement and reshuffled only when it is used up, whose *)
(* draws since the last save may be lost.                                  *)
(***************************************************************************)
EXTENDS Integers

CONSTANT Question

VARIABLES
    round,      \* number of the current pass over the deck, 0 before the first
    drawn,      \* questions used in it
    saved       \* the <<round, drawn>> that survives a restart

deck == <<round, drawn, saved>>

(* A deck not yet dealt, a fresh one, or one whose first round is used up. *)
Init ==
    /\ round \in {0, 1} /\ drawn \in {{}, Question} /\ (round = 0 => drawn = {})
    /\ saved = <<round, drawn>>

Draw(q) ==
    /\ round > 0 /\ q \notin drawn
    /\ drawn' = drawn \cup {q}
    /\ UNCHANGED <<round, saved>>

(* A draw that was not saved may be put back. *)
Return(q) ==
    /\ q \in drawn
    /\ saved[1] = round => q \notin saved[2]
    /\ drawn' = drawn \ {q}
    /\ UNCHANGED <<round, saved>>

Reshuffle ==
    /\ round > 0 => drawn = Question
    /\ round' = round + 1
    /\ drawn' = {}
    /\ UNCHANGED saved

Save == saved' = <<round, drawn>> /\ UNCHANGED <<round, drawn>>

Lose == round' = saved[1] /\ drawn' = saved[2] /\ UNCHANGED saved

Next == (\E q \in Question : Draw(q) \/ Return(q)) \/ Reshuffle \/ Save \/ Lose

Spec == Init /\ [][Next]_deck
================================================================================
