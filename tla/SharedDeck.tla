------------------------------ MODULE SharedDeck ------------------------------
(***************************************************************************)
(* What the posting cycle promises to several writers at once: a deck of   *)
(* questions that players draw from round after round.  What a player does *)
(* is its own until it is saved, and may be lost; no card is in two places *)
(* and none comes back once it is on record, no round is ended before all  *)
(* its cards are on record or in the hand of the one who ends it.          *)
(***************************************************************************)
EXTENDS Integers

CONSTANTS Question, Player

VARIABLES
    rounds,     \* numbers of the rounds on record
    ended,      \* those of them that are ended
    used,       \* <<round, question>> on record
    hand        \* per player: what it has drawn, begun and ended since it saved

table == <<rounds, ended, used, hand>>

Nothing == [drawn |-> {}, begun |-> {}, ended |-> {}]

Known(p) == rounds \cup hand[p].begun
Over(p) == ended \cup hand[p].ended

Init ==
    /\ \/ rounds \in {{}, {1}} /\ used = {}
       \/ rounds = {1} /\ used = {1} \X Question
    /\ ended = {}
    /\ hand = [p \in Player |-> Nothing]

(* The next round after those p knows, if nobody else has begun it. *)
Begin(p) ==
    \E n \in Known(p) \cup {0} :
        /\ \A m \in Known(p) : m <= n
        /\ \A o \in Player : n + 1 \notin hand[o].begun
        /\ hand' = [hand EXCEPT ![p].begun = @ \cup {n + 1}]
        /\ UNCHANGED <<rounds, ended, used>>

(* A card of a round that is not over, from where nobody has it. *)
Draw(p) ==
    \E n \in Known(p) \ Over(p), q \in Question :
        /\ <<n, q>> \notin used /\ \A o \in Player : <<n, q>> \notin hand[o].drawn
        /\ hand' = [hand EXCEPT ![p].drawn = @ \cup {<<n, q>>}]
        /\ UNCHANGED <<rounds, ended, used>>

Return(p) ==
    \E card \in hand[p].drawn :
        /\ card[1] \notin Over(p)
        /\ hand' = [hand EXCEPT ![p].drawn = @ \ {card}]
        /\ UNCHANGED <<rounds, ended, used>>

(* A round is over when all its cards are used; two players may both say so. *)
End(p) ==
    \E n \in Known(p) :
        /\ \A q \in Question : <<n, q>> \in used \cup hand[p].drawn
        /\ hand' = [hand EXCEPT ![p].ended = @ \cup {n}]
        /\ UNCHANGED <<rounds, ended, used>>

Save(p) ==
    /\ rounds' = rounds \cup hand[p].begun
    /\ ended' = ended \cup hand[p].ended
    /\ used' = used \cup hand[p].drawn
    /\ hand' = [hand EXCEPT ![p] = Nothing]

Lose(p) == hand' = [hand EXCEPT ![p] = Nothing] /\ UNCHANGED <<rounds, ended, used>>

LoseAll == hand' = [p \in Player |-> Nothing] /\ UNCHANGED <<rounds, ended, used>>

Next ==
    \/ \E p \in Player : Begin(p) \/ Draw(p) \/ Return(p) \/ End(p) \/ Save(p) \/ Lose(p)
    \/ LoseAll

Spec == Init /\ [][Next]_table
================================================================================
