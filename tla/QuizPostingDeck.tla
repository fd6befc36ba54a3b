---------------------------- MODULE QuizPostingDeck ----------------------------
(***************************************************************************)
(* QuizPosting implements SharedDeck, and with a single session            *)
(* QuestionDeck.  The shared deck is the committed cycles and claims, and  *)
(* a player's hand its open transaction.  The deck of one writer is its    *)
(* own view of its cycle (committed rows and its open transaction); what   *)
(* is saved is the committed part of it.                                   *)
(***************************************************************************)
EXTENDS QuizPosting

Highest(S) == IF S = {} THEN 0 ELSE CHOOSE n \in S : \A m \in S : m <= n

(* The cycle get_open_cycle would return; between closing one cycle and
   opening the next it is still the one just closed. *)
CurrentCycle(open, all) == IF open # {} THEN Highest(open) ELSE Highest(all)
UsedIn(n, claims) == {q \in Question : <<n, q>> \in claims}

Writer == CHOOSE s \in Session : TRUE
RoundSeen == CurrentCycle(OpenSeen(Writer), CyclesSeen(Writer))
RoundSaved == CurrentCycle(openCycles, openCycles \cup closedCycles)

Deck == INSTANCE QuestionDeck WITH
    round <- RoundSeen,
    drawn <- UsedIn(RoundSeen, Claims(Writer)),
    saved <- <<RoundSaved, UsedIn(RoundSaved, posts)>>

(* Run alone, batches draw every question of a cycle once before any comes
   back, through failed sends, releases, rollbacks and crashes. *)
DeckRefined == Deck!Spec

Hand == [s \in Session |->
            [drawn |-> tx[s].ins, begun |-> tx[s].opened, ended |-> tx[s].shut]]

Shared == INSTANCE SharedDeck WITH
    Player <- Session,
    rounds <- openCycles \cup closedCycles,
    ended <- closedCycles,
    used <- posts,
    hand <- Hand

(* However many batches run at once, and whatever collides, rolls back or
   crashes: they draw from one deck, in which no claim is held or recorded
   twice, none on record comes back, and a cycle is over only when used up. *)
SharedRefined == Shared!Spec

(* Why a writer alone has one open cycle: it opens one where it sees none, the
   one it works in is open, and whatever is claimed belongs to a cycle. *)
WriterInv(s) ==
    /\ \A c \in OpenSeen(s), n \in CyclesSeen(s) : n <= c
    /\ run[s].pc \in {"number", "open"} => OpenSeen(s) = {}
    /\ run[s].pc = "open" =>
          /\ run[s].cur - 1 \in CyclesSeen(s) \cup {0}
          /\ \A n \in CyclesSeen(s) : n < run[s].cur
    /\ Claiming(s) => run[s].cur \in OpenSeen(s)
    /\ \A p \in Claims(s) : p[1] \in CyclesSeen(s)

(* The same of the tables, which is what a rollback or a crash leaves. *)
SavedInv ==
    /\ \A c \in openCycles, n \in openCycles \cup closedCycles : n <= c
    /\ \A p \in posts : p[1] \in openCycles \cup closedCycles

DeckInv == SavedInv /\ \A s \in Session : WriterInv(s)
================================================================================
