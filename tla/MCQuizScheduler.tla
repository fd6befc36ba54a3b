---------------------------- MODULE MCQuizScheduler ----------------------------
(***************************************************************************)
(* Small instances of QuizScheduler for TLC: two posting times a day, one  *)
(* or two owners and handlers, a few instants of clock.                    *)
(***************************************************************************)
EXTENDS QuizScheduler, TLC

CONSTANTS e1, e2

Interchangeable == Permutations(Editor)
================================================================================
