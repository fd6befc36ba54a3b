---------------------------- MODULE MCQuizPosting ----------------------------
(***************************************************************************)
(* Small instances of QuizPosting for TLC: two or three questions, one to  *)
(* three channels, a cron job and a "Send now".                            *)
(***************************************************************************)
EXTENDS QuizPostingDeck, TLC

CONSTANTS q1, q2, q3, none, job, job2, press

TwoQuestions == {q1, q2}
ThreeQuestions == {q1, q2, q3}
NoPictures == {}
Interchangeable == Permutations(Question)
==============================================================================
