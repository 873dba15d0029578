-------------------------- MODULE MCTrainingRound --------------------------
(* Two trainers: one fails or leaves while the other goes on; two or three *)
(* chunks: one trainer has several, and round-robin wraps around.          *)
EXTENDS TrainingRound, TLC

CONSTANTS t1, t2, none, fed

MCTrainers == {t1, t2}
MCTrainer == {t1}
OneRound == {1}
TwoRounds == {1, 2}
NoLeaves == {}
AllTopics == TwoRounds \cup {fed}
=============================================================================
