--------------------------- MODULE MCBotLifecycle ---------------------------
(* BotLifecycle for model checking. Loop threads are interchangeable in the  *)
(* safety runs.                                                              *)
EXTENDS BotLifecycle, TLC

Symmetry == Permutations(Workers)
=============================================================================
