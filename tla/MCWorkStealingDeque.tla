-------------------------- MODULE MCWorkStealingDeque --------------------------
(* Two thieves against the owner of a deque that starts with room for one task *)
(* and reaches four: it grows twice under the thieves, and slots are reused.   *)
EXTENDS WorkStealingDeque

CONSTANTS h1, h2

MCThieves == {h1, h2}
================================================================================
