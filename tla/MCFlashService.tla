-------------------------- MODULE MCFlashService --------------------------
(* FlashService with model values as clients and workers.                  *)
EXTENDS FlashService, TLC

\* One client that calls again, others that call once.
OnceOrTwice == LET again == CHOOSE c \in Clients : TRUE
               IN  [c \in Clients |-> IF c = again THEN 2 ELSE 1]
Once == [c \in Clients |-> 1]

Interchangeable == Permutations(Clients) \cup Permutations(Workers)
===========================================================================
