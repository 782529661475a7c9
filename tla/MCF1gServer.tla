---------------------------- MODULE MCF1gServer ----------------------------
(* Instances of F1gServer for TLC.                                         *)
EXTENDS F1gServer

CONSTANTS c1, c2, c3, w1, w2

\* Every client's address selects the same queue.
SameQueue == [c \in Clients |-> w1]

\* The addresses of c1 and of the others select different queues.
OwnQueue == [c \in Clients |-> IF c = c1 THEN w1 ELSE w2]

\* One request of each client; three of c1 and one of each other.
OneEach == [c \in Clients |-> 1]
ThreeAndOne == [c \in Clients |-> IF c = c1 THEN 3 ELSE 1]
=============================================================================
