------------------------------ MODULE BasicAlg ------------------------------
(***************************************************************************)
(* basic_alg.c: an array is rotated to the left, by one in each round.     *)
(***************************************************************************)
EXTENDS Integers, Sequences

CONSTANTS Arrays, Places   \* the arrays, and the numbers of places

ASSUME ArrayAssumption ==
    /\ Places \subseteq Int
    /\ \A a \in Arrays : a # <<>> /\ a \in Seq({a[j] : j \in DOMAIN a})

VARIABLES
    arr, left_k, round, \* round is i of rotate_by_seq
    method,             \* p_extra->method
    orig, places        \* history: the array and the number of the caller

rotvars == <<arr, left_k, round, method, orig, places>>

METHODS == {"METHOD_SEQ", "METHOD_3T", "METHOD_BLKSWP", "METHOD_GCD"}

\* left_k %= arr_size keeps the sign in C.
CRemainder(k, n) == IF k >= 0 THEN k % n ELSE -((-k) % n)

\* array_rotate.
RotateInit ==
    /\ orig \in Arrays /\ places \in Places /\ method \in METHODS
    /\ arr = orig /\ round = 0
    /\ left_k = CRemainder(places, Len(orig))
RotateIdle ==
    /\ arr = <<>> /\ orig = <<>> /\ round = 0 /\ left_k = 0
    /\ method = "METHOD_3T" /\ places = 0

\* Mutant: the first element is gone before it is stored.
RoundWithoutTemp(a) == [j \in DOMAIN a |-> IF j < Len(a) THEN a[j + 1] ELSE a[j]]

\* The last round of the inner loop copies what lies behind the array, which
\* the first element then replaces.
rotate_by_seq(a) == [j \in DOMAIN a |-> IF j < Len(a) THEN a[j + 1] ELSE a[1]]

\* Only METHOD_SEQ does anything.
RotateNext ==
    /\ method = "METHOD_SEQ" /\ round < left_k
    /\ arr' = rotate_by_seq(arr) /\ round' = round + 1
    /\ UNCHANGED <<left_k, method, orig, places>>

RotateSpec == RotateInit /\ [][RotateNext]_rotvars

\* Every element k places further to the left, around the end.
Turned(a, k) == [j \in DOMAIN a |-> a[((j - 1 + k) % Len(a)) + 1]]

\* When METHOD_SEQ is done, the array is the caller's rotated by the number of
\* places it asked for, also by more than the array has: [a,b,c,d,e] by 3 is
\* [d,e,a,b,c] (basic_alg.h, the comment of array_rotate).  This is not so for
\* a negative number and for the other three methods, which return success
\* and leave the array alone.
RotatedLeft ==
    method = "METHOD_SEQ" /\ places >= 0 /\ round >= left_k
        => arr = Turned(orig, places)
=============================================================================
