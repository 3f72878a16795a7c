------------------------------ MODULE MCLock ------------------------------
(* Three calls over two keys: the smallest instance in which two calls     *)
(* hold one key each and wait for the other's, after a third let them      *)
(* overtake each other.                                                    *)
EXTENDS Lock
=============================================================================
