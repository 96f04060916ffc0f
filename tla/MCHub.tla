-------------------------------- MODULE MCHub --------------------------------
(* Small instances of Hub.  The sockets are interchangeable in Init and Next;*)
(* symmetry is used for safety runs only.                                   *)
EXTENDS Hub, TLC

SocketSymmetry == Permutations(Sockets)
=============================================================================
