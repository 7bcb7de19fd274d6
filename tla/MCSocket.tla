------------------------------ MODULE MCSocket ------------------------------
EXTENDS SocketPromise, TLC

Symmetry == Permutations(Identity) \cup Permutations(Conn)

(* Bound: two messages in all, sent or received.                           *)
Few == Len(sent) + FoldFunction(LAMBDA n, total : n + total, 0, remote_n) <= 2
=============================================================================
