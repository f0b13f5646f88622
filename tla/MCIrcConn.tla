----------------------------- MODULE MCIrcConn -----------------------------
(* IrcConn for TLC: the threads of modules are interchangeable.             *)
EXTENDS IrcConn, TLC

SenderSymmetry == Permutations(Senders)
=============================================================================
