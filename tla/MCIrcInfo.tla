------------------------------ MODULE MCIrcInfo ------------------------------
(* IrcInfo in three settings: two channels where one user comes, goes and    *)
(* gets modes, the same with kicks and two modes at once, and one channel    *)
(* where two users and the bot come, go and are kicked and renamed.          *)
EXTENDS IrcInfo

CONSTANTS c1, c2, ann, bob, u4

MCSettings ==
  {[chans |-> {c1, c2}, users |-> {Bot, ann}, events |-> {"other", "part", "quit", "mode"},
    blocks |-> Blocks],
   [chans |-> {c1, c2}, users |-> {Bot, ann}, events |-> {"part", "kick", "botkick", "mode", "multi"},
    blocks |-> Blocks \ {u4}],
   [chans |-> {c1}, users |-> {Bot, ann, bob}, events |-> Kinds \ {"other", "mode", "multi"},
    blocks |-> Blocks \ {u4}]}

MCNothingElse == {[chans |-> {c1}, users |-> {Bot, ann}, events |-> {"mode"}, blocks |-> Blocks]}
=============================================================================
