------------------------------ MODULE MCLouis ------------------------------
(* Louis for TLC: one directory with two extensions, and one where a single  *)
(* extension has two hooks and a periodic.                                   *)
EXTENDS Louis

Fn(key, fname, cmds) == [key |-> key, fname |-> fname, cmds |-> cmds]

MCDirs == {<<[hooks |-> <<Fn("PRIVMSG", "play", <<<<"p", "l">>, <<"p">>>>)>>, timed |-> FALSE],
             [hooks |-> <<Fn("PRIVMSG", "log", <<>>), Fn("JOIN", "greet", <<>>)>>, timed |-> FALSE]>>,
           <<[hooks |-> <<Fn("PRIVMSG", "log", <<>>), Fn("PRIVMSG", "say", <<<<"p">>>>)>>, timed |-> TRUE]>>}

MCPrefix == <<<<"%">>, <<";">>>>

MCMessages == {[key |-> "PRIVMSG", tail |-> <<";", "p", " ", "x">>], [key |-> "PRIVMSG", tail |-> <<"%", "p", "x">>]}
=============================================================================
