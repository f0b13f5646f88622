----------------------------- MODULE MCRegistry -----------------------------
(* Registry for TLC: two networks, the hooks of louis and info beside those *)
(* of vinny, and two states of vinny's directories.                         *)
EXTENDS Registry

MCOthers == [k \in {"PRIVMSG", "JOIN"} |->
               IF k = "JOIN" THEN <<[fn |-> "info", fid |-> 0, n |-> 0]>>
               ELSE <<[fn |-> "louis", fid |-> 1, n |-> 0]>>]

MCPrefix == <<"%", ";">>

Rule(w, ks, cs) == [word |-> w, keys |-> ks, chans |-> cs]
Prog(name, cid, exec, rules) == [name |-> name, cid |-> cid, exec |-> exec, rules |-> rules]

(* One program of all networks with a rule of each kind and one of network  *)
(* 1; or two with one hook more than there is room for, one of them out of  *)
(* order.                                                                   *)
MCTrees ==
  {<<Prog("p", AnyNetwork, TRUE, <<Rule("DEF", <<"f">>, {"#a"}), Rule("HOOK", <<"PRIVMSG">>, {"#a"}),
                                   Rule("MATCH", <<"r">>, {"#b"})>>),
     Prog("q", 1, TRUE, <<Rule("HOOK", <<"JOIN">>, {}), Rule("MATCH", <<"r", "r">>, {})>>)>>,
   <<Prog("s", 0, TRUE, <<Rule("HOOK", <<"JOIN">>, {}), Rule("DEF", <<"f", "g">>, {})>>),
     Prog("p", AnyNetwork, TRUE, <<Rule("HOOK", <<"JOIN", "PRIVMSG">>, {}), Rule("DEF", <<"f">>, {})>>),
     Prog("q", 1, FALSE, <<Rule("MATCH", <<"r">>, {})>>)>>}

Msg(key, cid, chan, word, rx) == [key |-> key, cid |-> cid, chan |-> chan, word |-> word, rx |-> rx]

MCMessages == {Msg("JOIN", 0, "#a", None, {}), Msg("PRIVMSG", 1, "#a", <<"%", "f">>, {"r"}),
               Msg("PRIVMSG", 0, "#b", <<";", "f">>, {}), Msg("PRIVMSG", 0, "nick", <<"%", "g">>, {"r"})}
=============================================================================
