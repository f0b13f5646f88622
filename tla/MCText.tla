------------------------------- MODULE MCText -------------------------------
(***************************************************************************)
(* IrcParser and VinnyText on all inputs of four kinds: lines of the       *)
(* server, lists, configuration files and what programs write.  Each input *)
(* is put down from its parts, read once, and compared with them.          *)
(***************************************************************************)
EXTENDS VinnyText

CONSTANTS MaxTail,   \* characters of the tail of a line
          MaxList,   \* characters of a list
          MaxLines   \* lines a program writes

VARIABLES input,     \* the parts of what is read
          output,    \* what they were read as
          done       \* it is read

vars == <<input, output, done>>

Join(words, sep) ==
    FoldLeftDomain(LAMBDA s, i : s \o (IF i = 1 THEN <<>> ELSE sep) \o words[i], <<>>, words)

UpTo(set, n) == UNION {[1..k -> set] : k \in 0..n}

-----------------------------------------------------------------------------
(* What there is to read.                                                  *)

Senders == {<<"n", "!", "u", "@", "h">>, <<"s">>}
Params == {<<"p">>, <<"#", "c">>, <<"p", ":", "q">>}
Tails == UpTo({"t", Space, ":"}, MaxTail)

\* A line of the server: (:sender )?COMMAND( params)?( :tail)?
Lines == [sender : {NULL} \cup Senders, params : UpTo(Params, 2), tail : {NULL} \cup Tails]

\* The argv of a program that asks for all of a line, and a nick in it.
Asked == <<<<"prog">>, <<"$nick$">>, <<"$chan$">>, <<"$text$">>, <<"$args$">>, <<"$raw$">>>>
Nick == <<"n">>

\* Tails fit into the buffers, and no text is what stands for none.
ASSUME TextsFound ==
    /\ MaxTail \in 0..255
    /\ \A s \in Senders \cup Params \cup Tails \cup ToSet(Asked) \cup {Nick} : Found(s)

Raw(l) == (IF l.sender = NULL THEN <<>> ELSE <<":">> \o l.sender \o <<Space>>)
              \o Join(<<<<"C">>>> \o l.params, <<Space>>)
              \o (IF l.tail = NULL THEN <<>> ELSE <<Space, ":">> \o l.tail)
              \o <<"\r", "\n">>

Lists == {<<"a">> \o s : s \in UpTo({"a", Comma, Space, "\\"}, MaxList - 1)}

\* A rule of a configuration file; an argument is put in quotes, or not.
Args == {[text |-> <<"$text$">>, quote |-> <<>>],
         [text |-> <<"x", Space, "|", ":", Space, "y">>, quote |-> <<"\"">>],
         [text |-> <<"x", Space, Space, ":">>, quote |-> <<"'">>]}

Rules == [word : {"DEF"}, keys : UpTo({<<"a">>, <<"b", ":", "c">>}, 2) \ {<<>>},
          args : UpTo(Args, 2), chans : UpTo({<<"#", "c">>, <<"#", "d">>}, 2)]

OtherRule == [word |-> "MATCH", keys |-> <<<<"^", "r">>>>, args |-> <<>>, chans |-> <<>>]
Comment == [word |-> "#"]
Files == UNION {{<<r>>, <<Comment, r>>, <<r, Comment, OtherRule>>} : r \in Rules}

\* A file and how many of its lines, with its end, the pages that are mapped hold.
Confs == UNION {[lines : {f}, mapped : {Len(f), Len(f) + 1}] : f \in Files}

RuleLine(r) ==
    LET Quoted(a) == a.quote \o a.text \o a.quote
        args_ == Join([i \in DOMAIN r.args |-> Quoted(r.args[i])], <<Comma, Space>>)
    IN IF r = Comment THEN <<"#", "x">>
       ELSE <<r.word, Space>> \o Join(r.keys, <<Comma, Space>>)
                \o (IF r.args = <<>> /\ r.chans = <<>> THEN <<>> ELSE <<":", Space>> \o args_)
                \o (IF r.chans = <<>> THEN <<>> ELSE <<Space, "|", Space>> \o Join(r.chans, <<Comma, Space>>))

\* What a program writes: whole lines, and a last one without an end, or one
\* that is not read.
Put(l) == IF l.word = "none" THEN <<>>
          ELSE <<l.word>> \o (IF l.rest = <<>> THEN <<>> ELSE <<Space>> \o l.rest)

OutputLines == [word : {"REPLY", "SEND", "RAW", "x"},
                rest : {<<>>, <<"t">>, <<"t", Space, Space, "x", Space, "y">>}]
                   \cup {[word |-> "none", rest |-> <<>>]}

Written == [lines : UpTo(OutputLines, MaxLines),
            end : {<<"\n">>, <<"\r", "\n">>, <<"NUL">>},
            last : {<<>>, <<"RAW", Space, "t">>, <<Byte255, "x", "\n">>}]

Text(w) == FoldLeft(LAMBDA s, l : s \o Put(l) \o w.end, <<>>, w.lines) \o w.last

Here == <<"#", "c">>
ASSUME NullIsNoChannel == NULL # Here

-----------------------------------------------------------------------------
Is(kind) == input.kind = kind /\ ~done /\ done' = TRUE

Init == /\ input \in [kind : {"line"}, of : Lines] \cup [kind : {"list"}, of : Lists]
                       \cup [kind : {"conf"}, of : Confs] \cup [kind : {"written"}, of : Written]
        /\ output = NULL /\ done = FALSE

\* A hook or a program asks for the parts of a line.
ReadLine ==
    LET msg == Raw(input.of)
    IN /\ Is("line")
       /\ output' = [sender |-> get_sender(msg, 512), command |-> get_command(msg, 32),
                     tail |-> get_tail(msg, 512),
                     params |-> [n \in 1..4 |-> get_param(msg, 512, n)],
                     argv |-> mkargv(Asked, [raw |-> msg, modes |-> {}, network |-> <<"N">>])]

ReadList == Is("list") /\ output' = delistify(input.of)

\* setup_modules reads the configuration of a program.
ReadConf ==
    LET lines == input.of.lines
        ops == process_module_conf([i \in DOMAIN lines |-> RuleLine(lines[i])], input.of.mapped)
    IN /\ Is("conf")
       /\ output' = IF ops = Overrun THEN Overrun
                    ELSE [i \in DOMAIN ops |-> process_op(ops[i], <<"prog">>, <<"path">>, NULL)]

\* The watcher reads what a program writes that a message of #c started.
ReadWritten ==
    LET ops == mod_watcher(Text(input.of))
    IN /\ Is("written")
       /\ output' = [i \in DOMAIN ops |-> process_op(ops[i], <<"prog">>, NULL, Here)]

Next == (ReadLine \/ ReadList \/ ReadConf \/ ReadWritten) /\ UNCHANGED input

Spec == Init /\ [][Next]_vars

-----------------------------------------------------------------------------
Done(kind) == input.kind = kind /\ done

\* Where a list is cut, and the item between two cuts, 0 the one before all.
Cuts(s) == {k \in DOMAIN s : s[k] = Comma /\ s[k - 1] # "\\"}
CutBehind(s, p) == Min({k \in Cuts(s) : k > p} \cup {Len(s) + 1})
Item(s, from, to) ==
    LET first == SelectInSubSeq(s, from + 1, to - 1, LAMBDA c : c # Space)
    IN IF first = 0 THEN <<>> ELSE SubSeq(s, first, to - 1)

(***************************************************************************)
(* README:149-174 and ops.c:17-28: the parts of a line are found, whatever *)
(* is between them, the tail counts as a parameter, and what is not there  *)
(* is NULL.  Left out is a parameter behind one with a colon in it, which  *)
(* get_param does not find, and the argv for a line that has no user as    *)
(* its sender or no tail, which ops.c does not expect.                     *)
(***************************************************************************)
IrcLineTaken ==
    Done("line") =>
        LET l == input.of
            all == IF l.tail = NULL THEN l.params ELSE Append(l.params, l.tail)
            rest == LET word == Until(l.tail, 1, {Space})
                    IN SelectInSubSeq(l.tail, word, Len(l.tail), LAMBDA c : c # Space)
            here == IF l.params # <<>> /\ l.params[1] = Here THEN Here ELSE Nick
        IN /\ output.sender = l.sender /\ output.command = <<"C">> /\ output.tail = l.tail
           /\ \A n \in 1..4 : (\A i \in 1..(n - 1) : i \in DOMAIN l.params => ":" \notin ToSet(l.params[i])) =>
                  output.params[n] = IF n \in DOMAIN all THEN all[n] ELSE NULL
           /\ l.tail # NULL /\ l.sender = <<"n", "!", "u", "@", "h">> =>
                  output.argv = <<<<"prog">>, Nick, here, l.tail,
                                  IF rest = 0 THEN <<>> ELSE From(l.tail, rest), Raw(l)>>

(***************************************************************************)
(* parser.c:309: a list without quotes is cut at the commas no backslash   *)
(* is before, the spaces behind a cut go, and nothing is written behind    *)
(* the end of the array.                                                   *)
(***************************************************************************)
ListsSplit ==
    Done("list") =>
        LET s == input.of
        IN /\ Len(output) = Cardinality(Cuts(s)) + 1
           /\ \A p \in Cuts(s) \cup {0} :
                  output[Cardinality({k \in Cuts(s) : k <= p}) + 1] = Item(s, p, CutBehind(s, p))

(***************************************************************************)
(* README:62-72, 105-112: every rule of a configuration file is made, in   *)
(* its order, for all its names, with the arguments of its program as they *)
(* are inside of quotes and for its channels.  Left out are what the code  *)
(* does not keep: quotes, commas, backslashes and a first space inside of  *)
(* quotes, quotes without content or around a name, lines behind an empty  *)
(* line, and files of more pages than the program has.                     *)
(***************************************************************************)
ConfigRead ==
    Done("conf") /\ input.of.mapped > Len(input.of.lines) =>
        LET rules == SelectSeq(input.of.lines, LAMBDA r : r # Comment)
            Made(r) == [do |-> r.word,
                        with |-> [keys |-> r.keys,
                                  argv |-> <<<<"prog">>>> \o [i \in DOMAIN r.args |-> r.args[i].text],
                                  chans |-> IF r.chans = <<>> THEN NULL ELSE r.chans]]
        IN output = [i \in DOMAIN rules |-> {Made(rules[i])}]

\* What a line that is not empty leads to.
Acted(l, did) ==
    IF l.word = "x" THEN did = [do |-> "REPLY", with |-> Put(l)]
    ELSE IF l.rest = <<>> THEN did = NULL
    ELSE IF l.word = "SEND"
         THEN /\ did.do = "SEND" /\ IsPrefix(<<"t">>, did.with.target)
              /\ did.with.text = From(l.rest, 4)
    ELSE did = [do |-> l.word, with |-> l.rest]

(***************************************************************************)
(* README:78-99: every line of a program that is not empty is acted on     *)
(* once and in order: a known word with the rest of the line, anything     *)
(* else as a reply.  A target begins with the word that was written, as    *)
(* get_next_word does not end it there.                                    *)
(***************************************************************************)
OutputActedOn ==
    Done("written") =>
        LET lines == input.of.lines
            full == {i \in DOMAIN lines : lines[i].word # "none"}
        IN /\ Len(output) = Cardinality(full)
           /\ \A i \in full :
                  LET made == output[Cardinality({j \in full : j <= i})]
                  IN made # {} /\ \A did \in made : Acted(lines[i], did)
=============================================================================
