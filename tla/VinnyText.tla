------------------------------ MODULE VinnyText ------------------------------
(***************************************************************************)
(* How vinny reads text: the lines of configuration files and the lines    *)
(* programs write (parser.c, handlers.c, loader.c), and what it fills into *)
(* the argv of a program (ops.c), all in src/modules/vinny.                *)
(*                                                                         *)
(* A text is the sequence of its characters; the names of operations and   *)
(* the arguments between dollars count as one character, as nothing looks  *)
(* into them.  A loop over a text that jumps ahead in the code is a fold   *)
(* over its positions, with a mode for what the jump was about.            *)
(***************************************************************************)
EXTENDS IrcParser

Comma == ","
Quotes == {"'", "\""}
Prev(s, i) == IF i = 1 THEN Space ELSE s[i - 1]
After(s, i) == IF i = Len(s) THEN "NUL" ELSE s[i + 1]

-----------------------------------------------------------------------------
(* ops.c: what vinny fills into the argv of a program.                     *)

\* The sender up to its '!', which a server's name has not.
get_nick(msg) ==
    LET sender == get_sender(msg, 256)
    IN IF ~Found(sender) \/ ~Contains(sender, "!") THEN Overrun
       ELSE SubSeq(sender, 1, Until(sender, 1, {"!"}) - 1)

\* Without a first parameter, what is looked at is not initialized.
get_chan(msg) ==
    LET p == get_param(msg, 256, 1)
    IN IF ~Found(p) THEN Overrun
       ELSE IF p # <<>> /\ p[1] = "#" THEN p ELSE get_nick(msg)

get_text(msg) == get_tail(msg, 512)

\* Where argument n of an operation starts: behind n spaces and those after
\* them; 0 is the code's -1.
index_to_arg(op, n) ==
    LET spaces == {k \in 1..Len(op) : op[k] = Space}
        nth == {k \in spaces : Quantify(spaces, LAMBDA j : j <= k) = n}
        rest == {k \in 1..Len(op) : op[k] # Space /\ \E j \in nth : j < k}
    IN IF rest = {} THEN 0 ELSE Min(rest)

From(s, i) == SubSeq(s, i, Len(s))

get_args(msg) ==
    LET text == get_text(msg)
    IN IF ~Found(text) THEN Overrun
       ELSE IF index_to_arg(text, 1) = 0 THEN <<>>
       ELSE From(text, index_to_arg(text, 1))

\* Copies from the '@' on, and leaves the memory before it as it was.
get_nuh(msg) == Overrun

\* The letter for the modes that irc info knows of the sender.
get_mode(modes) ==
    LET letter == [ircop |-> "n", op |-> "o", hop |-> "h", vop |-> "v"]
        held == SelectSeq(<<"ircop", "op", "hop", "vop">>, LAMBDA m : m \in modes)
    IN IF held = <<>> THEN <<"u">> ELSE <<letter[held[1]]>>

args == <<"$raw$", "$nick$", "$host$", "$chan$", "$text$", "$args$", "$nuh$",
          "$mode$", "$network$">>

\* msg: the line, with the modes of its sender and its network.
DynArg(arg, msg) ==
    CASE arg = "$raw$" -> msg.raw
      [] arg = "$nick$" -> get_nick(msg.raw)
      [] arg = "$host$" -> get_sender(msg.raw, 256)
      [] arg = "$chan$" -> get_chan(msg.raw)
      [] arg = "$text$" -> get_text(msg.raw)
      [] arg = "$args$" -> get_args(msg.raw)
      [] arg = "$nuh$" -> get_nuh(msg.raw)
      [] arg = "$mode$" -> get_mode(msg.modes)
      [] arg = "$network$" -> msg.network

\* mkargv: one name after the other is looked for in argv, in what an earlier
\* one was replaced by as well, up to the first NULL that one left there.
mkargv(argv, msg) ==
    FoldLeft(LAMBDA av, arg :
                [i \in DOMAIN av |-> IF av[i] = <<arg>> /\ \A j \in 1..i : av[j] # NULL
                                      THEN DynArg(arg, msg) ELSE av[i]],
             argv, args)

-----------------------------------------------------------------------------
(* parser.c: lists.                                                        *)

\* Mutation: quotes are dropped and mean nothing.
SplitUnquoted(op, st, i) ==
    IF op[i] \in Quotes \cup {Space} THEN st
    ELSE IF st.pos = 0 /\ op[i] = ":" /\ After(op, i) = Space THEN [st EXCEPT !.pos = 1]
    ELSE IF st.pos = 1 /\ op[i] = "|" /\ Prev(op, i) # "\\" THEN [st EXCEPT !.pos = 2]
    ELSE [st EXCEPT !.part[st.pos] = Append(@, op[i])]

(***************************************************************************)
(* split_maker_parts: pos is the part the scan is in.  A quote opens with  *)
(* its character in q; the character that closes it is dropped, as is one  *)
(* behind a backslash, and the one behind that (q = "after") may no more   *)
(* open a quote.  Spaces outside of quotes are dropped, quotes in the tail *)
(* as well.                                                                *)
(***************************************************************************)
SplitStep(op, st, i) ==
    LET c == op[i]
        escaped == Prev(op, i) = "\\"
        Quoted == st.q \in Quotes
    IN IF st.pos = 1 /\ Quoted /\ (c = st.q \/ escaped) THEN [st EXCEPT !.q = "after"]
       ELSE IF st.pos = 1 /\ Quoted THEN [st EXCEPT !.part[1] = Append(@, c)]
       ELSE IF c = Space THEN [st EXCEPT !.q = "none"]
       ELSE IF st.pos = 0 /\ c = ":" /\ ~escaped /\ After(op, i) = Space THEN [st EXCEPT !.pos = 1]
       ELSE IF st.pos = 1 /\ st.q = "none" /\ c \in Quotes /\ ~escaped THEN [st EXCEPT !.q = c]
       ELSE IF st.pos = 1 /\ c = "|" /\ ~escaped THEN [st EXCEPT !.pos = 2, !.q = "none"]
       ELSE [st EXCEPT !.part[st.pos] = Append(@, c), !.q = "none"]

split_maker_parts(op) ==
    LET end == FoldLeftDomain(LAMBDA st, i : SplitStep(op, st, i),
                              [pos |-> 0, q |-> "none", part |-> [p \in 0..2 |-> <<>>]], op)
    IN IF op[1] = ":" \/ end.q \in Quotes THEN NULL ELSE end.part

(***************************************************************************)
(* delistify, its first scan: seps is the number of commas it sees, for    *)
(* the size of the array, and quotes that of closed quotes, which has to   *)
(* be even.  Neither looks at the character behind a closing quote.        *)
(***************************************************************************)
ScanStep(s, st, i) ==
    LET escaped == Prev(s, i) = "\\"
    IN IF st.q \in Quotes /\ (s[i] = st.q \/ escaped) THEN [st EXCEPT !.q = "after", !.quotes = @ + 1]
       ELSE IF st.q \in Quotes THEN st
       ELSE IF st.q = "after" THEN [st EXCEPT !.q = "none"]
       ELSE IF s[i] \in Quotes /\ i > 1 /\ ~escaped THEN [st EXCEPT !.q = s[i]]
       ELSE IF s[i] = Comma THEN [st EXCEPT !.seps = @ + 1]
       ELSE st

Scan(s) ==
    FoldLeftDomain(LAMBDA st, i : ScanStep(s, st, i), [q |-> "none", seps |-> 0, quotes |-> 0], s)

\* Mutation: a backslash does not keep a comma from ending an item.
ItemUnescaped(s, st, i) ==
    IF st.skip /\ s[i] = Space THEN st
    ELSE IF s[i] = Comma THEN [st EXCEPT !.items = Append(@, st.item), !.item = <<>>, !.skip = TRUE]
    ELSE [st EXCEPT !.item = Append(@, s[i]), !.skip = FALSE]

\* The second scan: an item ends at a comma that no backslash is before.
ItemStep(s, st, i) ==
    LET escaped == Prev(s, i) = "\\"
    IN IF st.q \in Quotes /\ (s[i] = st.q \/ escaped) THEN [st EXCEPT !.q = "after"]
       ELSE IF st.q \in Quotes THEN [st EXCEPT !.item = Append(@, s[i])]
       ELSE IF st.skip /\ s[i] = Space THEN st
       ELSE IF st.q = "none" /\ s[i] \in Quotes /\ i > 1 /\ ~escaped
            THEN [st EXCEPT !.q = s[i], !.skip = FALSE]
       ELSE IF s[i] = Comma /\ i > 1 /\ ~escaped
            THEN [st EXCEPT !.items = Append(@, st.item), !.item = <<>>, !.q = "none", !.skip = TRUE]
       ELSE [st EXCEPT !.item = Append(@, s[i]), !.q = "none", !.skip = FALSE]

Items(s) ==
    LET end == FoldLeftDomain(LAMBDA st, i : ItemStep(s, st, i),
                              [q |-> "none", skip |-> FALSE, item |-> <<>>, items |-> <<>>], s)
    IN Append(end.items, end.item)

\* The array has room for seps + 2 pointers, the last of them NULL, and is
\* doubled in time if seps is more than two; a quote that the last character
\* opens makes the scan jump over the null byte.
delistify(s) ==
    LET scan == Scan(s)
        opened == scan.q \in Quotes /\ s[Len(s)] = scan.q
        quotes == scan.quotes + (IF opened THEN 1 ELSE 0)
    IN IF (scan.q \in Quotes /\ ~opened) \/ quotes % 2 # 0 THEN NULL
       ELSE IF opened \/ (scan.seps < 3 /\ Len(Items(s)) > scan.seps + 1) THEN Overrun
       ELSE Items(s)

parse_argv(name, s) ==
    IF s = <<>> THEN <<name>>
    ELSE IF ~Found(delistify(s)) THEN delistify(s)
    ELSE <<name>> \o delistify(s)

-----------------------------------------------------------------------------
(* parser.c and handlers.c: operations.                                    *)

Makers == {"DEF", "HOOK", "MATCH"}
Sending == {"SEND", "NOTICE", "ACTTO"}
Commands == Makers \cup Sending \cup {"REPLY", "ACTION", "JOIN", "PART", "RAW", "GETLOG"}

\* cmd_maker: one rule for all keys.  A list of channels it cannot read is
\* none.  The watcher knows no path, and strdup takes none.
cmd_maker(name, path, op) ==
    LET part == split_maker_parts(op)
        keys == delistify(part[0])
        argv == parse_argv(name, part[1])
        chans == IF part[2] = <<>> THEN NULL ELSE delistify(part[2])
    IN IF path = NULL THEN Overrun
       ELSE IF part = NULL THEN NULL
       ELSE IF part[0] = <<>> THEN NULL
       ELSE IF Overrun \in {keys, argv, chans} THEN Overrun
       ELSE IF NULL \in {keys, argv} THEN NULL
       ELSE [keys |-> keys, argv |-> argv, chans |-> chans]

\* get_next_word: the byte that ends the word is written behind where the
\* next one starts.  What is between, as many bytes as there are spaces and
\* one more, is what malloc gave; "?" stands for such a byte.  The room is
\* that of a pointer, and what is written behind it may do no harm.
PointerSize == 8
get_next_word(op) ==
    LET word == SubSeq(op, 1, Until(op, 1, {Space}) - 1)
        rest == SelectInSubSeq(op, Len(word) + 1, Len(op), LAMBDA c : c # Space)
        next == IF rest = 0 THEN Len(op) ELSE rest - 1
    IN {word \o [i \in 1..k |-> "?"] : k \in 0..(next + 1 - Len(word))}
           \cup {w \in {Overrun} : next + 1 >= PointerSize}

\* sendto: the first word is the target.
sendto(op) ==
    LET space == Until(op, 1, {Space})
        text == SelectInSubSeq(op, space, Len(op), LAMBDA c : c # Space)
    IN [target : get_next_word(op), text : {IF text = 0 THEN <<>> ELSE From(op, text)}]

get_cmd_index(op) == SubSeq(op, 1, Until(op, 1, {Space}) - 1)

\* process_op: the set of what an operation may lead to.
process_op(op, name, path, channel) ==
    LET lop == SubSeq(op, 1, Until(op, 1, LineEnd) - 1)
        word == get_cmd_index(lop)
        rest == From(lop, index_to_arg(lop, 1))
    IN IF word \notin {<<c>> : c \in Commands}
       THEN IF channel = NULL THEN {NULL} ELSE {[do |-> "REPLY", with |-> op]}
       ELSE IF index_to_arg(lop, 1) = 0 THEN {NULL}
       ELSE {[do |-> word[1], with |-> w] :
                w \in IF word[1] \in Makers THEN {cmd_maker(name, path, rest)}
                      ELSE IF word[1] \in Sending THEN sendto(rest)
                      ELSE {rest}}

-----------------------------------------------------------------------------
(* Where operations come from.                                             *)

\* loader.c, process_module_conf: the lines up to one of less than two
\* characters, without comments.  The pages it maps are as many as the
\* program has, and mapped of the lines are in them, the end of the file
\* being one more.
process_module_conf(conf, mapped) ==
    LET ends == {i \in 1..Len(conf) : Len(conf[i]) <= 1 /\ conf[i] \notin {<<c>> : c \in Commands}}
        end == Min(ends \cup {Len(conf) + 1})
    IN IF mapped < end THEN Overrun
       ELSE SelectSeq(SubSeq(conf, 1, end - 1), LAMBDA line : line[1] # "#")

\* What the watcher reads, up to the byte that is EOF once it is in a char.
Byte255 == "255"
ReadBytes(written) == SubSeq(written, 1, Until(written, 1, {Byte255}) - 1)

\* Mutation: the carriage return is part of the line.
WatchNewlines(written) ==
    FoldLeft(LAMBDA st, c :
                IF c # "\n" THEN [st EXCEPT !.buf = Append(@, c)]
                ELSE IF st.buf = <<>> THEN st
                ELSE [buf |-> <<>>, ops |-> Append(st.ops, st.buf)],
             [buf |-> <<>>, ops |-> <<>>], ReadBytes(written)).ops

\* watcher.c, mod_watcher: what a program wrote, line by line.  What no end
\* of line follows is dropped, and so are empty lines.  Lines are shorter than
\* its buffer: one of 2^17 characters overruns it, and with a longer one it moves
\* and the operations are read where it was.
mod_watcher(written) ==
    FoldLeft(LAMBDA st, c :
                IF c \notin LineEnd \cup {"NUL"} THEN [st EXCEPT !.buf = Append(@, c)]
                ELSE IF st.buf = <<>> THEN st
                ELSE [buf |-> <<>>, ops |-> Append(st.ops, st.buf)],
             [buf |-> <<>>, ops |-> <<>>], ReadBytes(written)).ops
=============================================================================
