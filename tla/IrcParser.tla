------------------------------ MODULE IrcParser ------------------------------
(***************************************************************************)
(* src/irc/ircparser.c: the functions that take a raw IRC line apart.      *)
(*                                                                         *)
(* A line is the sequence of its characters up to the null byte.  NULL is  *)
(* what the functions return for what is not there.  A loop with no test   *)
(* for the end of its line, or of the array it fills, runs past it: its    *)
(* result is Overrun, undefined behaviour.                                 *)
(***************************************************************************)
EXTENDS Naturals, Sequences, SequencesExt, FiniteSetsExt

CONSTANTS NULL, Overrun

Found(r) == r \notin {NULL, Overrun}

\* The first position from i on that holds one of chars, or the null byte.
Until(msg, i, chars) ==
    Min({k \in i..Len(msg) : msg[k] \in chars} \cup {Len(msg) + 1})

Space == " "
IRC_MSG_MAX == 513
LineEnd == {"\r", "\n"}

\* strncpy to buf and the null byte at its end.
Cut(s, size) == IF Len(s) < size THEN s ELSE SubSeq(s, 1, size - 1)

\* The copy to a local array of room characters before that has no bound.
Held(s, room, size) == IF Len(s) < room THEN Cut(s, size) ELSE Overrun

HasSender(msg) == msg # <<>> /\ msg[1] = ":"

\* Both skip the sender up to a space they take for granted.
NoSpace(msg) == Until(msg, 1, {Space}) > Len(msg)
SkipSender(msg) ==
    IF HasSender(msg) THEN SubSeq(msg, Until(msg, 1, {Space}) + 1, Len(msg)) ELSE msg

get_sender(msg, size) ==
    IF ~HasSender(msg) THEN NULL
    ELSE IF NoSpace(msg) THEN Overrun
    ELSE Held(SubSeq(msg, 2, Until(msg, 1, {Space}) - 1), 512, size)

get_command(msg, size) ==
    IF HasSender(msg) /\ NoSpace(msg) THEN Overrun
    ELSE LET m == SkipSender(msg)
         IN Held(SubSeq(m, 1, Until(m, 1, LineEnd \cup {Space}) - 1), 32, size)

get_tail(msg, size) ==
    LET tails == {k \in 1..(Len(msg) - 1) : msg[k] = Space /\ msg[k + 1] = ":"}
    IN IF tails = {} THEN NULL
       ELSE LET first == Min(tails) + 2
            IN Held(SubSeq(msg, first, Until(msg, first, LineEnd) - 1), IRC_MSG_MAX, size)

\* Mutation: the sender is taken for the command.
ParamOfWhole(msg, size, n) ==
    LET spaces == {k \in 1..Len(msg) : msg[k] = Space}
        start == Min({k \in spaces :
                        Quantify(spaces, LAMBDA j : j <= k) = n}) + 1
    IN IF Quantify(spaces, LAMBDA j : TRUE) < n \/ \E k \in 2..(start - 1) : msg[k] = ":"
            THEN NULL
       ELSE IF start <= Len(msg) /\ msg[start] = ":" THEN get_tail(msg, size)
       ELSE Cut(SubSeq(msg, start, Until(msg, start, LineEnd \cup {Space}) - 1), size)

(***************************************************************************)
(* Parameter n starts behind the n-th space.  A colon before it ends the   *)
(* search, wherever in a parameter it stands.                              *)
(***************************************************************************)
get_param(msg, size, n) ==
    LET m == SkipSender(msg)
        spaces == {k \in 1..Len(m) : m[k] = Space}
        start == Min({k \in spaces :
                        Quantify(spaces, LAMBDA j : j <= k) = n}) + 1
    IN IF HasSender(msg) /\ NoSpace(msg) THEN Overrun
       ELSE IF \/ Quantify(spaces, LAMBDA j : TRUE) < n
               \/ \E k \in 1..(start - 1) : m[k] = ":"
            THEN NULL
       ELSE IF start <= Len(m) /\ m[start] = ":" THEN get_tail(m, size)
       ELSE Cut(SubSeq(m, start, Until(m, start, LineEnd \cup {Space}) - 1), size)
=============================================================================
