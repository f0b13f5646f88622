------------------------------ MODULE IrcConn ------------------------------
(* The connections of the IRC core to one network: NSocks sockets, a thread *)
(* that reads each of them, and threads of the modules that send through    *)
(* all of them as if they were one.  On the other side is the server, which *)
(* reads and answers what it is sent, and may close a connection.           *)
(*                                                                          *)
(* A nick is the suffix, by its index in irc_suffixlist, behind the bot's   *)
(* name.  A line is a sequence of its command and what of its parameters is *)
(* read.  A handler that sends ends in send_irc_message, whose steps are    *)
(* the lock of conmtx and one write for each socket.                        *)
EXTENDS Integers, Sequences, FiniteSets

CONSTANTS NSocks,
          Suffixes,   \* the length of irc_suffixlist, 5
          Senders,    \* the threads of modules: watchers, Lua threads
          Msgs,       \* messages to the channel
          Takens,     \* the sets of nicks that others may have
          MaxEvents,  \* bounds the sends, pings and renames
          MaxDrops,   \* bounds the connections lost
          None

Socks == 0 .. NSocks - 1
Threads == Socks \cup Senders
Fds == 1 .. NSocks          \* the descriptors that sockets get
List == 0 .. Suffixes - 1
Nicks == List \cup {Suffixes}  \* those of the list, and one that is not
MaybeNick == Nicks \cup {-1}

ASSUME ConnAssumption ==
         /\ NSocks \in Nat \ {0} /\ Suffixes \in Nat /\ NSocks <= Suffixes
         /\ Takens \subseteq SUBSET List
         /\ MaxEvents \in Nat /\ MaxDrops \in Nat
         /\ Senders \cap Socks = {} /\ None \notin Threads

(* Of the lines that are read, those of the server and those of the bot.    *)
Lines == {<<c>> : c \in {"001", "433", "900", "PING", "USER", "JOIN", "PONG", "IDENTIFY", "TEXT"}}
         \cup {<<"PRIVMSG", m>> : m \in Msgs}
         \cup {<<c, n>> : c \in {"042", "NICK"}, n \in Nicks}
         \cup {<<"NICK", n, k>> : n, k \in Nicks}

VARIABLES
  login,     \* do_login
  socket,    \* socket[s]: its descriptor, -1 after a failed connect
  wsocket,   \* the socket of the next message for any socket
  conmtx,    \* the thread that owns it, or None
  botname,   \* botname[s], -1 for NULL
  attempts,  \* nick_attempts
  pc,        \* pc[t]: "idle", or where in a handler or in send_irc_message
  msg,       \* msg[t]: the line it sends
  to,        \* to[t]: the sockets it has to write to, none if any will do
  link,      \* link[f]: the connection on descriptor f
  taken,     \* the nicks of others on the server
  told,      \* the messages to the channel so far
  handled,   \* handled[m]: how often the hooks of PRIVMSG ran for m
  sent,      \* sent[s]: the messages for any socket that took s
  tried,     \* the nicks the server was asked for
  left,      \* what the bounds leave of events and drops
  fault      \* how the program ended: "exit", "killed", "raced", or "none"

outVars == <<wsocket, conmtx, sent>>
nameVars == <<botname, attempts>>
threadVars == <<pc, msg, to>>
worldVars == <<login, taken, told, tried>>
vars == <<socket, outVars, nameVars, threadVars, worldVars, link, handled, left, fault>>

PC == {"idle", "naming", "counting", "closed", "lock", "write"}

Closed == [owner |-> None, up |-> FALSE, nick |-> -1, user |-> FALSE, joined |-> FALSE,
           pings |-> 0, inn |-> <<>>, out |-> <<>>]
Opened(s) == [Closed EXCEPT !.owner = s, !.up = TRUE]

Registered(l) == l.up /\ l.user /\ l.nick # -1

TypeOK ==
  /\ login \in BOOLEAN
  /\ socket \in [Socks -> Fds \cup {-1}] /\ wsocket \in Socks
  /\ conmtx \in Threads \cup {None}
  /\ botname \in [Socks -> MaybeNick] /\ attempts \in 0 .. Suffixes
  /\ pc \in [Threads -> PC] /\ msg \in [Threads -> Lines] /\ to \in [Threads -> Seq(Socks)]
  /\ link \in [Fds -> [owner : Socks \cup {None}, up : BOOLEAN, nick : MaybeNick,
                       user : BOOLEAN, joined : BOOLEAN, pings : Nat,
                       inn : Seq(Lines), out : Seq(Lines)]]
  /\ taken \subseteq Nicks /\ tried \subseteq Nicks /\ told \subseteq Msgs
  /\ handled \in [Msgs -> Nat] /\ sent \in [Socks -> Nat]
  /\ left \in [events : Nat, drops : Nat]
  /\ fault \in {"none", "exit", "killed", "raced"}

(* irc_main has connected every socket, register_irc_client has written to  *)
(* each of them, and the threads start.  With one socket the suffix is the  *)
(* empty one, the first of the list, too.                                   *)
Init ==
  /\ login \in BOOLEAN
  /\ socket = [s \in Socks |-> s + 1] /\ wsocket = 0 /\ conmtx = None
  /\ botname = [s \in Socks |-> -1] /\ attempts = 0
  /\ pc = [t \in Threads |-> "idle"]
  /\ msg = [t \in Threads |-> <<"TEXT">>] /\ to = [t \in Threads |-> <<>>]
  /\ link = [f \in Fds |-> [Opened(f - 1) EXCEPT !.out = <<<<"NICK", f - 1>>, <<"USER">>>>]]
  /\ taken \in Takens /\ tried = {} /\ told = {}
  /\ handled = [m \in Msgs |-> 0] /\ sent = [s \in Socks |-> 0]
  /\ left = [events |-> MaxEvents, drops |-> MaxDrops]
  /\ fault = "none"
-----------------------------------------------------------------------------
(* send_irc_message.                                                        *)
Send(t, line, targets) ==
  /\ msg' = [msg EXCEPT ![t] = line] /\ to' = [to EXCEPT ![t] = targets]
  /\ pc' = [pc EXCEPT ![t] = "lock"]

(* Mutation: the last socket is left out.                                   *)
AllButOne == [i \in 1 .. NSocks - 1 |-> i - 1]

AllSocks == [i \in 1 .. NSocks |-> i - 1]

(* A message for any socket goes to wsocket.                                *)
Choose(t) == /\ to' = [to EXCEPT ![t] = IF @ = <<>> THEN <<wsocket>> ELSE @]
             /\ pc' = [pc EXCEPT ![t] = "write"]

(* Mutation: nothing is locked.                                             *)
LockNothing(t) ==
  /\ pc[t] = "lock" /\ conmtx' = t /\ Choose(t)
  /\ UNCHANGED <<socket, wsocket, sent, nameVars, msg, worldVars, link, handled, left, fault>>

Lock(t) ==
  /\ pc[t] = "lock" /\ conmtx = None /\ conmtx' = t /\ Choose(t)
  /\ UNCHANGED <<socket, wsocket, sent, nameVars, msg, worldVars, link, handled, left, fault>>

(* Mutation: the number of sockets is not wrapped around.                   *)
NextUnwrapped == wsocket + 1

NextSocket == (wsocket + 1) % NSocks

(* A write to a descriptor that is closed fails; to one that the server     *)
(* closed it fails or raises SIGPIPE, which nobody handles; a descriptor    *)
(* that another socket has got since carries the line there.                *)
WriteLine(f, line) ==
  IF f = -1 THEN UNCHANGED <<link, fault>>
  ELSE IF link[f].owner = None THEN UNCHANGED <<link, fault>>
  ELSE IF link[f].up THEN /\ link' = [link EXCEPT ![f].out = Append(@, line)]
                          /\ UNCHANGED fault
  ELSE fault' \in {"none", "killed"} /\ UNCHANGED link

Write(t) ==
  /\ pc[t] = "write"
  /\ WriteLine(socket[Head(to[t])], msg[t])
  /\ IF Len(to[t]) > 1
     THEN /\ to' = [to EXCEPT ![t] = Tail(@)]
          /\ UNCHANGED <<conmtx, wsocket, pc, msg, sent>>
     ELSE /\ conmtx' = None
          /\ pc' = [pc EXCEPT ![t] = IF msg[t][1] = "NICK" THEN "counting" ELSE "idle"]
          /\ msg' = [msg EXCEPT ![t] = <<"TEXT">>] /\ to' = [to EXCEPT ![t] = <<>>]
          /\ IF t \in Senders THEN /\ wsocket' = NextSocket
                                    /\ sent' = [sent EXCEPT ![Head(to[t])] = @ + 1]
             ELSE UNCHANGED <<wsocket, sent>>
  /\ UNCHANGED <<socket, nameVars, worldVars, handled, left>>

(* irc_msg, irc_action and irc_notice, from watchers and from Lua.          *)
Speak(t) == /\ pc[t] = "idle" /\ left.events > 0 /\ left' = [left EXCEPT !.events = @ - 1]
            /\ Send(t, <<"TEXT">>, <<>>)
            /\ UNCHANGED <<socket, outVars, nameVars, worldVars, link, handled, fault>>
-----------------------------------------------------------------------------
(* irc_handler: the thread of socket s reads a line with command cmd, and   *)
(* handle_message runs its hooks.                                           *)
Read(s, cmd) ==
  /\ pc[s] = "idle" /\ socket[s] \in Fds
  /\ link[socket[s]].inn # <<>> /\ Head(link[socket[s]].inn)[1] = cmd
  /\ link' = [link EXCEPT ![socket[s]].inn = Tail(@)]
  /\ UNCHANGED <<socket, outVars, worldVars, left>>

Line(s) == Head(link[socket[s]].inn)

(* Mutation: every socket runs the hooks of PRIVMSG.                        *)
OnPrivmsgAll(s) ==
  /\ Read(s, "PRIVMSG") /\ handled' = [handled EXCEPT ![Line(s)[2]] = @ + 1]
  /\ UNCHANGED <<nameVars, threadVars, fault>>

OnPrivmsg(s) ==
  /\ Read(s, "PRIVMSG")
  /\ handled' = IF s = 0 THEN [handled EXCEPT ![Line(s)[2]] = @ + 1] ELSE handled
  /\ UNCHANGED <<nameVars, threadVars, fault>>

(* Mutation: the answer goes through any socket.                            *)
OnPingAny(s) == /\ Read(s, "PING") /\ Send(s, <<"PONG">>, <<>>)
                /\ UNCHANGED <<nameVars, handled, fault>>

OnPing(s) == /\ Read(s, "PING") /\ Send(s, <<"PONG">>, <<s>>)
             /\ UNCHANGED <<nameVars, handled, fault>>

OnClientRegistered(s) ==
  /\ Read(s, "001")
  /\ IF login THEN Send(s, <<"IDENTIFY">>, <<s>>) ELSE Send(s, <<"JOIN">>, AllSocks)
  /\ UNCHANGED <<nameVars, handled, fault>>

OnLoggedIn(s) == /\ Read(s, "900") /\ Send(s, <<"JOIN">>, AllSocks)
                 /\ UNCHANGED <<nameVars, handled, fault>>

OnUniqueId(s) == /\ Read(s, "042") /\ botname' = [botname EXCEPT ![s] = Line(s)[2]]
                 /\ UNCHANGED <<attempts, threadVars, handled, fault>>

(* Mutation: whose nick changed is not looked at.                           *)
OnAnyNickChange(s) ==
  /\ Read(s, "NICK") /\ botname' = [botname EXCEPT ![s] = Line(s)[3]]
  /\ UNCHANGED <<attempts, threadVars, handled, fault>>

OnBotNickChange(s) ==
  /\ Read(s, "NICK")
  /\ botname' = IF botname[s] = Line(s)[2] THEN [botname EXCEPT ![s] = Line(s)[3]] ELSE botname
  /\ UNCHANGED <<attempts, threadVars, handled, fault>>

(* on_nick_in_use reads nick_attempts, sends and counts when the line is    *)
(* written.  No lock is held over that: it is undefined what happens if two *)
(* threads are there at once.                                               *)
InNickInUse(t) == pc[t] \in {"naming", "counting"} \/ msg[t][1] = "NICK"

OnNickInUse(s) ==
  /\ Read(s, "433") /\ pc' = [pc EXCEPT ![s] = "naming"]
  /\ fault' = IF \E t \in Socks : InNickInUse(t) THEN "raced" ELSE fault
  /\ UNCHANGED <<nameVars, msg, to, handled>>

(* Mutation: the list is taken to end one nick too early.                   *)
TryNickShort(s) ==
  /\ pc[s] = "naming"
  /\ IF attempts + 1 = Suffixes THEN fault' = "exit" /\ UNCHANGED <<pc, msg, to>>
     ELSE Send(s, <<"NICK", attempts>>, <<s>>) /\ UNCHANGED fault
  /\ UNCHANGED <<socket, outVars, nameVars, worldVars, link, handled, left>>

TryNick(s) ==
  /\ pc[s] = "naming"
  /\ IF attempts = Suffixes THEN fault' = "exit" /\ UNCHANGED <<pc, msg, to>>
     ELSE Send(s, <<"NICK", attempts>>, <<s>>) /\ UNCHANGED fault
  /\ UNCHANGED <<socket, outVars, nameVars, worldVars, link, handled, left>>

CountAttempt(s) ==
  /\ pc[s] = "counting" /\ pc' = [pc EXCEPT ![s] = "idle"]
  /\ attempts' = attempts + 1
  /\ UNCHANGED <<socket, outVars, botname, msg, to, worldVars, link, handled, left, fault>>

(* The connection is lost: close, and setup_irc_connection, which gets any  *)
(* descriptor that is free, or none when the name of the host is not known, *)
(* or fails in the handshake of SSL.                                        *)
(* Nothing registers the client again.                                      *)
Close(s) ==
  /\ pc[s] = "idle" /\ pc' = [pc EXCEPT ![s] = "closed"]
  /\ IF socket[s] = -1 THEN UNCHANGED link
     ELSE /\ link[socket[s]].inn = <<>> /\ ~link[socket[s]].up
          /\ link' = [link EXCEPT ![socket[s]] = Closed]
  /\ UNCHANGED <<socket, outVars, nameVars, msg, to, worldVars, handled, left, fault>>

Reconnect(s) ==
  /\ pc[s] = "closed" /\ pc' = [pc EXCEPT ![s] = "idle"]
  /\ \E f \in Fds : /\ link[f].owner = None
                    /\ socket' = [socket EXCEPT ![s] = f]
                    /\ link' = [link EXCEPT ![f] = Opened(s)]
  /\ UNCHANGED <<outVars, nameVars, msg, to, worldVars, handled, left, fault>>

ConnectFails(s) ==
  /\ pc[s] = "closed" /\ pc' = [pc EXCEPT ![s] = "idle"]
  /\ socket' = [socket EXCEPT ![s] = -1]
  /\ UNCHANGED <<outVars, nameVars, msg, to, worldVars, link, handled, left, fault>>

(* irc.c:166-170: an address is left behind before connect() uses the next  *)
(* one, so that a host whose addresses are all refused, or that has only    *)
(* one, ends in a null pointer.                                             *)
AddressesRunOut(s) ==
  /\ pc[s] = "closed" /\ fault' = "killed"
  /\ UNCHANGED <<socket, outVars, nameVars, threadVars, worldVars, link, handled, left>>

HandshakeFails(s) ==
  /\ pc[s] = "closed" /\ fault' = "exit"
  /\ UNCHANGED <<socket, outVars, nameVars, threadVars, worldVars, link, handled, left>>
-----------------------------------------------------------------------------
(* The server.                                                              *)
Tell(l, lines) == [l EXCEPT !.inn = @ \o lines]

Welcome(l) == IF Registered(l) THEN Tell(l, <<<<"001">>, <<"042", l.nick>>>>) ELSE l

InUse(n) == n \in taken \/ \E f \in Fds : link[f].nick = n

(* What it does with a line of the connection l.                            *)
Answer(l, line) ==
  CASE line[1] = "NICK" /\ InUse(line[2]) -> Tell(l, <<<<"433">>>>)
    [] line[1] = "NICK" /\ ~InUse(line[2]) -> Welcome([l EXCEPT !.nick = line[2]])
    [] line[1] = "USER" -> Welcome([l EXCEPT !.user = TRUE])
    [] line[1] = "IDENTIFY" -> IF Registered(l) THEN Tell(l, <<<<"900">>>>) ELSE l
    [] line[1] = "JOIN" -> [l EXCEPT !.joined = Registered(l)]
    [] line[1] = "PONG" -> [l EXCEPT !.pings = @ - 1]
    [] OTHER -> l

Serve(f) ==
  /\ link[f].out # <<>>
  /\ LET line == Head(link[f].out)
     IN /\ link' = [link EXCEPT ![f] = Answer([link[f] EXCEPT !.out = Tail(@)], line)]
        /\ tried' = IF line[1] = "NICK" THEN tried \cup {line[2]} ELSE tried
  /\ UNCHANGED <<socket, outVars, nameVars, threadVars, login, taken, told, handled, left, fault>>

Event(kind) ==
  /\ left[kind] > 0 /\ left' = [left EXCEPT ![kind] = @ - 1]
  /\ UNCHANGED <<socket, outVars, nameVars, threadVars, worldVars, handled, fault>>

Ping(f) == /\ Registered(link[f]) /\ Event("events")
           /\ link' = [link EXCEPT ![f] = Tell([link[f] EXCEPT !.pings = @ + 1], <<<<"PING">>>>)]

(* Services rename a connection; the channel sees it.                       *)
Rename(f, n) ==
  /\ Registered(link[f]) /\ ~InUse(n) /\ Event("events")
  /\ link' = [g \in Fds |->
       IF g = f THEN Tell([link[f] EXCEPT !.nick = n], <<<<"NICK", link[f].nick, n>>>>)
       ELSE IF link[f].joined /\ link[g].joined
            THEN Tell(link[g], <<<<"NICK", link[f].nick, n>>>>) ELSE link[g]]

Drop(f) == /\ link[f].up /\ Event("drops")
           /\ link' = [link EXCEPT ![f] = [Closed EXCEPT !.owner = link[f].owner, !.inn = link[f].inn]]

(* Somebody says m in the channel.                                          *)
Say(m) ==
  /\ m \in Msgs \ told /\ told' = told \cup {m}
  /\ \E f \in Fds : link[f].joined
  /\ link' = [f \in Fds |-> IF link[f].joined THEN Tell(link[f], <<<<"PRIVMSG", m>>>>) ELSE link[f]]
  /\ UNCHANGED <<socket, outVars, nameVars, threadVars, login, taken, tried, handled, left, fault>>
-----------------------------------------------------------------------------
Sending(t) == Lock(t) \/ Write(t)

Handler(s) ==
  \/ OnPrivmsg(s) \/ OnPing(s) \/ OnClientRegistered(s) \/ OnLoggedIn(s)
  \/ OnUniqueId(s) \/ OnBotNickChange(s) \/ OnNickInUse(s) \/ TryNick(s)
  \/ CountAttempt(s) \/ Close(s)

Next ==
  /\ fault = "none"
  /\ \/ \E t \in Threads : Sending(t)
     \/ \E s \in Socks : \/ Handler(s) \/ Reconnect(s) \/ ConnectFails(s)
                        \/ AddressesRunOut(s) \/ HandshakeFails(s)
     \/ \E t \in Senders : Speak(t)
     \/ \E f \in Fds : Serve(f) \/ Ping(f) \/ Drop(f) \/ \E n \in Nicks : Rename(f, n)
     \/ \E m \in Msgs : Say(m)

Spec == Init /\ [][Next]_vars

Fairness ==
  /\ \A t \in Threads : WF_vars(fault = "none" /\ Sending(t))
  /\ \A s \in Socks : /\ WF_vars(fault = "none" /\ Handler(s))
                      /\ SF_vars(fault = "none" /\ Reconnect(s))
  /\ \A f \in Fds : WF_vars(fault = "none" /\ Serve(f))

FairSpec == Spec /\ Fairness
-----------------------------------------------------------------------------
(* irc.c:427: the bot is in the channel once per socket, but a message said *)
(* there is handled at most once.                                           *)
HandledOnce == \A m \in Msgs : handled[m] <= 1

(* irc.c:287-298: conmtx makes the choice of a socket and the next choice   *)
(* one: the sockets take turns, whatever else is sent in between.           *)
TakeTurns == \A s, z \in Socks : sent[s] <= sent[z] + 1

(* core.c:141-175: the name the bot knows itself by on a socket, if it does *)
(* know it, is its nick there, once all lines that tell it so are read.     *)
KnowsItsName ==
  \A s \in Socks :
    socket[s] \in Fds /\ botname[s] # -1 /\ Registered(link[socket[s]]) /\ link[socket[s]].inn = <<>>
      => botname[s] = link[socket[s]].nick

(* core.c:126, "No available nicks": the bot gives up only when each nick   *)
(* of its list was asked for, or is being asked for, whichever sockets were *)
(* refused in turn.  (Two threads that are refused at the same time may ask *)
(* for the same nick and skip the next; "raced" is where that ends here.)   *)
GivesUpLast ==
  fault = "exit" /\ left.drops = MaxDrops =>
    \A n \in List : \/ n \in tried
                    \/ \E f \in Fds : \E i \in 1 .. Len(link[f].out) : link[f].out[i] = <<"NICK", n>>
                    \/ \E t \in Threads : msg[t] = <<"NICK", n>>

(* core.c:47-62, 96-104: a socket whose registration the server accepted    *)
(* gets into the channels, whatever the order the sockets register in.      *)
JoinsChannels ==
  \A f \in Fds : Registered(link[f]) ~> (link[f].joined \/ ~link[f].up \/ fault # "none")

(* core.c:34-44: a PING is answered on its socket.                          *)
PingsAnswered ==
  \A f \in Fds : (link[f].pings > 0) ~> (link[f].pings = 0 \/ fault # "none")

(* irc.c:2, "maintain a connection socket", and README:237-239: the core    *)
(* knows when to register.  A bot that is off the network gets back on it.  *)
StaysOnNetwork ==
  \A s \in Socks :
    (\A f \in Fds : link[f].owner = s => ~Registered(link[f]))
      ~> (fault # "none" \/ \E f \in Fds : link[f].owner = s /\ Registered(link[f]))
=============================================================================
