--------------------------- MODULE IrcConn_proofs ---------------------------
(* Theorems about IrcConn, for any number of sockets and threads.  Three   *)
(* inductive invariants, each on top of the one before it:                  *)
(*   IInv: the sockets take turns.  It rests on conmtx: the thread that     *)
(*     writes owns it, and the socket a thread of a module has chosen is    *)
(*     wsocket until it lets go of the lock.                                *)
(*   LinkInv: the types, and whose connection a descriptor is.  A message   *)
(*     of the channel that is handled was on its way to a socket once.      *)
(*     With it WindowInv: one thread at a time asks for a nick.             *)
(*   UserInv: which nick a socket that registers asks for, and what it      *)
(*     takes for its own.                                                   *)
EXTENDS IrcConn, SequenceTheorems, FiniteSetTheorems, TLAPS

LastSock == NSocks - 1

Types == /\ wsocket \in Socks /\ sent \in [Socks -> Nat]
         /\ pc \in [Threads -> PC] /\ to \in [Threads -> Seq(Socks)]

OwnerWrites == \A t \in Threads : pc[t] = "write" => conmtx = t

ChosenIsNext ==
  \A t \in Senders : /\ pc[t] = "lock" => to[t] = <<>>
                     /\ pc[t] = "write" => to[t] = <<wsocket>>

(* The sockets before wsocket are one message ahead.                        *)
Ahead == \A s \in Socks : sent[s] = IF s < wsocket THEN sent[LastSock] + 1 ELSE sent[LastSock]

IInv == Types /\ OwnerWrites /\ ChosenIsNext /\ Ahead

LEMMA LastIsSock == LastSock \in Socks /\ NSocks \in Nat /\ NSocks > 0
BY ConnAssumption DEF LastSock, Socks

LEMMA NextSocketIs ==
  ASSUME wsocket \in Socks
  PROVE  NextSocket = IF wsocket = LastSock THEN 0 ELSE wsocket + 1
<1>1. NSocks \in Nat /\ NSocks > 0 /\ wsocket \in Int /\ 0 <= wsocket /\ wsocket <= NSocks - 1
  BY LastIsSock DEF Socks
<1>2. CASE wsocket = LastSock
  BY <1>1, <1>2 DEF LastSock, NextSocket
<1>3. CASE wsocket # LastSock
  <2>1. wsocket + 1 \in 0 .. NSocks - 1
    BY <1>1, <1>3 DEF LastSock
  <2> QED BY <1>1, <1>3, <2>1 DEF NextSocket
<1> QED BY <1>2, <1>3

LEMMA InitIInv == Init => IInv
<1> SUFFICES ASSUME Init PROVE IInv
  OBVIOUS
<1>1. Types
  BY LastIsSock, EmptySeq DEF Init, Types, PC, Socks
<1>2. OwnerWrites /\ ChosenIsNext
  BY DEF Init, OwnerWrites, ChosenIsNext, Threads
<1>3. Ahead
  BY LastIsSock DEF Init, Ahead, Socks
<1> QED BY <1>1, <1>2, <1>3 DEF IInv

(* A step that writes nothing and moves one thread to a place that is not   *)
(* "write", an IRC thread to any such place.                                *)
LEMMA QuietStep ==
  ASSUME IInv, UNCHANGED outVars, NEW t \in Threads, NEW p \in PC \ {"write"}, NEW q \in Seq(Socks),
         pc' = [pc EXCEPT ![t] = p], to' = [to EXCEPT ![t] = q],
         t \in Senders => p = "lock" /\ q = <<>>
  PROVE  IInv'
<1> USE DEF IInv, outVars
<1>1. Types'
  BY DEF Types
<1>2. OwnerWrites'
  BY DEF OwnerWrites, Types
<1>3. ChosenIsNext'
  BY DEF ChosenIsNext, Types, Threads
<1>4. Ahead'
  BY DEF Ahead
<1> QED BY <1>1, <1>2, <1>3, <1>4

LEMMA SameStep ==
  ASSUME IInv, UNCHANGED <<outVars, pc, to>>
  PROVE  IInv'
BY DEF IInv, outVars, Types, OwnerWrites, ChosenIsNext, Ahead

LEMMA LockIInv ==
  ASSUME IInv, NEW t \in Threads, Lock(t)
  PROVE  IInv'
<1> USE DEF IInv, Lock, Choose
<1>1. \A u \in Threads : pc[u] # "write"
  BY ConnAssumption DEF OwnerWrites
<1>2. Types'
  BY DEF Types, PC
<1>3. OwnerWrites'
  BY <1>1 DEF OwnerWrites, Types
<1>4. ChosenIsNext'
  BY <1>1 DEF ChosenIsNext, Types, Threads
<1>5. Ahead'
  BY DEF Ahead
<1> QED BY <1>2, <1>3, <1>4, <1>5

LEMMA WriteIInv ==
  ASSUME IInv, NEW t \in Threads, Write(t)
  PROVE  IInv'
<1> USE DEF IInv
<1>0. pc[t] = "write" /\ conmtx = t /\ \A u \in Threads : u # t => pc[u] # "write"
  BY DEF Write, OwnerWrites
<1>1. CASE Len(to[t]) > 1
  <2>1. t \notin Senders
    <3> SUFFICES ASSUME t \in Senders PROVE FALSE
      OBVIOUS
    <3>1. to[t] = <<wsocket>>
      BY <1>0 DEF ChosenIsNext
    <3>2. Len(<<wsocket>>) = 1
      OBVIOUS
    <3> QED BY <1>1, <3>1, <3>2
  <2>2. Tail(to[t]) \in Seq(Socks)
    BY <1>1, EmptySeq, HeadTailProperties DEF Types
  <2>3. to' = [to EXCEPT ![t] = Tail(@)] /\ UNCHANGED <<outVars, pc>>
    BY <1>1 DEF Write, outVars
  <2>4. Types'
    BY <2>2, <2>3 DEF Types, outVars
  <2>5. OwnerWrites' /\ Ahead'
    BY <2>3 DEF OwnerWrites, Ahead, outVars
  <2>6. ChosenIsNext'
    BY <2>1, <2>3 DEF ChosenIsNext, Types, outVars, Threads
  <2> QED BY <2>4, <2>5, <2>6
<1>2. CASE ~(Len(to[t]) > 1)
  <2>1. PICK p \in {"idle", "counting"} : pc' = [pc EXCEPT ![t] = p] /\ to' = [to EXCEPT ![t] = <<>>]
    BY <1>2 DEF Write
  <2>2. OwnerWrites' /\ ChosenIsNext'
    BY <1>0, <2>1 DEF OwnerWrites, ChosenIsNext, Types, Threads
  <2>3. pc' \in [Threads -> PC] /\ to' \in [Threads -> Seq(Socks)]
    BY <2>1, EmptySeq DEF Types, PC
  <2>4. CASE t \notin Senders
    <3>1. UNCHANGED <<wsocket, sent>>
      BY <1>2, <2>4 DEF Write
    <3> QED BY <2>2, <2>3, <3>1 DEF Types, Ahead
  <2>5. CASE t \in Senders
    <3>1. to[t] = <<wsocket>> /\ Head(to[t]) = wsocket
      BY <1>0, <2>5 DEF ChosenIsNext
    <3>2. wsocket' = NextSocket /\ sent' = [sent EXCEPT ![wsocket] = @ + 1]
      BY <1>2, <2>5, <3>1 DEF Write
    <3>3. wsocket' = IF wsocket = LastSock THEN 0 ELSE wsocket + 1
      BY <3>2, NextSocketIs DEF Types
    <3>4. LastSock \in Socks /\ wsocket \in Socks /\ wsocket' \in Socks /\ sent' \in [Socks -> Nat]
      BY <3>2, <3>3, LastIsSock DEF Types, Socks, LastSock
    <3>5. ASSUME NEW s \in Socks
          PROVE  sent'[s] = IF s < wsocket' THEN sent'[LastSock] + 1 ELSE sent'[LastSock]
      <4>1. /\ sent[s] = IF s < wsocket THEN sent[LastSock] + 1 ELSE sent[LastSock]
            /\ sent[wsocket] = sent[LastSock]
            /\ sent \in [Socks -> Nat] /\ sent[LastSock] \in Nat
        BY <3>4 DEF Ahead, Types, Socks
      <4>2. s \in Int /\ wsocket \in Int /\ LastSock \in Int /\ 0 <= s /\ s <= LastSock /\ wsocket <= LastSock
        BY <3>4, LastIsSock DEF Socks, LastSock
      <4>3. /\ sent'[s] = IF s = wsocket THEN sent[wsocket] + 1 ELSE sent[s]
            /\ sent'[LastSock] = IF LastSock = wsocket THEN sent[wsocket] + 1 ELSE sent[LastSock]
        BY <3>2, <3>4, <4>1
      <4>4. CASE wsocket = LastSock
        BY <3>3, <4>1, <4>2, <4>3, <4>4
      <4>5. CASE wsocket # LastSock
        BY <3>3, <4>1, <4>2, <4>3, <4>5
      <4> QED BY <4>4, <4>5
    <3> QED BY <2>2, <2>3, <3>4, <3>5 DEF Types, Ahead
  <2> QED BY <2>4, <2>5
<1> QED BY <1>1, <1>2

LEMMA HandlerIInv ==
  ASSUME IInv, NEW s \in Socks, Handler(s)
  PROVE  IInv'
<1> s \in Threads /\ s \notin Senders
  BY ConnAssumption DEF Threads
<1>1. AllSocks \in Seq(Socks) /\ <<s>> \in Seq(Socks) /\ PC \ {"write"} = {"idle", "naming", "counting", "closed", "lock"}
  <2>1. AllSocks \in Seq(Socks)
    <3>1. \A i \in 1 .. NSocks : i - 1 \in Socks
      BY LastIsSock DEF Socks
    <3> QED BY <3>1, LastIsSock, IsASeq DEF AllSocks
  <2> QED BY <2>1 DEF PC
<1> USE <1>1 DEF Read, Send
<1>2. CASE OnPrivmsg(s)
  BY <1>2, SameStep DEF OnPrivmsg, threadVars
<1>3. CASE OnPing(s)
  BY <1>3, QuietStep DEF OnPing
<1>4. CASE OnClientRegistered(s)
  BY <1>4, QuietStep DEF OnClientRegistered
<1>5. CASE OnLoggedIn(s)
  BY <1>5, QuietStep DEF OnLoggedIn
<1>6. CASE OnUniqueId(s)
  BY <1>6, SameStep DEF OnUniqueId, threadVars
<1>7. CASE OnBotNickChange(s)
  BY <1>7, SameStep DEF OnBotNickChange, threadVars
<1>8. ASSUME NEW p \in PC \ {"write"}, pc' = [pc EXCEPT ![s] = p], to' = to, UNCHANGED outVars
      PROVE  IInv'
  <2>1. to[s] \in Seq(Socks) /\ to' = [to EXCEPT ![s] = to[s]]
    BY <1>8 DEF IInv, Types
  <2> QED BY <1>8, <2>1, QuietStep
<1>9. CASE OnNickInUse(s)
  BY <1>8, <1>9 DEF OnNickInUse
<1>10. CASE TryNick(s)
  <2>1. CASE attempts = Suffixes
    BY <1>10, <2>1, SameStep DEF TryNick
  <2>2. CASE attempts # Suffixes
    BY <1>10, <2>2, QuietStep DEF TryNick
  <2> QED BY <2>1, <2>2
<1>11. CASE Close(s)
  BY <1>8, <1>11 DEF Close
<1>12. CASE CountAttempt(s)
  BY <1>8, <1>12 DEF CountAttempt
<1> QED BY <1>2, <1>3, <1>4, <1>5, <1>6, <1>7, <1>9, <1>10, <1>11, <1>12 DEF Handler

LEMMA ConnectIInv ==
  ASSUME IInv, NEW s \in Socks, Reconnect(s) \/ ConnectFails(s) \/ AddressesRunOut(s) \/ HandshakeFails(s)
  PROVE  IInv'
<1> s \in Threads /\ s \notin Senders
  BY ConnAssumption DEF Threads
<1>1. CASE AddressesRunOut(s) \/ HandshakeFails(s)
  BY <1>1, SameStep DEF AddressesRunOut, HandshakeFails, threadVars
<1>2. CASE Reconnect(s) \/ ConnectFails(s)
  <2>1. pc' = [pc EXCEPT ![s] = "idle"] /\ to' = to /\ UNCHANGED outVars
    BY <1>2 DEF Reconnect, ConnectFails
  <2>2. to[s] \in Seq(Socks) /\ to' = [to EXCEPT ![s] = to[s]]
    BY <2>1 DEF IInv, Types
  <2> QED BY <2>1, <2>2, QuietStep DEF PC
<1> QED BY <1>1, <1>2

LEMMA NextIInv == IInv /\ [Next]_vars => IInv'
<1> SUFFICES ASSUME IInv, [Next]_vars PROVE IInv'
  OBVIOUS
<1>1. ASSUME NEW t \in Threads, Sending(t) PROVE IInv'
  BY <1>1, LockIInv, WriteIInv DEF Sending
<1>2. ASSUME NEW s \in Socks, Handler(s) \/ Reconnect(s) \/ ConnectFails(s) \/ AddressesRunOut(s) \/ HandshakeFails(s)
      PROVE  IInv'
  BY <1>2, HandlerIInv, ConnectIInv
<1>3. ASSUME NEW t \in Senders, Speak(t) PROVE IInv'
  BY <1>3, QuietStep, EmptySeq DEF Speak, Send, Threads, PC
<1>4. ASSUME NEW f \in Fds, NEW n \in Nicks, Serve(f) \/ Ping(f) \/ Drop(f) \/ Rename(f, n) PROVE IInv'
  BY <1>4, SameStep DEF Serve, Ping, Drop, Rename, Event, threadVars
<1>5. ASSUME NEW f \in Fds, Serve(f) \/ Ping(f) \/ Drop(f) PROVE IInv'
  BY <1>5, SameStep DEF Serve, Ping, Drop, Event, threadVars
<1>6. ASSUME NEW m \in Msgs, Say(m) PROVE IInv'
  BY <1>6, SameStep DEF Say, threadVars
<1>7. CASE UNCHANGED vars
  BY <1>7, SameStep DEF vars, threadVars
<1> QED BY <1>1, <1>2, <1>3, <1>4, <1>5, <1>6, <1>7 DEF Next

(* However the threads of modules and the IRC threads interleave, and       *)
(* whatever connections are lost, no socket gets two messages for any       *)
(* socket more than another.                                                *)
THEOREM SocketsTakeTurns == Spec => []TakeTurns
<1>1. IInv => TakeTurns
  <2> SUFFICES ASSUME IInv, NEW s \in Socks, NEW z \in Socks PROVE sent[s] <= sent[z] + 1
    BY DEF TakeTurns
  <2>1. sent[LastSock] \in Nat
    BY LastIsSock DEF IInv, Types
  <2> QED BY <2>1 DEF IInv, Ahead
<1> QED BY <1>1, InitIInv, NextIInv, PTL DEF Spec

(***************************************************************************)
(* What the connections carry.  The invariant has a part for what a thread *)
(* is sending, one for the owners of the descriptors, and one each for     *)
(* what is under way in the lines of a connection: PINGs, nicks, messages. *)
(***************************************************************************)
PingLine == <<"PING">>
PongLine == <<"PONG">>
TextLine == <<"TEXT">>

OutLines == {<<c>> : c \in {"USER", "JOIN", "PONG", "IDENTIFY", "TEXT"}} \cup {<<"NICK", n>> : n \in Nicks}
InLines == {<<c>> : c \in {"001", "433", "900", "PING"}} \cup {<<"PRIVMSG", m>> : m \in Msgs}
           \cup {<<"042", n>> : n \in Nicks} \cup {<<"NICK", n, k>> : n, k \in Nicks}

LinkState == [owner : Socks \cup {None}, up : BOOLEAN, nick : MaybeNick, user : BOOLEAN,
              joined : BOOLEAN, pings : Nat, inn : Seq(InLines), out : Seq(OutLines)]

TypeInv ==
  /\ login \in BOOLEAN
  /\ socket \in [Socks -> Fds \cup {-1}] /\ wsocket \in Socks
  /\ conmtx \in Threads \cup {None}
  /\ botname \in [Socks -> MaybeNick] /\ attempts \in 0 .. Suffixes
  /\ pc \in [Threads -> PC] /\ msg \in [Threads -> OutLines] /\ to \in [Threads -> Seq(Socks)]
  /\ link \in [Fds -> LinkState]
  /\ taken \subseteq Nicks /\ tried \subseteq Nicks /\ told \subseteq Msgs
  /\ handled \in [Msgs -> Nat] /\ sent \in [Socks -> Nat]
  /\ left \in [events : Nat, drops : Nat]
  /\ fault \in {"none", "exit", "killed", "raced"}

(* What a thread sends, and to whom; senders only send texts.               *)
SendInv ==
  /\ \A t \in Threads : /\ pc[t] = "write" => to[t] # <<>>
                        /\ pc[t] \notin {"lock", "write"} => msg[t] = TextLine
  /\ \A s \in Socks : msg[s] = PongLine => to[s] = <<s>>
  /\ \A t \in Senders : pc[t] \in {"idle", "lock", "write"} /\ msg[t] = TextLine

(* A connection belongs to the socket that has its descriptor.              *)
OwnerInv ==
  /\ \A f \in Fds : /\ link[f].owner # None =>
                          socket[link[f].owner] = f /\ pc[link[f].owner] # "closed"
                    /\ link[f].up => link[f].owner # None
  /\ \A s \in Socks : pc[s] # "closed" /\ socket[s] \in Fds => link[socket[s]].owner = s

(* Every PONG under way answers a PING of the same connection.              *)
Count(lines, line) == Cardinality({i \in 1 .. Len(lines) : lines[i] = line})
Answering(l) == IF msg[l.owner] = PongLine THEN 1 ELSE 0

PingOk(l) ==
  IF l.up THEN Count(l.inn, PingLine) + Count(l.out, PongLine) + Answering(l) <= l.pings
  ELSE l.pings = 0 /\ l.out = <<>> /\ l.nick = -1 /\ ~l.user /\ ~l.joined

PingInv == \A f \in Fds : PingOk(link[f])

(* No two connections have the same nick.                                   *)
NickInv == \A f, g \in Fds : f # g /\ link[f].nick = link[g].nick => link[f].nick = -1

(* The name a socket goes by after a line, and whether that is n after all  *)
(* of its lines, from the name it has or from the last line that gives one. *)
After(b, line) ==
  IF line[1] = "042" THEN line[2]
  ELSE IF line[1] = "NICK" /\ line[2] = b THEN line[3] ELSE b

Names(b, lines, n, j, name) ==
  /\ name[Len(lines)] = n
  /\ IF j = 0 THEN name[0] = b ELSE lines[j][1] = "042" /\ name[j] = lines[j][2]
  /\ \A i \in j + 1 .. Len(lines) : name[i] = After(name[i - 1], lines[i])

Told(b, lines, n) ==
  \E j \in 0 .. Len(lines) : \E name \in [j .. Len(lines) -> MaybeNick] : Names(b, lines, n, j, name)

NameOk(l) == Registered(l) => Told(botname[l.owner], l.inn, l.nick)

NameInv == \A f \in Fds : NameOk(link[f])

(* A message is in the lines of socket 0 or was handled there, once.        *)
OnceIn(lines, line, free) ==
  \A i \in DOMAIN lines : lines[i] = line => free /\ \A j \in DOMAIN lines : lines[j] = line => j = i

OnceInv ==
  \A m \in Msgs : /\ handled[m] <= 1 /\ (m \notin told => handled[m] = 0)
                  /\ \A f \in Fds : link[f].owner = 0 =>
                         OnceIn(link[f].inn, <<"PRIVMSG", m>>, m \in told /\ handled[m] = 0)

(* While no connection was lost, the nicks before attempts were asked for.  *)
Asked(n) == \/ n \in tried
            \/ \E f \in Fds : \E i \in 1 .. Len(link[f].out) : link[f].out[i] = <<"NICK", n>>
            \/ \E t \in Threads : msg[t] = <<"NICK", n>>

NoDrop == left.drops = MaxDrops

AskedInv ==
  /\ left.drops <= MaxDrops
  /\ NoDrop =>
    /\ \A s \in Socks : socket[s] \in Fds /\ pc[s] # "closed" /\ link[socket[s]].up
    /\ \A n \in List : n < attempts => Asked(n)
    /\ \A s \in Socks, n \in List : pc[s] = "counting" /\ n = attempts => Asked(n)
    /\ fault = "exit" => attempts = Suffixes

LinkInv == TypeInv /\ SendInv /\ OwnerInv /\ PingInv /\ NickInv /\ NameInv /\ OnceInv /\ AskedInv

(* One thread at a time is between its reading of nick_attempts and its     *)
(* counting, unless "raced": it asks for the nick that it counts.           *)
WindowInv ==
  fault = "none" =>
    /\ \A s, t \in Socks : InNickInUse(s) /\ InNickInUse(t) => s = t
    /\ \A s \in Socks : /\ pc[s] = "counting" => attempts # Suffixes
                        /\ msg[s][1] = "NICK" => msg[s] = <<"NICK", attempts>> /\ attempts # Suffixes

(***************************************************************************)
(* What adding a line at the end, or reading the first, does to each part. *)
(***************************************************************************)
LEMMA Snoc ==
  ASSUME NEW S, NEW s \in Seq(S), NEW a \in S, NEW b \in S
  PROVE  s \o <<a>> = Append(s, a) /\ s \o <<a, b>> = Append(Append(s, a), b)
<1>1. s \o <<a>> = Append(s, a)
  <2>1. /\ s \o <<a>> \in Seq(S) /\ Append(s, a) \in Seq(S) /\ Len(s) \in Nat
        /\ Len(s \o <<a>>) = Len(s) + 1 /\ Len(Append(s, a)) = Len(s) + 1
    BY ConcatProperties, AppendProperties, LenProperties
  <2>2. \A i \in 1 .. Len(s) + 1 : (s \o <<a>>)[i] = Append(s, a)[i]
    BY <2>1, ConcatProperties, AppendProperties
  <2> QED BY <2>1, <2>2, SeqEqual
<1>2. s \o <<a, b>> = Append(Append(s, a), b)
  <2>1. /\ s \o <<a, b>> \in Seq(S) /\ Append(s, a) \in Seq(S) /\ Append(Append(s, a), b) \in Seq(S)
        /\ Len(s) \in Nat /\ Len(Append(s, a)) = Len(s) + 1
        /\ Len(s \o <<a, b>>) = Len(s) + 2 /\ Len(Append(Append(s, a), b)) = Len(s) + 2
    BY ConcatProperties, AppendProperties, LenProperties
  <2>2. ASSUME NEW i \in 1 .. Len(s) + 2 PROVE (s \o <<a, b>>)[i] = Append(Append(s, a), b)[i]
    <3>1. CASE i <= Len(s)
      <4>1. (s \o <<a, b>>)[i] = s[i]
        BY <2>1, <3>1, ConcatProperties
      <4>2. Append(s, a)[i] = s[i] /\ Append(Append(s, a), b)[i] = Append(s, a)[i]
        BY <2>1, <3>1, AppendProperties
      <4> QED BY <4>1, <4>2
    <3>2. CASE i = Len(s) + 1
      <4>1. (s \o <<a, b>>)[i] = a
        BY <2>1, <3>2, ConcatProperties
      <4>2. Append(s, a)[i] = a /\ Append(Append(s, a), b)[i] = Append(s, a)[i]
        BY <2>1, <3>2, AppendProperties
      <4> QED BY <4>1, <4>2
    <3>3. CASE i = Len(s) + 2
      <4>1. (s \o <<a, b>>)[i] = b
        BY <2>1, <3>3, ConcatProperties
      <4>2. Append(Append(s, a), b)[i] = b
        BY <2>1, <3>3, AppendProperties
      <4> QED BY <4>1, <4>2
    <3> QED BY <2>1, <3>1, <3>2, <3>3
  <2> QED BY <2>1, <2>2, SeqEqual
<1> QED BY <1>1, <1>2

LEMMA CountType ==
  ASSUME NEW S, NEW s \in Seq(S), NEW e
  PROVE  Count(s, e) \in Nat
<1>1. IsFiniteSet(1 .. Len(s))
  BY LenProperties, FS_Interval
<1> QED BY <1>1, FS_Subset, FS_CardinalityType DEF Count

LEMMA CountAppend ==
  ASSUME NEW S, NEW s \in Seq(S), NEW a \in S, NEW e
  PROVE  Count(Append(s, a), e) = Count(s, e) + (IF a = e THEN 1 ELSE 0)
<1> DEFINE I == {i \in 1 .. Len(s) : s[i] = e}
           J == {i \in 1 .. Len(Append(s, a)) : Append(s, a)[i] = e}
<1>1. Len(s) \in Nat /\ Len(Append(s, a)) = Len(s) + 1 /\ Append(s, a)[Len(s) + 1] = a
      /\ \A i \in 1 .. Len(s) : Append(s, a)[i] = s[i]
  BY LenProperties, AppendProperties
<1>2. \A i : i \in J <=> i \in I \/ (i = Len(s) + 1 /\ a = e)
  BY <1>1
<1>3. IsFiniteSet(I) /\ Len(s) + 1 \notin I
  <2>1. IsFiniteSet(1 .. Len(s))
    BY <1>1, FS_Interval
  <2> QED BY <1>1, <2>1, FS_Subset
<1>4. J = IF a = e THEN I \cup {Len(s) + 1} ELSE I
  <2> HIDE DEF I, J
  <2> QED BY <1>2
<1>5. Cardinality(I) \in Nat /\ Cardinality(I \cup {Len(s) + 1}) = Cardinality(I) + 1
  BY <1>3, FS_AddElement, FS_CardinalityType
<1>6. Count(s, e) = Cardinality(I) /\ Count(Append(s, a), e) = Cardinality(J)
  BY DEF Count
<1> HIDE DEF I, J
<1> QED BY <1>4, <1>5, <1>6

LEMMA CountTail ==
  ASSUME NEW S, NEW s \in Seq(S), s # <<>>, NEW e
  PROVE  Count(s, e) = Count(Tail(s), e) + (IF Head(s) = e THEN 1 ELSE 0)
<1> DEFINE T == {i \in 1 .. Len(Tail(s)) : Tail(s)[i] = e}
           I == {i \in 1 .. Len(s) : s[i] = e}
           R == {i \in I : i # 1}
           g == [i \in T |-> i + 1]
<1>1. Len(s) \in Nat /\ Len(s) > 0 /\ Len(Tail(s)) = Len(s) - 1 /\ Head(s) = s[1]
      /\ \A i \in 1 .. Len(Tail(s)) : Tail(s)[i] = s[i + 1]
  BY LenProperties, EmptySeq, HeadTailProperties
<1>2. IsFiniteSet(T) /\ IsFiniteSet(R)
  <2>1. IsFiniteSet(1 .. Len(s)) /\ IsFiniteSet(1 .. Len(Tail(s)))
    BY <1>1, FS_Interval
  <2> QED BY <2>1, FS_Subset
<1>3. g \in Bijection(T, R)
  <2>1. \A i \in T : i + 1 \in R
    BY <1>1
  <2>2. ASSUME NEW i \in R PROVE i - 1 \in T /\ i = (i - 1) + 1
    <3>1. i \in 1 .. Len(s) /\ i # 1 /\ s[i] = e
      OBVIOUS
    <3>2. i - 1 \in 1 .. Len(Tail(s)) /\ (i - 1) + 1 = i
      BY <1>1, <3>1
    <3> QED BY <1>1, <3>1, <3>2
  <2>3. g \in [T -> R]
    BY <2>1
  <2>4. \A i, j \in T : g[i] = g[j] => i = j
    BY <1>1
  <2>5. \A i \in R : \E j \in T : g[j] = i
    BY <2>2
  <2> HIDE DEF g, T, R
  <2> QED BY <2>3, <2>4, <2>5 DEF Bijection, Injection, IsInjective, Surjection
<1>4. Cardinality(R) = Cardinality(T) /\ Cardinality(T) \in Nat
  <2>1. ExistsBijection(T, R)
    BY <1>3 DEF ExistsBijection
  <2> QED BY <1>2, <2>1, FS_Bijection, FS_CardinalityType
<1>5. I = IF Head(s) = e THEN R \cup {1} ELSE R
  BY <1>1
<1>6. Cardinality(R \cup {1}) = Cardinality(R) + 1
  <2>1. 1 \notin R
    OBVIOUS
  <2> QED BY <1>2, <2>1, FS_AddElement
<1>7. Count(s, e) = Cardinality(I) /\ Count(Tail(s), e) = Cardinality(T)
  BY DEF Count
<1> HIDE DEF I, R, T
<1> QED BY <1>4, <1>5, <1>6, <1>7

LEMMA OnceAppend ==
  ASSUME NEW S, NEW s \in Seq(S), NEW a \in S, NEW e, NEW free \in BOOLEAN, OnceIn(s, e, free),
         a = e => free /\ \A i \in 1 .. Len(s) : s[i] # e
  PROVE  OnceIn(Append(s, a), e, free)
<1>1. Len(s) \in Nat /\ DOMAIN s = 1 .. Len(s) /\ DOMAIN Append(s, a) = 1 .. Len(s) + 1
      /\ Append(s, a)[Len(s) + 1] = a /\ \A i \in 1 .. Len(s) : Append(s, a)[i] = s[i]
  BY LenProperties, AppendProperties
<1>2. \A i \in 1 .. Len(s) + 1 : i \in 1 .. Len(s) \/ i = Len(s) + 1
  BY <1>1
<1> QED BY <1>1, <1>2 DEF OnceIn

\* Reading the line itself leaves no other.
LEMMA OnceTail ==
  ASSUME NEW S, NEW s \in Seq(S), s # <<>>, NEW e, NEW free \in BOOLEAN, OnceIn(s, e, free)
  PROVE  /\ OnceIn(Tail(s), e, free)
         /\ Head(s) = e => free /\ \A i \in DOMAIN Tail(s) : Tail(s)[i] # e
<1>1. Len(s) \in Nat /\ Len(s) > 0 /\ DOMAIN s = 1 .. Len(s) /\ DOMAIN Tail(s) = 1 .. Len(s) - 1
      /\ Head(s) = s[1] /\ \A i \in 1 .. Len(s) - 1 : Tail(s)[i] = s[i + 1]
  BY LenProperties, EmptySeq, HeadTailProperties
<1>2. \A i \in 1 .. Len(s) - 1 : i + 1 \in DOMAIN s /\ i + 1 # 1 /\ i \in Int
  BY <1>1
<1>3. 1 \in DOMAIN s
  BY <1>1
<1> QED BY <1>1, <1>2, <1>3 DEF OnceIn

LEMMA ToldNothing ==
  ASSUME NEW b, NEW n, Told(b, <<>>, n)
  PROVE  b = n
BY DEF Told, Names

LEMMA ToldAnew ==
  ASSUME NEW b, NEW s \in Seq(InLines), NEW n \in Nicks
  PROVE  Told(b, Append(s, <<"042", n>>), n)
<1> DEFINE t == Append(s, <<"042", n>>)
           j == Len(t)
           name == [i \in j .. j |-> n]
<1>1. <<"042", n>> \in InLines
  BY DEF InLines
<1>2. j \in Nat /\ j > 0 /\ t[j] = <<"042", n>>
  BY <1>1, LenProperties, AppendProperties
<1>3. j \in 0 .. j /\ j \in j .. j /\ \A i \in j + 1 .. j : FALSE
  BY <1>2
<1>4. name \in [j .. j -> MaybeNick] /\ name[j] = n
  BY <1>3 DEF MaybeNick
<1> HIDE DEF t, name
<1>5. Names(b, t, n, j, name)
  BY <1>2, <1>3, <1>4 DEF Names
<1> HIDE DEF j
<1> QED BY <1>3, <1>4, <1>5 DEF Told, t, j

LEMMA ToldMore ==
  ASSUME NEW b, NEW s \in Seq(InLines), NEW a \in InLines, NEW n, Told(b, s, n), After(n, a) \in MaybeNick
  PROVE  Told(b, Append(s, a), After(n, a))
<1> DEFINE t == Append(s, a)
           k == Len(s)
<1>1. k \in Nat /\ Len(t) = k + 1 /\ t[k + 1] = a /\ \A i \in 1 .. k : t[i] = s[i]
  BY LenProperties, AppendProperties
<1>3. PICK l \in 0 .. k : \E name \in [l .. k -> MaybeNick] : Names(b, s, n, l, name)
  BY DEF Told
<1>4. PICK old \in [l .. k -> MaybeNick] :
         /\ old[k] = n
         /\ IF l = 0 THEN old[0] = b ELSE s[l][1] = "042" /\ old[l] = s[l][2]
         /\ \A i \in l + 1 .. k : old[i] = After(old[i - 1], s[i])
  BY <1>3 DEF Names
<1> DEFINE new == [i \in l .. k + 1 |-> IF i = k + 1 THEN After(n, a) ELSE old[i]]
<1>5. \A i \in l .. k + 1 : i = k + 1 \/ i \in l .. k
  BY <1>1
<1>6. new \in [l .. k + 1 -> MaybeNick]
  BY <1>5
<1>7. l \in 0 .. k + 1 /\ l \in l .. k /\ k + 1 \in l .. k + 1 /\ k \in l .. k /\ k + 1 \notin l .. k
  BY <1>1
<1>8. new[k + 1] = After(n, a) /\ new[l] = old[l] /\ new[k] = n
  BY <1>1, <1>4, <1>7
<1>9. ASSUME NEW i \in l + 1 .. k + 1 PROVE new[i] = After(new[i - 1], t[i])
  <2>1. CASE i = k + 1
    <3>1. i - 1 = k
      BY <1>1, <2>1
    <3> QED BY <1>1, <1>8, <2>1, <3>1, ZenonT(60)
  <2>2. CASE i # k + 1
    <3>1. i \in l + 1 .. k /\ i \in 1 .. k /\ i - 1 \in l .. k + 1 /\ i - 1 # k + 1 /\ i \in l .. k + 1
      BY <1>1, <2>2
    <3> QED BY <1>1, <1>4, <2>2, <3>1
  <2> QED BY <2>1, <2>2, SMTT(60)
<1>10. IF l = 0 THEN new[0] = b ELSE t[l][1] = "042" /\ new[l] = t[l][2]
  <2>1. l # 0 => t[l] = s[l]
    BY <1>1
  <2> QED BY <1>4, <1>8, <2>1
<1> HIDE DEF new
<1>11. Names(b, t, After(n, a), l, new)
  BY <1>1, <1>8, <1>9, <1>10 DEF Names
<1> QED BY <1>1, <1>6, <1>7, <1>11 DEF Told

LEMMA ToldRead ==
  ASSUME NEW b, NEW s \in Seq(InLines), s # <<>>, NEW n, Told(b, s, n)
  PROVE  Told(After(b, Head(s)), Tail(s), n)
<1> DEFINE t == Tail(s)
           k == Len(s)
<1>1. k \in Nat /\ k > 0 /\ Len(t) = k - 1 /\ Head(s) = s[1] /\ \A i \in 1 .. k - 1 : t[i] = s[i + 1]
  BY LenProperties, EmptySeq, HeadTailProperties
<1>2. PICK l \in 0 .. k : \E name \in [l .. k -> MaybeNick] : Names(b, s, n, l, name)
  BY DEF Told
<1>3. PICK old \in [l .. k -> MaybeNick] :
         /\ old[k] = n
         /\ IF l = 0 THEN old[0] = b ELSE s[l][1] = "042" /\ old[l] = s[l][2]
         /\ \A i \in l + 1 .. k : old[i] = After(old[i - 1], s[i])
  BY <1>2 DEF Names
<1> DEFINE j == IF l = 0 THEN 0 ELSE l - 1
           new == [i \in j .. k - 1 |-> old[i + 1]]
<1>4. j \in 0 .. k - 1 /\ j \in Nat /\ \A i \in j .. k - 1 : i + 1 \in l .. k
  BY <1>1
<1>5. new \in [j .. k - 1 -> MaybeNick]
  BY <1>3, <1>4
<1>6. new[k - 1] = n
  <2>1. k - 1 \in j .. k - 1 /\ (k - 1) + 1 = k
    BY <1>1, <1>4
  <2> QED BY <1>3, <2>1
<1>7. IF j = 0 THEN new[0] = After(b, Head(s)) ELSE t[j][1] = "042" /\ new[j] = t[j][2]
  <2>1. CASE l = 0
    <3>1. 1 \in l + 1 .. k /\ 0 \in j .. k - 1 /\ 0 + 1 = 1 /\ 1 - 1 = 0
      BY <1>1, <2>1
    <3>2. old[1] = After(old[0], s[1]) /\ new[0] = old[1] /\ old[0] = b
      BY <1>3, <2>1, <3>1
    <3> QED BY <1>1, <2>1, <3>2
  <2>2. CASE l = 1
    <3>1. old[1] = s[1][2] /\ s[1][1] = "042" /\ 0 \in j .. k - 1 /\ 0 + 1 = 1 /\ j = 0
      BY <1>1, <1>3, <2>2
    <3>2. new[0] = old[1]
      BY <3>1
    <3> QED BY <1>1, <3>1, <3>2 DEF After
  <2>3. CASE l # 0 /\ l # 1
    <3>1. j # 0 /\ j = l - 1 /\ j + 1 = l /\ j \in 1 .. k - 1 /\ j \in j .. k - 1
      BY <1>1, <2>3
    <3>2. t[j] = s[l] /\ new[j] = old[l] /\ s[l][1] = "042" /\ old[l] = s[l][2]
      BY <1>1, <1>3, <2>3, <3>1
    <3> QED BY <3>1, <3>2
  <2> QED BY <2>1, <2>2, <2>3
<1>8. ASSUME NEW i \in j + 1 .. k - 1 PROVE new[i] = After(new[i - 1], t[i])
  <2>1. /\ i \in j .. k - 1 /\ i - 1 \in j .. k - 1 /\ i \in 1 .. k - 1 /\ i + 1 \in l + 1 .. k
        /\ (i + 1) - 1 = i /\ (i - 1) + 1 = i
    BY <1>1, <1>4
  <2>2. old[i + 1] = After(old[i], s[i + 1])
    BY <1>3, <2>1
  <2>3. new[i] = old[i + 1] /\ new[i - 1] = old[i] /\ t[i] = s[i + 1]
    BY <1>1, <2>1
  <2> QED BY <2>2, <2>3
<1> HIDE DEF new, j
<1>9. Names(After(b, Head(s)), t, n, j, new)
  BY <1>1, <1>6, <1>7, <1>8 DEF Names
<1> QED BY <1>1, <1>4, <1>5, <1>9 DEF Told

(***************************************************************************)
(* Types of what the steps put into a connection.                          *)
(***************************************************************************)
LEMMA ThreadsAre ==
  /\ Socks \subseteq Threads /\ Senders \subseteq Threads /\ Threads = Socks \cup Senders
  /\ Senders \cap Socks = {} /\ None \notin Threads /\ 0 \in Socks
BY ConnAssumption DEF Threads, Socks

LEMMA LinkTypes ==
  ASSUME LinkInv
  PROVE  /\ socket \in [Socks -> Fds \cup {-1}] /\ botname \in [Socks -> MaybeNick]
         /\ pc \in [Threads -> PC] /\ msg \in [Threads -> OutLines] /\ to \in [Threads -> Seq(Socks)]
         /\ link \in [Fds -> LinkState] /\ handled \in [Msgs -> Nat] /\ told \subseteq Msgs /\ tried \subseteq Nicks
         /\ left.drops \in Nat /\ left.events \in Nat /\ left \in [events : Nat, drops : Nat]
         /\ attempts \in 0 .. Suffixes
BY DEF LinkInv, TypeInv

LEMMA LinkFields ==
  ASSUME NEW l \in LinkState
  PROVE  /\ l.owner \in Socks \cup {None} /\ l.up \in BOOLEAN /\ l.nick \in MaybeNick /\ l.user \in BOOLEAN
         /\ l.joined \in BOOLEAN /\ l.pings \in Nat /\ l.inn \in Seq(InLines) /\ l.out \in Seq(OutLines)
BY DEF LinkState

\* l and k are the same connection but for the lines and the PINGs.
Alike(k, l) == k.owner = l.owner /\ k.up = l.up /\ k.nick = l.nick /\ k.user = l.user /\ k.joined = l.joined

LEMMA InnSet ==
  ASSUME NEW l \in LinkState, NEW lines \in Seq(InLines)
  PROVE  LET k == [l EXCEPT !.inn = lines]
         IN k \in LinkState /\ Alike(k, l) /\ k.pings = l.pings /\ k.inn = lines /\ k.out = l.out
BY DEF LinkState, Alike

LEMMA OutSet ==
  ASSUME NEW l \in LinkState, NEW lines \in Seq(OutLines)
  PROVE  LET k == [l EXCEPT !.out = lines]
         IN k \in LinkState /\ Alike(k, l) /\ k.pings = l.pings /\ k.inn = l.inn /\ k.out = lines
BY DEF LinkState, Alike

LEMMA PingsSet ==
  ASSUME NEW l \in LinkState, NEW n \in Nat
  PROVE  LET k == [l EXCEPT !.pings = n]
         IN k \in LinkState /\ Alike(k, l) /\ k.pings = n /\ k.inn = l.inn /\ k.out = l.out
BY DEF LinkState, Alike

LEMMA FreshLinks ==
  /\ Closed \in LinkState /\ Closed.owner = None /\ ~Closed.up /\ Closed.inn = <<>> /\ Closed.out = <<>>
  /\ \A s \in Socks : /\ Opened(s) \in LinkState /\ Opened(s).owner = s /\ Opened(s).up /\ Opened(s).nick = -1
                      /\ ~Opened(s).user /\ Opened(s).pings = 0 /\ Opened(s).inn = <<>> /\ Opened(s).out = <<>>
  /\ Closed.pings = 0 /\ Closed.nick = -1 /\ ~Closed.user /\ ~Closed.joined
<1>1. <<>> \in Seq(InLines) /\ <<>> \in Seq(OutLines)
  BY EmptySeq
<1>2. 0 \in Nat /\ -1 \in MaybeNick
  BY DEF MaybeNick
<1> QED BY <1>1, <1>2 DEF Closed, Opened, LinkState

LEMMA LinesAre ==
  /\ TextLine \in OutLines /\ PongLine \in OutLines /\ <<"JOIN">> \in OutLines /\ <<"IDENTIFY">> \in OutLines
  /\ PingLine \in InLines /\ <<"001">> \in InLines /\ <<"433">> \in InLines /\ <<"900">> \in InLines
  /\ \A n \in Nicks : <<"NICK", n>> \in OutLines /\ <<"042", n>> \in InLines
  /\ \A n, k \in Nicks : <<"NICK", n, k>> \in InLines
  /\ \A m \in Msgs : <<"PRIVMSG", m>> \in InLines
BY DEF TextLine, PongLine, PingLine, OutLines, InLines

LEMMA AllSocksAre == AllSocks \in Seq(Socks) /\ AllSocks # <<>>
<1>1. \A i \in 1 .. NSocks : i - 1 \in Socks
  BY LastIsSock DEF Socks
<1>2. NSocks \in Nat /\ NSocks > 0
  BY LastIsSock
<1>3. AllSocks \in Seq(Socks) /\ Len(AllSocks) = NSocks
  BY <1>1, <1>2, IsASeq DEF AllSocks
<1>4. Len(<<>>) = 0
  OBVIOUS
<1> QED BY <1>2, <1>3, <1>4

(***************************************************************************)
(* What of the invariant a step keeps that changes threads only.           *)
(***************************************************************************)
LEMMA OwnerKept ==
  ASSUME OwnerInv, TypeInv, socket' = socket,
         \A s \in Socks : pc'[s] = "closed" <=> pc[s] = "closed",
         \A f \in Fds : link'[f].owner = link[f].owner /\ (link'[f].up => link[f].up)
  PROVE  OwnerInv'
<1>1. \A f \in Fds : link[f].owner \in Socks \cup {None}
  BY LinkFields DEF TypeInv
<1>2. \A s \in Socks : socket[s] \in Fds \cup {-1}
  BY DEF TypeInv
<1> QED BY <1>1, <1>2 DEF OwnerInv

LEMMA AskedKept ==
  ASSUME AskedInv, left'.drops = left.drops, attempts' = attempts, fault' = "exit" => fault = "exit",
         NoDrop => \A s \in Socks : socket'[s] \in Fds /\ pc'[s] # "closed" /\ link'[socket'[s]].up,
         NoDrop => \A s \in Socks : pc'[s] = "counting" => pc[s] = "counting",
         NoDrop => \A n \in List : Asked(n) => Asked(n)'
  PROVE  AskedInv'
BY DEF AskedInv, NoDrop

LEMMA LinksKept ==
  ASSUME LinkInv, UNCHANGED <<socket, botname, link, told, handled>>,
         \A s \in Socks : pc'[s] = "closed" <=> pc[s] = "closed",
         \A s \in Socks : msg'[s] = PongLine => msg[s] = PongLine
  PROVE  OwnerInv' /\ PingInv' /\ NickInv' /\ NameInv' /\ OnceInv'
<1> USE LinkTypes DEF LinkInv
<1>1. OwnerInv'
  BY OwnerKept
<1>2. PingInv'
  <2> SUFFICES ASSUME NEW f \in Fds PROVE PingOk(link[f])'
    BY DEF PingInv
  <2> DEFINE l == link[f]
  <2>1. l \in LinkState /\ l.owner \in Socks \cup {None} /\ l' = l /\ PingOk(l) /\ (l.up => l.owner # None)
    BY LinkFields DEF PingInv, OwnerInv
  <2>2. Count(l.inn, PingLine) \in Nat /\ Count(l.out, PongLine) \in Nat /\ l.pings \in Nat
    BY <2>1, LinkFields, CountType
  <2>3. CASE l.up
    <3>1. Answering(l)' <= Answering(l) /\ Answering(l) \in Nat /\ Answering(l)' \in Nat
      BY <2>1, <2>3 DEF Answering
    <3>2. Count(l.inn, PingLine) + Count(l.out, PongLine) + Answering(l)' <= l.pings
      BY <2>1, <2>2, <2>3, <3>1 DEF PingOk
    <3> QED BY <2>1, <2>3, <3>2 DEF PingOk, Count, PingLine, PongLine
  <2>4. CASE ~l.up
    BY <2>1, <2>4 DEF PingOk
  <2> QED BY <2>3, <2>4
<1>3. NickInv'
  BY DEF NickInv
<1>4. NameInv'
  BY DEF NameInv, NameOk, Registered
<1>5. OnceInv'
  BY DEF OnceInv
<1> QED BY <1>1, <1>2, <1>3, <1>4, <1>5

LEMMA LockLinks == ASSUME LinkInv, NEW t \in Threads, Lock(t) PROVE LinkInv'
<1> USE LinkTypes, ThreadsAre
<1>1. /\ pc[t] = "lock" /\ pc' = [pc EXCEPT ![t] = "write"] /\ conmtx' = t
      /\ to' = [to EXCEPT ![t] = IF to[t] = <<>> THEN <<wsocket>> ELSE to[t]]
      /\ UNCHANGED <<socket, wsocket, sent, nameVars, msg, worldVars, link, handled, left, fault>>
  BY DEF Lock, Choose
<1>2. TypeInv'
  <2>1. wsocket \in Socks
    BY DEF LinkInv, TypeInv
  <2>2. pc' \in [Threads -> PC] /\ to' \in [Threads -> Seq(Socks)]
    BY <1>1, <2>1 DEF PC
  <2> QED BY <1>1, <2>2 DEF LinkInv, TypeInv, nameVars, worldVars
<1>3. SendInv'
  <2>1. <<wsocket>> # <<>>
    OBVIOUS
  <2>2. \A s \in Socks : msg[s] = PongLine => to[s] = <<s>> /\ <<s>> # <<>>
    BY DEF LinkInv, SendInv
  <2> QED BY <1>1, <2>1, <2>2 DEF LinkInv, SendInv
<1>4. OwnerInv' /\ PingInv' /\ NickInv' /\ NameInv' /\ OnceInv'
  BY <1>1, LinksKept DEF nameVars, worldVars
<1>5. AskedInv'
  BY <1>1, AskedKept DEF LinkInv, AskedInv, Asked, NoDrop, worldVars, nameVars
<1> QED BY <1>2, <1>3, <1>4, <1>5 DEF LinkInv

LEMMA SpeakLinks == ASSUME LinkInv, NEW t \in Senders, Speak(t) PROVE LinkInv'
<1> USE LinkTypes, ThreadsAre
<1>1. /\ pc[t] = "idle" /\ pc' = [pc EXCEPT ![t] = "lock"] /\ to' = [to EXCEPT ![t] = <<>>]
      /\ msg' = [msg EXCEPT ![t] = TextLine] /\ left' = [left EXCEPT !.events = left.events - 1] /\ left.events > 0
      /\ UNCHANGED <<socket, outVars, nameVars, worldVars, link, handled, fault>>
  BY DEF Speak, Send, TextLine
<1>2. left' \in [events : Nat, drops : Nat] /\ left'.drops = left.drops
  <2>1. left.events - 1 \in Nat
    BY <1>1
  <2> QED BY <1>1, <2>1
<1>3. TypeInv'
  <2>1. pc' \in [Threads -> PC] /\ to' \in [Threads -> Seq(Socks)] /\ msg' \in [Threads -> OutLines]
    BY <1>1, LinesAre, EmptySeq DEF PC
  <2> QED BY <1>1, <1>2, <2>1 DEF LinkInv, TypeInv, nameVars, worldVars, outVars
<1>4. msg[t] = TextLine /\ msg' = msg
  BY <1>1 DEF LinkInv, SendInv
<1>5. SendInv'
  BY <1>1, <1>4, SMTT(60) DEF LinkInv, SendInv
<1>6. OwnerInv' /\ PingInv' /\ NickInv' /\ NameInv' /\ OnceInv'
  BY <1>1, <1>4, LinksKept DEF nameVars, worldVars
<1>7. AskedInv'
  <2>1. \A n \in List : Asked(n) => Asked(n)'
    BY <1>1, <1>4 DEF Asked, worldVars
  <2>2. NoDrop => \A s \in Socks : socket[s] \in Fds /\ pc[s] # "closed" /\ link[socket[s]].up
    BY DEF LinkInv, AskedInv
  <2>3. \A s \in Socks : pc'[s] = pc[s]
    BY <1>1
  <2>4. UNCHANGED <<attempts, fault, socket, link>>
    BY <1>1 DEF nameVars
  <2> QED BY <1>2, <2>1, <2>2, <2>3, <2>4, AskedKept DEF LinkInv
<1> QED BY <1>3, <1>5, <1>6, <1>7 DEF LinkInv

LEMMA TryNickLinks == ASSUME LinkInv, NEW s \in Socks, TryNick(s) PROVE LinkInv'
<1> USE LinkTypes, ThreadsAre
<1>1. pc[s] = "naming" /\ UNCHANGED <<socket, outVars, nameVars, worldVars, link, handled, left>>
  BY DEF TryNick
<1>2. CASE attempts = Suffixes
  <2>1. fault' = "exit" /\ UNCHANGED <<pc, msg, to>>
    BY <1>2 DEF TryNick
  <2>2. TypeInv' /\ SendInv'
    BY <1>1, <2>1 DEF LinkInv, TypeInv, SendInv, worldVars, outVars, nameVars
  <2>3. OwnerInv' /\ PingInv' /\ NickInv' /\ NameInv' /\ OnceInv'
    BY <1>1, <2>1, LinksKept DEF worldVars, nameVars
  <2>4. AskedInv'
    BY <1>1, <1>2, <2>1 DEF LinkInv, AskedInv, Asked, NoDrop, worldVars, nameVars
  <2> QED BY <2>2, <2>3, <2>4 DEF LinkInv
<1>3. CASE attempts # Suffixes
  <2>1. /\ pc' = [pc EXCEPT ![s] = "lock"] /\ to' = [to EXCEPT ![s] = <<s>>]
        /\ msg' = [msg EXCEPT ![s] = <<"NICK", attempts>>] /\ UNCHANGED fault
    BY <1>3 DEF TryNick, Send
  <2>2. attempts \in Nicks
    BY ConnAssumption DEF Nicks, List
  <2>3. <<"NICK", attempts>> \in OutLines /\ <<"NICK", attempts>> # PongLine /\ <<"NICK", attempts>> # TextLine
    BY <2>2, LinesAre DEF PongLine, TextLine
  <2>4. msg[s] = TextLine /\ \A n : TextLine # <<"NICK", n>>
    BY <1>1 DEF LinkInv, SendInv, TextLine
  <2>5. TypeInv'
    <3>1. pc' \in [Threads -> PC] /\ to' \in [Threads -> Seq(Socks)] /\ msg' \in [Threads -> OutLines]
      BY <2>1, <2>3 DEF PC
    <3> QED BY <1>1, <2>1, <3>1 DEF LinkInv, TypeInv, worldVars, outVars, nameVars
  <2>6. SendInv'
    BY <2>1, <2>3, ZenonT(60) DEF LinkInv, SendInv
  <2>7. OwnerInv' /\ PingInv' /\ NickInv' /\ NameInv' /\ OnceInv'
    BY <1>1, <2>1, <2>3, LinksKept DEF worldVars, nameVars
  <2>8. AskedInv'
    <3>1. \A n : Asked(n) => Asked(n)'
      BY <1>1, <2>1, <2>4 DEF Asked, worldVars
    <3>2. NoDrop => \A z \in Socks : socket'[z] \in Fds /\ pc'[z] # "closed" /\ link'[socket'[z]].up
      BY <1>1, <2>1 DEF LinkInv, AskedInv
    <3> QED BY <1>1, <2>1, <3>1, <3>2, AskedKept DEF LinkInv, nameVars
  <2> QED BY <2>5, <2>6, <2>7, <2>8 DEF LinkInv
<1> QED BY <1>2, <1>3

LEMMA CountAttemptLinks ==
  ASSUME LinkInv, WindowInv, fault = "none", NEW s \in Socks, CountAttempt(s)
  PROVE  LinkInv'
<1> USE LinkTypes, ThreadsAre
<1>1. /\ pc[s] = "counting" /\ pc' = [pc EXCEPT ![s] = "idle"] /\ attempts' = attempts + 1
      /\ UNCHANGED <<socket, outVars, botname, msg, to, worldVars, link, handled, left, fault>>
  BY DEF CountAttempt
<1>2. attempts \in 0 .. Suffixes - 1 /\ \A t \in Socks : pc[t] = "counting" => t = s
  BY <1>1, ConnAssumption DEF WindowInv, InNickInUse
<1>3. TypeInv'
  <2>1. pc' \in [Threads -> PC] /\ attempts' \in 0 .. Suffixes
    BY <1>1, <1>2, ConnAssumption DEF PC
  <2> QED BY <1>1, <2>1 DEF LinkInv, TypeInv, worldVars, outVars
<1>4. SendInv'
  BY <1>1 DEF LinkInv, SendInv
<1>5. OwnerInv' /\ PingInv' /\ NickInv' /\ NameInv' /\ OnceInv'
  BY <1>1, LinksKept DEF worldVars
<1>6. AskedInv'
  <2>1. NoDrop => \A n \in List : n < attempts' => Asked(n)
    <3>1. \A n \in List : n < attempts' => n < attempts \/ n = attempts
      BY <1>1, <1>2 DEF List
    <3> QED BY <1>1, <3>1 DEF LinkInv, AskedInv
  <2>2. \A n : Asked(n) => Asked(n)'
    BY <1>1 DEF Asked, worldVars
  <2>3. \A t \in Socks : pc'[t] # "counting"
    BY <1>1, <1>2
  <2> QED BY <1>1, <2>1, <2>2, <2>3 DEF LinkInv, AskedInv, NoDrop
<1> QED BY <1>3, <1>4, <1>5, <1>6 DEF LinkInv

\* The program ends in setup_irc_connection.
LEMMA SetupEndsLinks == ASSUME LinkInv, NEW s \in Socks, AddressesRunOut(s) \/ HandshakeFails(s) PROVE LinkInv'
<1> USE LinkTypes, ThreadsAre
<1>1. /\ pc[s] = "closed" /\ fault' \in {"exit", "killed"}
      /\ UNCHANGED <<socket, outVars, nameVars, threadVars, worldVars, link, handled, left>>
  BY DEF AddressesRunOut, HandshakeFails
<1>2. TypeInv' /\ SendInv'
  BY <1>1 DEF LinkInv, TypeInv, SendInv, worldVars, outVars, nameVars, threadVars
<1>3. OwnerInv' /\ PingInv' /\ NickInv' /\ NameInv' /\ OnceInv'
  BY <1>1, LinksKept DEF worldVars, threadVars, nameVars
<1>4. AskedInv'
  BY <1>1 DEF LinkInv, AskedInv, NoDrop
<1> QED BY <1>2, <1>3, <1>4 DEF LinkInv

(***************************************************************************)
(* A thread reads a line: the steps of the hooks have one form, which      *)
(* differs in the name, the message that is handled and what is sent.      *)
(***************************************************************************)
LEMMA InLineIs ==
  ASSUME NEW h \in InLines
  PROVE  /\ h[1] = "PING" => h = PingLine
         /\ h[1] = "PRIVMSG" => \E m \in Msgs : h = <<"PRIVMSG", m>>
         /\ h[1] = "042" => h[2] \in Nicks
         /\ h[1] = "NICK" => h[3] \in Nicks
<1>1. CASE \E c \in {"001", "433", "900", "PING"} : h = <<c>>
  BY <1>1 DEF PingLine
<1>2. CASE \E m \in Msgs : h = <<"PRIVMSG", m>>
  BY <1>2
<1>3. CASE \E n \in Nicks : h = <<"042", n>>
  BY <1>3
<1>4. CASE \E n, k \in Nicks : h = <<"NICK", n, k>>
  BY <1>4
<1> QED BY <1>1, <1>2, <1>3, <1>4 DEF InLines

LEMMA AfterType ==
  ASSUME NEW b \in MaybeNick, NEW h \in InLines
  PROVE  After(b, h) \in MaybeNick
BY InLineIs DEF After, MaybeNick

\* The connections of other sockets are other connections.
LEMMA OtherOwner ==
  ASSUME LinkInv, NEW s \in Socks, NEW f \in Fds, socket[s] = f, NEW g \in Fds, g # f
  PROVE  link[g].owner # s
BY ThreadsAre DEF LinkInv, OwnerInv

\* The thread of s takes the first line of its connection f.
Reads(s, f) == /\ socket[s] = f /\ pc[s] = "idle" /\ link[f].inn # <<>>
               /\ link' = [link EXCEPT ![f].inn = Tail(@)]

(* What reading the first line of f makes of the connections.               *)
LEMMA ReadLinks ==
  ASSUME LinkInv, NEW s \in Socks, NEW f \in Fds, Reads(s, f)
  PROVE  /\ link' \in [Fds -> LinkState]
         /\ \A g \in Fds : g # f => link'[g] = link[g]
         /\ Alike(link'[f], link[f]) /\ link'[f].pings = link[f].pings
         /\ link'[f].inn = Tail(link[f].inn) /\ link'[f].out = link[f].out
         /\ link[f].owner = s /\ msg[s] = TextLine
         /\ Head(link[f].inn) \in InLines /\ Tail(link[f].inn) \in Seq(InLines)
<1>1. link \in [Fds -> LinkState] /\ link[f] \in LinkState /\ link[f].inn \in Seq(InLines)
  BY LinkTypes, LinkFields
<1>2. Tail(link[f].inn) \in Seq(InLines) /\ Head(link[f].inn) \in InLines
  BY <1>1, EmptySeq, HeadTailProperties DEF Reads
<1> DEFINE k == [link[f] EXCEPT !.inn = Tail(link[f].inn)]
<1>3. /\ k \in LinkState /\ Alike(k, link[f]) /\ k.pings = link[f].pings
      /\ k.inn = Tail(link[f].inn) /\ k.out = link[f].out
  BY <1>1, <1>2, InnSet
<1>4. link' = [link EXCEPT ![f] = k]
  BY DEF Reads
<1> HIDE DEF k
<1>5. link'[f] = k /\ link' \in [Fds -> LinkState] /\ \A g \in Fds : g # f => link'[g] = link[g]
  BY <1>1, <1>3, <1>4
<1>6. link[f].owner = s
  BY DEF LinkInv, OwnerInv, Reads
<1>7. msg[s] = TextLine
  BY ThreadsAre DEF LinkInv, SendInv, Reads
<1> QED BY <1>2, <1>3, <1>5, <1>6, <1>7

LEMMA ReadPings ==
  ASSUME LinkInv, NEW s \in Socks, NEW f \in Fds, Reads(s, f),
         NEW line, msg' = [msg EXCEPT ![s] = line], line = PongLine => Head(link[f].inn) = PingLine
  PROVE  PingInv'
<1> SUFFICES ASSUME NEW g \in Fds PROVE PingOk(link[g])'
  BY DEF PingInv
<1>1. /\ PingOk(link[g]) /\ link[g] \in LinkState /\ (link[g].up => link[g].owner \in Socks)
      /\ msg \in [Threads -> OutLines] /\ Socks \subseteq Threads
  BY LinkTypes, LinkFields, ThreadsAre DEF LinkInv, PingInv, OwnerInv
<1>2. CASE g # f
  <2>1. link'[g] = link[g] /\ link[g].owner # s
    BY <1>2, OtherOwner, ReadLinks DEF Reads
  <2>2. link[g].up => msg'[link[g].owner] = msg[link[g].owner]
    BY <1>1, <2>1
  <2>3. CASE link[g].up
    <3>1. Answering(link[g])' = Answering(link[g])
      BY <2>1, <2>2, <2>3 DEF Answering, PongLine
    <3> QED BY <1>1, <2>1, <3>1 DEF PingOk, Count, PingLine, PongLine
  <2>4. CASE ~link[g].up
    BY <1>1, <2>1, <2>4 DEF PingOk
  <2> QED BY <2>3, <2>4
<1>3. CASE g = f
  <2> DEFINE l == link[f]
             tail == Tail(l.inn)
  <2>0. /\ Alike(link'[f], l) /\ link'[f].pings = l.pings /\ link'[f].inn = tail /\ link'[f].out = l.out
        /\ l.owner = s /\ msg[s] = TextLine /\ tail \in Seq(InLines)
    BY ReadLinks
  <2>1. l.inn \in Seq(InLines) /\ l.out \in Seq(OutLines) /\ l.pings \in Nat
    BY <1>1, <1>3, LinkFields
  <2>2. /\ Count(tail, PingLine) \in Nat /\ Count(l.out, PongLine) \in Nat
        /\ Count(l.inn, PingLine) = Count(tail, PingLine) + (IF Head(l.inn) = PingLine THEN 1 ELSE 0)
    <3>1. Count(l.inn, PingLine) = Count(tail, PingLine) + (IF Head(l.inn) = PingLine THEN 1 ELSE 0)
      BY <2>1, CountTail DEF Reads
    <3> QED BY <2>0, <2>1, <3>1, CountType
  <2>3. Answering(l) = 0
    BY <2>0 DEF Answering, TextLine, PongLine
  <2>4. Answering(l)' = IF line = PongLine THEN 1 ELSE 0
    <3>1. msg'[s] = line /\ link'[f].owner = s
      BY <1>1, <2>0 DEF Alike
    <3> QED BY <3>1 DEF Answering, PongLine
  <2>5. CASE l.up
    <3>1. Count(l.inn, PingLine) + Count(l.out, PongLine) + 0 <= l.pings
      BY <1>1, <1>3, <2>3, <2>5 DEF PingOk
    <3>2. ASSUME NEW a \in Nat, NEW b \in Nat, NEW c, NEW p \in Nat, c + b + 0 <= p, NEW x, NEW y,
                 c = a + (IF x THEN 1 ELSE 0), y => x
          PROVE  a + b + (IF y THEN 1 ELSE 0) <= p
      BY <3>2
    <3>3. Count(tail, PingLine) + Count(l.out, PongLine) + (IF line = PongLine THEN 1 ELSE 0) <= l.pings
      <4> HIDE DEF l, tail
      <4>1. line = PongLine => Head(l.inn) = PingLine
        BY DEF l
      <4> QED BY <2>1, <2>2, <3>1, <4>1
    <3> QED BY <1>3, <2>0, <2>4, <2>5, <3>3 DEF PingOk, Count, PingLine, PongLine, Alike
  <2>6. CASE ~l.up
    BY <1>1, <1>3, <2>0, <2>6 DEF PingOk, Alike
  <2> QED BY <2>5, <2>6
<1> QED BY <1>2, <1>3

LEMMA ReadNames ==
  ASSUME LinkInv, NEW s \in Socks, NEW f \in Fds, Reads(s, f),
         botname' = [botname EXCEPT ![s] = After(botname[s], Head(link[f].inn))]
  PROVE  NameInv'
<1> SUFFICES ASSUME NEW g \in Fds, Registered(link'[g]) PROVE Told(botname'[link'[g].owner], link'[g].inn, link'[g].nick)
  BY DEF NameInv, NameOk, Registered, Told, Names, After
<1>0. link[g] \in LinkState /\ botname \in [Socks -> MaybeNick] /\ link[f] \in LinkState
  BY LinkTypes
<1>1. CASE g # f
  <2>1. link'[g] = link[g] /\ link[g].owner # s
    BY <1>1, OtherOwner, ReadLinks, SMTT(60) DEF Reads
  <2>2. Told(botname[link[g].owner], link[g].inn, link[g].nick) /\ link[g].up
    BY <2>1 DEF LinkInv, NameInv, NameOk, Registered
  <2>3. link[g].owner \in Socks
    BY <1>0, <2>2, LinkFields DEF LinkInv, OwnerInv
  <2>4. botname'[link[g].owner] = botname[link[g].owner]
    BY <1>0, <2>1, <2>3
  <2> QED BY <2>1, <2>2, <2>4
<1>2. CASE g = f
  <2>0. Alike(link'[f], link[f]) /\ link'[f].inn = Tail(link[f].inn) /\ link[f].owner = s
    BY ReadLinks
  <2>1. link'[f].owner = s /\ link'[f].nick = link[f].nick /\ Registered(link[f])
    BY <1>2, <2>0 DEF Alike, Registered
  <2>2. Told(botname[s], link[f].inn, link[f].nick)
    BY <2>0, <2>1 DEF LinkInv, NameInv, NameOk
  <2>3. Told(After(botname[s], Head(link[f].inn)), Tail(link[f].inn), link[f].nick)
    <3>1. link[f].inn \in Seq(InLines)
      BY <1>0, LinkFields
    <3> QED BY <2>2, <3>1, ToldRead DEF Reads
  <2>4. botname'[s] = After(botname[s], Head(link[f].inn))
    BY <1>0
  <2> QED BY <1>2, <2>0, <2>1, <2>3, <2>4
<1> QED BY <1>1, <1>2

LEMMA ReadOnce ==
  ASSUME LinkInv, NEW s \in Socks, NEW f \in Fds, Reads(s, f), told' = told, NEW h, h = Head(link[f].inn),
         handled' = IF s = 0 /\ h[1] = "PRIVMSG" THEN [handled EXCEPT ![h[2]] = @ + 1] ELSE handled
  PROVE  OnceInv' /\ handled' \in [Msgs -> Nat]
<1>0. handled \in [Msgs -> Nat] /\ link[f] \in LinkState
  BY LinkTypes
<1>1. link[f].inn \in Seq(InLines)
  BY <1>0, LinkFields
<1>2. handled' \in [Msgs -> Nat]
  <2>1. \A m \in Msgs : handled[m] + 1 \in Nat
    BY <1>0
  <2> QED BY <1>0, <2>1
<1>3. /\ \A g \in Fds : g # f => link'[g] = link[g]
      /\ link'[f].owner = s /\ link[f].owner = s /\ link'[f].inn = Tail(link[f].inn) /\ h \in InLines
  BY ReadLinks DEF Alike
<1>4. ASSUME NEW m \in Msgs
      PROVE  /\ handled'[m] <= 1 /\ (m \notin told => handled'[m] = 0)
             /\ \A g \in Fds : link'[g].owner = 0 =>
                  OnceIn(link'[g].inn, <<"PRIVMSG", m>>, m \in told /\ handled'[m] = 0)
  <2> DEFINE line == <<"PRIVMSG", m>>
             free == m \in told /\ handled[m] = 0
  <2>1. /\ handled[m] <= 1 /\ (m \notin told => handled[m] = 0)
        /\ \A g \in Fds : link[g].owner = 0 => OnceIn(link[g].inn, line, free)
    BY DEF LinkInv, OnceInv
  <2>2. OnceIn(link[f].inn, line, free) =>
          /\ OnceIn(Tail(link[f].inn), line, free)
          /\ h = line => free /\ \A i \in DOMAIN Tail(link[f].inn) : Tail(link[f].inn)[i] # line
    <3> HIDE DEF line
    <3>1. free \in BOOLEAN
      OBVIOUS
    <3> HIDE DEF free
    <3> QED BY <1>1, <3>1, OnceTail DEF Reads
  <2>3. CASE s = 0 /\ h = line
    <3>1. \A g \in Fds : g # f => link'[g].owner # 0
      <4>1. \A g \in Fds : g # f => link[g].owner # 0
        BY <2>3, OtherOwner DEF Reads
      <4> QED BY <1>3, <4>1
    <3>2. free /\ \A i \in DOMAIN Tail(link[f].inn) : Tail(link[f].inn)[i] # line
      BY <1>3, <2>1, <2>2, <2>3
    <3>3. handled'[m] = 1
      BY <1>0, <2>3, <3>2
    <3>4. ASSUME NEW g \in Fds, link'[g].owner = 0 PROVE \A i \in DOMAIN link'[g].inn : link'[g].inn[i] # line
      BY <1>3, <3>1, <3>2, <3>4
    <3> QED BY <3>2, <3>3, <3>4 DEF OnceIn
  <2>4. CASE ~(s = 0 /\ h = line)
    <3>1. handled'[m] = handled[m]
      <4>1. h[1] = "PRIVMSG" => \E n \in Msgs : h = <<"PRIVMSG", n>>
        BY <1>3, InLineIs
      <4>2. CASE s = 0 /\ h[1] = "PRIVMSG"
        <5>1. h[2] # m
          BY <2>4, <4>1, <4>2
        <5> QED BY <1>0, <4>2, <5>1
      <4> QED BY <4>2
    <3>2. ASSUME NEW g \in Fds, link'[g].owner = 0 PROVE OnceIn(link'[g].inn, line, free)
      <4>1. CASE g = f
        BY <1>3, <2>1, <2>2, <3>2, <4>1
      <4>2. CASE g # f
        BY <1>3, <2>1, <3>2, <4>2
      <4> QED BY <4>1, <4>2
    <3> QED BY <2>1, <3>1, <3>2
  <2> QED BY <2>3, <2>4
<1>5. OnceInv'
  BY <1>4 DEF OnceInv, OnceIn
<1> QED BY <1>2, <1>5

LEMMA ReadStep ==
  ASSUME LinkInv, NEW s \in Socks, NEW f \in Fds, Reads(s, f), NEW h, h = Head(link[f].inn),
         UNCHANGED <<socket, outVars, worldVars, left, attempts>>,
         NEW p \in {"idle", "naming", "lock"}, NEW line \in OutLines, NEW q \in Seq(Socks),
         pc' = [pc EXCEPT ![s] = p], msg' = [msg EXCEPT ![s] = line], to' = [to EXCEPT ![s] = q],
         p # "lock" => line = TextLine, line = PongLine => h = PingLine /\ q = <<s>>,
         botname' = [botname EXCEPT ![s] = After(botname[s], h)],
         handled' = IF s = 0 /\ h[1] = "PRIVMSG" THEN [handled EXCEPT ![h[2]] = @ + 1] ELSE handled,
         fault' \in {fault, "raced"}
  PROVE  LinkInv'
<1>0. /\ Socks \subseteq Threads /\ Senders \subseteq Threads /\ Senders \cap Socks = {}
      /\ botname \in [Socks -> MaybeNick] /\ pc \in [Threads -> PC] /\ msg \in [Threads -> OutLines]
      /\ to \in [Threads -> Seq(Socks)]
  BY LinkTypes, ThreadsAre, SMTT(60)
<1>a. h \in InLines /\ msg[s] = TextLine /\ link' \in [Fds -> LinkState]
  BY ReadLinks
<1>1. OnceInv' /\ handled' \in [Msgs -> Nat]
  BY ReadOnce DEF worldVars
<1>2. NameInv' /\ PingInv'
  BY ReadNames, ReadPings
<1>3. TypeInv'
  <2>1. pc' \in [Threads -> PC] /\ to' \in [Threads -> Seq(Socks)] /\ msg' \in [Threads -> OutLines]
    BY <1>0 DEF PC
  <2>2. botname' \in [Socks -> MaybeNick]
    BY <1>0, <1>a, AfterType
  <2>4. UNCHANGED <<login, socket, wsocket, conmtx, sent, taken, tried, told, left, attempts>>
    BY DEF outVars, worldVars
  <2>5. fault' \in {"none", "exit", "killed", "raced"}
    BY DEF LinkInv, TypeInv
  <2>6. TypeInv
    BY DEF LinkInv
  <2> QED BY <1>1, <1>a, <2>1, <2>2, <2>4, <2>5, <2>6 DEF TypeInv
<1>4. SendInv'
  <2>1. ASSUME NEW t \in Threads PROVE (pc'[t] = "write" => to'[t] # <<>>) /\ (pc'[t] \notin {"lock", "write"} => msg'[t] = TextLine)
    <3>1. t # s => pc'[t] = pc[t] /\ to'[t] = to[t] /\ msg'[t] = msg[t]
      BY <1>0
    <3>2. t = s => pc'[t] = p /\ msg'[t] = line
      BY <1>0
    <3> QED BY <3>1, <3>2 DEF LinkInv, SendInv, Reads
  <2>2. ASSUME NEW z \in Socks, msg'[z] = PongLine PROVE to'[z] = <<z>>
    BY <1>0, <2>2 DEF LinkInv, SendInv
  <2>3. ASSUME NEW t \in Senders PROVE pc'[t] \in {"idle", "lock", "write"} /\ msg'[t] = TextLine
    BY <1>0 DEF LinkInv, SendInv
  <2> QED BY <2>1, <2>2, <2>3 DEF SendInv, TextLine, PongLine
<1>5. \A g \in Fds : link'[g].owner = link[g].owner /\ link'[g].up = link[g].up /\ link'[g].out = link[g].out
                     /\ link'[g].nick = link[g].nick
  BY ReadLinks DEF Alike
<1>6. OwnerInv'
  <2>1. \A z \in Socks : pc'[z] = "closed" <=> pc[z] = "closed"
    BY <1>0 DEF Reads
  <2> QED BY <1>5, <2>1, OwnerKept DEF LinkInv
<1>7. NickInv'
  BY <1>5 DEF LinkInv, NickInv
<1>8. AskedInv'
  <2>1. ASSUME NEW n \in List, Asked(n) PROVE Asked(n)'
    <3>1. tried' = tried /\ TextLine # <<"NICK", n>>
      BY DEF worldVars, TextLine
    <3>2. \A t \in Threads : t # s => msg'[t] = msg[t]
      BY <1>0
    <3>3. CASE \E t \in Threads : msg[t] = <<"NICK", n>>
      <4>1. \E t \in Threads : msg'[t] = <<"NICK", n>>
        BY <1>a, <3>1, <3>2, <3>3
      <4> QED BY <4>1 DEF Asked
    <3>4. CASE \E g \in Fds : \E i \in 1 .. Len(link[g].out) : link[g].out[i] = <<"NICK", n>>
      <4>1. \E g \in Fds : \E i \in 1 .. Len(link'[g].out) : link'[g].out[i] = <<"NICK", n>>
        BY <1>5, <3>4
      <4> QED BY <4>1 DEF Asked
    <3> QED BY <2>1, <3>1, <3>3, <3>4 DEF Asked
  <2>2. NoDrop => \A z \in Socks : socket[z] \in Fds /\ pc[z] # "closed" /\ link[socket[z]].up
    BY DEF LinkInv, AskedInv
  <2>3. NoDrop => \A z \in Socks : socket'[z] \in Fds /\ pc'[z] # "closed" /\ link'[socket'[z]].up
    BY <1>0, <1>5, <2>2 DEF Reads
  <2>4. left'.drops = left.drops /\ attempts' = attempts /\ (fault' = "exit" => fault = "exit")
    OBVIOUS
  <2>5. \A z \in Socks : pc'[z] = "counting" => pc[z] = "counting"
    BY <1>0
  <2> QED BY <2>1, <2>3, <2>4, <2>5, AskedKept DEF LinkInv
<1> QED BY <1>1, <1>2, <1>3, <1>4, <1>6, <1>7, <1>8 DEF LinkInv

LEMMA ReadIs ==
  ASSUME LinkInv, NEW s \in Socks, NEW cmd, Read(s, cmd)
  PROVE  /\ socket[s] \in Fds /\ Reads(s, socket[s]) /\ Line(s) = Head(link[socket[s]].inn)
         /\ Line(s) \in InLines /\ Line(s)[1] = cmd
         /\ UNCHANGED <<socket, outVars, worldVars, left>>
         /\ pc = [pc EXCEPT ![s] = "idle"] /\ msg = [msg EXCEPT ![s] = TextLine]
         /\ to = [to EXCEPT ![s] = to[s]] /\ to[s] \in Seq(Socks)
         /\ botname \in [Socks -> MaybeNick] /\ botname = [botname EXCEPT ![s] = botname[s]]
<1>1. socket[s] \in Fds /\ Reads(s, socket[s]) /\ Line(s) = Head(link[socket[s]].inn) /\ Line(s)[1] = cmd
  BY DEF Read, Reads, Line
<1>2. Line(s) \in InLines /\ msg[s] = TextLine /\ pc[s] = "idle"
  BY <1>1, ReadLinks, ZenonT(60) DEF Reads
<1>3. /\ Socks \subseteq Threads /\ botname \in [Socks -> MaybeNick] /\ pc \in [Threads -> PC]
      /\ msg \in [Threads -> OutLines] /\ to \in [Threads -> Seq(Socks)]
  BY LinkTypes, ThreadsAre
<1>4. UNCHANGED <<socket, outVars, worldVars, left>>
  BY DEF Read
<1> QED BY <1>1, <1>2, <1>3, <1>4

\* A hook that sends a line.
LEMMA HookSends ==
  ASSUME LinkInv, NEW s \in Socks, NEW cmd \in {"PING", "001", "900"}, Read(s, cmd),
         NEW line \in OutLines, NEW q \in Seq(Socks), Send(s, line, q), UNCHANGED <<nameVars, handled, fault>>,
         line = PongLine => cmd = "PING" /\ q = <<s>>
  PROVE  LinkInv'
<1>1. Line(s) = PingLine \/ cmd # "PING"
  BY ReadIs, InLineIs
<1>2. After(botname[s], Line(s)) = botname[s]
  BY ReadIs DEF After
<1>3. pc' = [pc EXCEPT ![s] = "lock"] /\ msg' = [msg EXCEPT ![s] = line] /\ to' = [to EXCEPT ![s] = q]
  BY DEF Send
<1>4. /\ botname' = [botname EXCEPT ![s] = After(botname[s], Line(s))] /\ attempts' = attempts
      /\ handled' = IF s = 0 /\ Line(s)[1] = "PRIVMSG" THEN [handled EXCEPT ![Line(s)[2]] = @ + 1] ELSE handled
  BY <1>2, ReadIs, SMTT(60) DEF nameVars
<1> QED BY <1>1, <1>3, <1>4, ReadIs, ReadStep

\* A hook that sends nothing.
LEMMA HookListens ==
  ASSUME LinkInv, NEW s \in Socks, NEW cmd, Read(s, cmd), NEW p \in {"idle", "naming"},
         pc' = [pc EXCEPT ![s] = p], UNCHANGED <<msg, to, attempts>>, fault' \in {fault, "raced"},
         botname' = [botname EXCEPT ![s] = After(botname[s], Line(s))],
         handled' = IF s = 0 /\ Line(s)[1] = "PRIVMSG" THEN [handled EXCEPT ![Line(s)[2]] = @ + 1] ELSE handled
  PROVE  LinkInv'
<1>1. TextLine \in OutLines /\ TextLine # PongLine
  BY LinesAre DEF TextLine, PongLine
<1>2. /\ socket[s] \in Fds /\ Reads(s, socket[s]) /\ Line(s) = Head(link[socket[s]].inn) /\ to[s] \in Seq(Socks)
      /\ UNCHANGED <<socket, outVars, worldVars, left, attempts>>
  BY ReadIs
<1>3. msg' = [msg EXCEPT ![s] = TextLine] /\ to' = [to EXCEPT ![s] = to[s]]
  BY ReadIs
<1> QED BY <1>1, <1>2, <1>3, ReadStep, ZenonT(60)

LEMMA HandlerLinks ==
  ASSUME LinkInv, WindowInv, fault = "none", NEW s \in Socks, Handler(s), ~Close(s)
  PROVE  LinkInv'
<1>0. <<s>> \in Seq(Socks) /\ AllSocks \in Seq(Socks)
  BY AllSocksAre
<1>1. CASE OnPrivmsg(s)
  <2>1. Read(s, "PRIVMSG")
    BY <1>1 DEF OnPrivmsg
  <2>2. After(botname[s], Line(s)) = botname[s] /\ Line(s)[1] = "PRIVMSG"
    BY <2>1, ReadIs DEF After
  <2> QED BY <1>1, <2>1, <2>2, ReadIs, HookListens DEF OnPrivmsg, nameVars, threadVars
<1>2. CASE OnPing(s)
  <2>1. PongLine \in OutLines
    BY LinesAre
  <2> QED BY <1>0, <1>2, <2>1, HookSends DEF OnPing, PongLine
<1>3. CASE OnClientRegistered(s)
  <2>1. <<"IDENTIFY">> \in OutLines /\ <<"JOIN">> \in OutLines /\ <<"IDENTIFY">> # PongLine /\ <<"JOIN">> # PongLine
    BY LinesAre DEF PongLine
  <2> QED BY <1>0, <1>3, <2>1, HookSends DEF OnClientRegistered
<1>4. CASE OnLoggedIn(s)
  <2>1. <<"JOIN">> \in OutLines /\ <<"JOIN">> # PongLine
    BY LinesAre DEF PongLine
  <2> QED BY <1>0, <1>4, <2>1, HookSends DEF OnLoggedIn
<1>5. CASE OnUniqueId(s)
  <2>1. Read(s, "042") /\ botname' = [botname EXCEPT ![s] = Line(s)[2]] /\ UNCHANGED <<attempts, threadVars, handled, fault>>
    BY <1>5 DEF OnUniqueId
  <2>2. After(botname[s], Line(s)) = Line(s)[2] /\ Line(s)[1] = "042"
    BY <2>1, ReadIs DEF After
  <2> QED BY <2>1, <2>2, ReadIs, HookListens DEF threadVars
<1>6. CASE OnBotNickChange(s)
  <2>1. /\ Read(s, "NICK") /\ UNCHANGED <<attempts, threadVars, handled, fault>>
        /\ botname' = IF botname[s] = Line(s)[2] THEN [botname EXCEPT ![s] = Line(s)[3]] ELSE botname
    BY <1>6 DEF OnBotNickChange
  <2>2. Line(s)[1] = "NICK" /\ botname = [botname EXCEPT ![s] = botname[s]]
    BY <2>1, ReadIs
  <2>3. botname' = [botname EXCEPT ![s] = After(botname[s], Line(s))]
    BY <2>1, <2>2 DEF After
  <2> QED BY <2>1, <2>2, <2>3, ReadIs, HookListens DEF threadVars
<1>7. CASE OnNickInUse(s)
  <2>1. /\ Read(s, "433") /\ UNCHANGED <<nameVars, msg, to, handled>> /\ fault' \in {fault, "raced"}
        /\ pc' = [pc EXCEPT ![s] = "naming"]
    BY <1>7 DEF OnNickInUse
  <2>2. Line(s)[1] = "433" /\ botname = [botname EXCEPT ![s] = botname[s]]
    BY <2>1, ReadIs
  <2>3. botname' = [botname EXCEPT ![s] = After(botname[s], Line(s))]
    BY <2>1, <2>2 DEF After, nameVars
  <2> QED BY <2>1, <2>2, <2>3, HookListens DEF nameVars
<1>8. CASE TryNick(s)
  BY <1>8, TryNickLinks
<1>9. CASE CountAttempt(s)
  BY <1>9, CountAttemptLinks
<1> QED BY <1>1, <1>2, <1>3, <1>4, <1>5, <1>6, <1>7, <1>8, <1>9 DEF Handler

(***************************************************************************)
(* Connections that are closed, opened or lost.                            *)
(***************************************************************************)
LEMMA CountNone == ASSUME NEW e PROVE Count(<<>>, e) = 0
<1>1. Len(<<>>) = 0 /\ 1 .. 0 = {}
  OBVIOUS
<1>2. {i \in 1 .. Len(<<>>) : <<>>[i] = e} = {}
  BY <1>1
<1> QED BY <1>2, FS_EmptySet DEF Count

\* A connection that does not change, of a thread that starts no PONG.
LEMMA PingStays ==
  ASSUME NEW l \in LinkState, PingOk(l), l.up => (msg'[l.owner] = PongLine => msg[l.owner] = PongLine)
  PROVE  IF l.up THEN Count(l.inn, PingLine) + Count(l.out, PongLine)
                      + (IF msg'[l.owner] = PongLine THEN 1 ELSE 0) <= l.pings
         ELSE l.pings = 0 /\ l.out = <<>> /\ l.nick = -1 /\ ~l.user /\ ~l.joined
<1>1. Count(l.inn, PingLine) \in Nat /\ Count(l.out, PongLine) \in Nat /\ l.pings \in Nat
  BY LinkFields, CountType
<1>2. CASE l.up
  <2> DEFINE a == Count(l.inn, PingLine)
             b == Count(l.out, PongLine)
  <2>1. a + b + (IF msg[l.owner] = PongLine THEN 1 ELSE 0) <= l.pings
    BY <1>2 DEF PingOk, Answering
  <2> HIDE DEF a, b
  <2>2. a \in Nat /\ b \in Nat
    BY <1>1 DEF a, b
  <2>3. a + b + (IF msg'[l.owner] = PongLine THEN 1 ELSE 0) <= l.pings
    BY <1>1, <1>2, <2>1, <2>2
  <2> QED BY <1>2, <2>3 DEF a, b
<1>3. CASE ~l.up
  BY <1>3 DEF PingOk
<1> QED BY <1>2, <1>3

\* A connection f that becomes k, which nothing has happened on yet.
LEMMA LinkAnew ==
  ASSUME LinkInv, NEW f \in Fds, NEW k \in LinkState, link' = [link EXCEPT ![f] = k],
         k.pings = 0, k.out = <<>>, k.nick = -1, ~k.user, ~k.joined,
         k.up => k.inn = <<>> /\ k.owner \in Socks /\ pc[k.owner] = "closed",
         k.owner = 0 => k.inn = <<>> \/ (k.inn = link[f].inn /\ link[f].owner = 0),
         UNCHANGED <<botname, msg, told, handled>>
  PROVE  /\ link' \in [Fds -> LinkState] /\ link'[f] = k /\ \A g \in Fds : g # f => link'[g] = link[g]
         /\ PingInv' /\ NickInv' /\ NameInv' /\ OnceInv'
<1>1. link' \in [Fds -> LinkState] /\ link'[f] = k /\ \A g \in Fds : g # f => link'[g] = link[g]
  BY LinkTypes
<1>2. PingInv'
  <2>1. ASSUME NEW g \in Fds PROVE PingOk(link[g])'
    <3>1. CASE g # f
      <4>1. PingOk(link[g]) /\ link[g] \in LinkState /\ link'[g] = link[g]
        BY <1>1, <3>1, LinkTypes DEF LinkInv, PingInv
      <4> QED BY <4>1, PingStays, ZenonT(60) DEF PingOk, Answering, Count, PingLine, PongLine
    <3>2. CASE g = f
      <4>1. CASE k.up
        <5>1. msg[k.owner] = TextLine
          BY <4>1, ThreadsAre DEF LinkInv, SendInv
        <5>2. (IF msg'[k.owner] = PongLine THEN 1 ELSE 0) = 0
          BY <5>1 DEF TextLine, PongLine
        <5>3. Count(k.inn, PingLine) = 0 /\ Count(k.out, PongLine) = 0
          BY <4>1, CountNone
        <5>4. PingOk(link[f])' <=> Count(k.inn, PingLine) + Count(k.out, PongLine)
                                     + (IF msg'[k.owner] = PongLine THEN 1 ELSE 0) <= k.pings
          BY <1>1, <4>1, ZenonT(60) DEF PingOk, Answering, Count, PingLine, PongLine
        <5> QED BY <3>2, <5>2, <5>3, <5>4
      <4>2. CASE ~k.up
        BY <1>1, <3>2, <4>2 DEF PingOk
      <4> QED BY <4>1, <4>2
    <3> QED BY <3>1, <3>2
  <2> QED BY <2>1 DEF PingInv
<1>3. NickInv'
  BY <1>1 DEF LinkInv, NickInv
<1>4. NameInv'
  <2>1. ASSUME NEW g \in Fds PROVE NameOk(link[g])'
    <3>1. CASE g # f
      <4>1. NameOk(link[g]) /\ link'[g] = link[g]
        BY <1>1, <3>1 DEF LinkInv, NameInv
      <4> QED BY <4>1 DEF NameOk, Registered, Told, Names, After
    <3>2. CASE g = f
      BY <1>1, <3>2 DEF NameOk, Registered
    <3> QED BY <3>1, <3>2
  <2> QED BY <2>1 DEF NameInv
<1>5. OnceInv'
  <2>1. ASSUME NEW m \in Msgs, NEW g \in Fds, link'[g].owner = 0
        PROVE  OnceIn(link'[g].inn, <<"PRIVMSG", m>>, m \in told /\ handled[m] = 0)
    <3>1. link'[g].inn = <<>> \/ (link'[g].inn = link[g].inn /\ link[g].owner = 0)
      BY <1>1, <2>1
    <3>2. CASE link'[g].inn = <<>>
      BY <3>2 DEF OnceIn
    <3>3. CASE link'[g].inn = link[g].inn /\ link[g].owner = 0
      BY <3>3 DEF LinkInv, OnceInv
    <3> QED BY <3>1, <3>2, <3>3
  <2> QED BY <2>1 DEF LinkInv, OnceInv, OnceIn
<1> QED BY <1>1, <1>2, <1>3, <1>4, <1>5

LEMMA CloseLinks == ASSUME LinkInv, NEW s \in Socks, Close(s) PROVE LinkInv'
<1>0. /\ Socks \subseteq Threads /\ None \notin Socks /\ 0 \in Socks /\ Senders \cap Socks = {}
      /\ Senders \subseteq Threads /\ socket[s] \in Fds \cup {-1}
      /\ pc \in [Threads -> PC] /\ link \in [Fds -> LinkState]
  BY LinkTypes, ThreadsAre DEF Threads
<1>1. /\ pc[s] = "idle" /\ pc' = [pc EXCEPT ![s] = "closed"]
      /\ UNCHANGED <<socket, outVars, nameVars, msg, to, worldVars, handled, left, fault>>
  BY DEF Close
<1>2. CASE socket[s] = -1
  <2>1. link' = link /\ -1 \notin Fds
    BY <1>2 DEF Close, Fds
  <2>2. pc' \in [Threads -> PC]
    BY <1>0, <1>1 DEF PC
  <2>3. TypeInv'
    BY <1>1, <2>1, <2>2 DEF LinkInv, TypeInv, outVars, nameVars, worldVars
  <2>4. SendInv'
    BY <1>0, <1>1 DEF LinkInv, SendInv
  <2>5. PingInv'
    <3>1. ASSUME NEW g \in Fds PROVE PingOk(link[g])'
      <4>1. PingOk(link[g]) /\ link[g] \in LinkState
        BY <1>0 DEF LinkInv, PingInv
      <4> QED BY <1>1, <2>1, <4>1 DEF PingOk, Answering, Count, PingLine, PongLine
    <3> QED BY <3>1 DEF PingInv
  <2>6. NickInv' /\ NameInv' /\ OnceInv'
    <3>1. UNCHANGED <<link, botname, handled, told>>
      BY <1>1, <2>1 DEF nameVars, worldVars
    <3> QED BY <3>1 DEF LinkInv, NickInv, NameInv, NameOk, Registered, OnceInv
  <2>7. OwnerInv'
    <3>1. \A f \in Fds : link[f].owner \in Socks \cup {None}
      BY <1>0, LinkFields
    <3>2. \A z \in Socks : z # s => pc'[z] = pc[z]
      BY <1>0, <1>1
    <3>3. pc'[s] = "closed" /\ socket' = socket
      BY <1>0, <1>1
    <3>4. \A f \in Fds : link[f].owner # s
      BY <1>0, <1>2, <2>1 DEF LinkInv, OwnerInv
    <3> QED BY <2>1, <3>1, <3>2, <3>3, <3>4 DEF LinkInv, OwnerInv
  <2>8. ~NoDrop
    BY <1>2, <2>1 DEF LinkInv, AskedInv
  <2>9. AskedInv'
    BY <1>1, <2>8 DEF LinkInv, AskedInv, NoDrop
  <2> QED BY <2>3, <2>4, <2>5, <2>6, <2>7, <2>9 DEF LinkInv
<1>3. CASE socket[s] # -1
  <2> DEFINE f == socket[s]
  <2>1. f \in Fds /\ ~link[f].up /\ link' = [link EXCEPT ![f] = Closed]
    BY <1>0, <1>3 DEF Close
  <2>2. /\ link' \in [Fds -> LinkState] /\ link'[f] = Closed /\ \A g \in Fds : g # f => link'[g] = link[g]
        /\ PingInv' /\ NickInv' /\ NameInv' /\ OnceInv'
    <3>1. UNCHANGED <<botname, msg, told, handled>>
      BY <1>1 DEF nameVars, worldVars
    <3> HIDE DEF f
    <3> QED BY <1>0, <2>1, <3>1, FreshLinks, LinkAnew
  <2>3. pc' \in [Threads -> PC]
    BY <1>0, <1>1 DEF PC
  <2>4. TypeInv'
    BY <1>1, <2>2, <2>3 DEF LinkInv, TypeInv, outVars, nameVars, worldVars
  <2>5. SendInv'
    BY <1>0, <1>1 DEF LinkInv, SendInv
  <2>6. OwnerInv'
    <3>1. \A g \in Fds : g # f => link[g].owner # s /\ link[g].owner \in Socks \cup {None}
      BY <1>0, <2>1, OtherOwner, LinkFields
    <3>2. \A z \in Socks : z # s => pc'[z] = pc[z] /\ (pc[z] # "closed" => socket[z] # f)
      BY <1>0, <1>1, <2>1 DEF LinkInv, OwnerInv
    <3>3. pc'[s] = "closed" /\ socket' = socket /\ Closed.owner = None /\ ~Closed.up
      BY <1>0, <1>1, FreshLinks
    <3> HIDE DEF f
    <3> QED BY <1>0, <2>2, <3>1, <3>2, <3>3 DEF LinkInv, OwnerInv
  <2>7. ~NoDrop
    BY <2>1 DEF LinkInv, AskedInv
  <2>8. AskedInv'
    BY <1>1, <2>7 DEF LinkInv, AskedInv, NoDrop
  <2> QED BY <2>2, <2>4, <2>5, <2>6, <2>8 DEF LinkInv
<1> QED BY <1>2, <1>3

LEMMA ReconnectLinks == ASSUME LinkInv, NEW s \in Socks, Reconnect(s) PROVE LinkInv'
<1>0. /\ Socks \subseteq Threads /\ None \notin Socks /\ 0 \in Socks /\ Senders \cap Socks = {}
      /\ Senders \subseteq Threads /\ socket \in [Socks -> Fds \cup {-1}]
      /\ pc \in [Threads -> PC] /\ link \in [Fds -> LinkState]
  BY LinkTypes, ThreadsAre DEF Threads
<1>1. /\ pc[s] = "closed" /\ pc' = [pc EXCEPT ![s] = "idle"]
      /\ UNCHANGED <<outVars, nameVars, msg, to, worldVars, handled, left, fault>>
  BY DEF Reconnect
<1>2. PICK f \in Fds : link[f].owner = None /\ socket' = [socket EXCEPT ![s] = f]
                       /\ link' = [link EXCEPT ![f] = Opened(s)]
  BY DEF Reconnect
<1>3. /\ link' \in [Fds -> LinkState] /\ link'[f] = Opened(s) /\ \A g \in Fds : g # f => link'[g] = link[g]
      /\ PingInv' /\ NickInv' /\ NameInv' /\ OnceInv'
  <2>1. UNCHANGED <<botname, msg, told, handled>>
    BY <1>1 DEF nameVars, worldVars
  <2>2. ~Opened(s).joined
    BY DEF Opened, Closed
  <2> QED BY <1>0, <1>1, <1>2, <2>1, <2>2, FreshLinks, LinkAnew, ZenonT(60)
<1>4. TypeInv'
  <2>1. pc' \in [Threads -> PC] /\ socket' \in [Socks -> Fds \cup {-1}]
    BY <1>0, <1>1, <1>2 DEF PC
  <2> QED BY <1>1, <1>3, <2>1 DEF LinkInv, TypeInv, outVars, nameVars, worldVars
<1>5. SendInv'
  BY <1>0, <1>1 DEF LinkInv, SendInv
<1>6. OwnerInv'
  <2>1. \A g \in Fds : link[g].owner # s /\ link[g].owner \in Socks \cup {None}
    BY <1>0, <1>1, LinkFields DEF LinkInv, OwnerInv
  <2>2. \A z \in Socks : z # s => pc'[z] = pc[z] /\ socket'[z] = socket[z] /\ (pc[z] # "closed" => socket[z] # f)
    BY <1>0, <1>1, <1>2 DEF LinkInv, OwnerInv
  <2>3. pc'[s] = "idle" /\ socket'[s] = f /\ Opened(s).owner = s
    BY <1>0, <1>1, <1>2, FreshLinks
  <2> QED BY <1>0, <1>3, <2>1, <2>2, <2>3 DEF LinkInv, OwnerInv
<1>7. ~NoDrop
  BY <1>1 DEF LinkInv, AskedInv
<1>8. AskedInv'
  BY <1>1, <1>7 DEF LinkInv, AskedInv, NoDrop
<1> QED BY <1>3, <1>4, <1>5, <1>6, <1>8 DEF LinkInv

LEMMA ConnectFailsLinks == ASSUME LinkInv, NEW s \in Socks, ConnectFails(s) PROVE LinkInv'
<1>0. /\ Socks \subseteq Threads /\ None \notin Socks /\ 0 \in Socks /\ Senders \cap Socks = {}
      /\ Senders \subseteq Threads /\ socket \in [Socks -> Fds \cup {-1}]
      /\ pc \in [Threads -> PC] /\ link \in [Fds -> LinkState]
  BY LinkTypes, ThreadsAre DEF Threads
<1>1. /\ pc[s] = "closed" /\ pc' = [pc EXCEPT ![s] = "idle"] /\ socket' = [socket EXCEPT ![s] = -1]
      /\ UNCHANGED <<outVars, nameVars, msg, to, worldVars, link, handled, left, fault>>
  BY DEF ConnectFails
<1>2. TypeInv'
  <2>1. pc' \in [Threads -> PC] /\ socket' \in [Socks -> Fds \cup {-1}]
    BY <1>0, <1>1 DEF PC
  <2> QED BY <1>1, <2>1 DEF LinkInv, TypeInv, outVars, nameVars, worldVars
<1>3. SendInv'
  BY <1>0, <1>1 DEF LinkInv, SendInv
<1>4. PingInv' /\ NickInv' /\ NameInv' /\ OnceInv'
  <2>1. UNCHANGED <<link, botname, handled, told, msg>>
    BY <1>1 DEF nameVars, worldVars
  <2>2. PingInv'
    BY <2>1 DEF LinkInv, PingInv, PingOk, Answering
  <2> QED BY <2>1, <2>2 DEF LinkInv, NickInv, NameInv, NameOk, Registered, OnceInv
<1>5. OwnerInv'
  <2>1. \A g \in Fds : link[g].owner # s /\ link[g].owner \in Socks \cup {None}
    BY <1>0, <1>1, LinkFields DEF LinkInv, OwnerInv
  <2>2. \A z \in Socks : z # s => pc'[z] = pc[z] /\ socket'[z] = socket[z]
    BY <1>0, <1>1
  <2>3. socket'[s] = -1 /\ -1 \notin Fds /\ link' = link
    BY <1>0, <1>1 DEF Fds
  <2> QED BY <2>1, <2>2, <2>3 DEF LinkInv, OwnerInv
<1>6. ~NoDrop
  BY <1>1 DEF LinkInv, AskedInv
<1>7. AskedInv'
  BY <1>1, <1>6 DEF LinkInv, AskedInv, NoDrop
<1> QED BY <1>2, <1>3, <1>4, <1>5, <1>7 DEF LinkInv

(***************************************************************************)
(* A write puts the line of the thread into the connection, or loses it.   *)
(***************************************************************************)
\* The line is written to the connection f.
Delivers(t, f) == link[f].up /\ link' = [link EXCEPT ![f].out = Append(@, msg[t])]

LEMMA WriteIs ==
  ASSUME LinkInv, NEW t \in Threads, Write(t)
  PROVE  /\ pc[t] = "write" /\ Head(to[t]) \in Socks /\ Tail(to[t]) \in Seq(Socks) /\ to[t] # <<>>
         /\ UNCHANGED <<socket, nameVars, worldVars, handled, left>>
         /\ \/ \E f \in Fds : f = socket[Head(to[t])] /\ Delivers(t, f) /\ fault' = fault
            \/ ~NoDrop /\ link' = link /\ fault' \in {fault, "none", "killed"}
<1> DEFINE f == socket[Head(to[t])]
<1>1. pc[t] = "write" /\ to[t] # <<>> /\ to[t] \in Seq(Socks) /\ socket \in [Socks -> Fds \cup {-1}]
  BY LinkTypes DEF Write, LinkInv, SendInv
<1>2. Head(to[t]) \in Socks /\ Tail(to[t]) \in Seq(Socks)
  BY <1>1, EmptySeq, HeadTailProperties
<1>3. UNCHANGED <<socket, nameVars, worldVars, handled, left>> /\ WriteLine(f, msg[t])
  BY DEF Write
<1>4. f \in Fds \cup {-1} /\ (NoDrop => f \in Fds /\ link[f].up /\ link[f].owner # None)
  BY <1>1, <1>2 DEF LinkInv, AskedInv, OwnerInv
<1>5. -1 \notin Fds
  BY DEF Fds
<1>6. CASE f \in Fds /\ link[f].up
  <2>1. link[f].owner # None /\ f # -1
    BY <1>5, <1>6 DEF LinkInv, OwnerInv
  <2>2. Delivers(t, f) /\ fault' = fault
    BY <1>3, <1>6, <2>1 DEF WriteLine, Delivers
  <2> QED BY <1>1, <1>2, <1>3, <1>6, <2>2
<1>7. CASE ~(f \in Fds /\ link[f].up)
  <2>1. ~NoDrop
    BY <1>4, <1>7, SMTT(60)
  <2>2. link' = link /\ fault' \in {fault, "none", "killed"}
    BY <1>3, <1>4, <1>7 DEF WriteLine
  <2> QED BY <1>1, <1>2, <1>3, <2>1, <2>2
<1> QED BY <1>6, <1>7

LEMMA DeliveredLinks ==
  ASSUME LinkInv, NEW t \in Threads, NEW f \in Fds, Delivers(t, f)
  PROVE  /\ link' \in [Fds -> LinkState] /\ \A g \in Fds : g # f => link'[g] = link[g]
         /\ Alike(link'[f], link[f]) /\ link'[f].pings = link[f].pings /\ link'[f].inn = link[f].inn
         /\ link'[f].out = Append(link[f].out, msg[t]) /\ link[f].up
<1>1. link \in [Fds -> LinkState] /\ link[f] \in LinkState /\ link[f].out \in Seq(OutLines) /\ msg[t] \in OutLines
  BY LinkTypes, LinkFields
<1>2. Append(link[f].out, msg[t]) \in Seq(OutLines)
  BY <1>1, AppendProperties
<1> DEFINE k == [link[f] EXCEPT !.out = Append(link[f].out, msg[t])]
<1>3. /\ k \in LinkState /\ Alike(k, link[f]) /\ k.pings = link[f].pings
      /\ k.inn = link[f].inn /\ k.out = Append(link[f].out, msg[t])
  BY <1>1, <1>2, OutSet
<1>4. link' = [link EXCEPT ![f] = k] /\ link[f].up
  BY DEF Delivers
<1> HIDE DEF k
<1>5. link'[f] = k /\ link' \in [Fds -> LinkState] /\ \A g \in Fds : g # f => link'[g] = link[g]
  BY <1>1, <1>3, <1>4
<1> QED BY <1>3, <1>4, <1>5

\* The thread goes on to its next socket, or ends its message.
WriteGoesOn(t) == Len(to[t]) > 1 /\ to' = [to EXCEPT ![t] = Tail(@)] /\ UNCHANGED <<pc, msg>>
WriteEnds(t) == /\ Len(to[t]) = 1 /\ to' = [to EXCEPT ![t] = <<>>]
                /\ pc' = [pc EXCEPT ![t] = IF msg[t][1] = "NICK" THEN "counting" ELSE "idle"]
                /\ msg' = [msg EXCEPT ![t] = TextLine]

LEMMA WriteThreads ==
  ASSUME LinkInv, NEW t \in Threads, Write(t)
  PROVE  /\ WriteGoesOn(t) \/ WriteEnds(t)
         /\ wsocket' \in Socks /\ conmtx' \in Threads \cup {None} /\ sent' \in [Socks -> Nat]
<1>1. to[t] # <<>> /\ to[t] \in Seq(Socks) /\ wsocket \in Socks /\ sent \in [Socks -> Nat] /\ Head(to[t]) \in Socks
      /\ conmtx \in Threads \cup {None}
  BY WriteIs, LinkTypes DEF LinkInv, TypeInv
<1>2. CASE Len(to[t]) > 1
  <2>1. to' = [to EXCEPT ![t] = Tail(@)] /\ UNCHANGED <<conmtx, wsocket, pc, msg, sent>>
    BY <1>2 DEF Write
  <2> QED BY <1>1, <1>2, <2>1 DEF WriteGoesOn
<1>3. CASE ~(Len(to[t]) > 1)
  <2>1. Len(to[t]) = 1
    <3>1. Len(to[t]) \in Nat /\ Len(to[t]) # 0
      BY <1>1, EmptySeq, LenProperties
    <3>2. \A n \in Nat : n # 0 /\ ~(n > 1) => n = 1
      OBVIOUS
    <3> QED BY <1>3, <3>1, <3>2
  <2>2. /\ conmtx' = None /\ pc' = [pc EXCEPT ![t] = IF msg[t][1] = "NICK" THEN "counting" ELSE "idle"]
        /\ msg' = [msg EXCEPT ![t] = TextLine] /\ to' = [to EXCEPT ![t] = <<>>]
        /\ \/ wsocket' = NextSocket /\ sent' = [sent EXCEPT ![Head(to[t])] = @ + 1]
           \/ UNCHANGED <<wsocket, sent>>
    BY <1>3 DEF Write, TextLine
  <2>3. NextSocket \in Socks
    <3>1. NSocks \in Nat /\ NSocks > 0 /\ wsocket \in 0 .. NSocks - 1
      BY <1>1, LastIsSock DEF Socks
    <3>2. NextSocket = IF wsocket = LastSock THEN 0 ELSE wsocket + 1
      BY <1>1, NextSocketIs
    <3> QED BY <3>1, <3>2 DEF Socks, LastSock
  <2>4. sent[Head(to[t])] + 1 \in Nat
    BY <1>1
  <2>5. wsocket' \in Socks /\ sent' \in [Socks -> Nat]
    BY <1>1, <2>2, <2>3, <2>4
  <2> QED BY <2>1, <2>2, <2>5 DEF WriteEnds
<1> QED BY <1>2, <1>3

\* A PONG that is delivered has left the thread, and only its own socket gets it.
LEMMA WritePings ==
  ASSUME LinkInv, NEW t \in Threads, Write(t)
  PROVE  PingInv'
<1>0. /\ link \in [Fds -> LinkState] /\ msg \in [Threads -> OutLines] /\ Socks \subseteq Threads
      /\ Threads = Socks \cup Senders /\ pc[t] = "write" /\ (WriteGoesOn(t) \/ WriteEnds(t))
  BY LinkTypes, ThreadsAre, WriteIs, WriteThreads
<1>1. \A u \in Threads : msg'[u] = PongLine => msg[u] = PongLine
  BY <1>0 DEF WriteGoesOn, WriteEnds, TextLine, PongLine
<1>2. msg[t] = PongLine => t \in Socks /\ Head(to[t]) = t /\ msg'[t] = TextLine
  <2>1. msg[t] = PongLine => t \in Socks /\ to[t] = <<t>>
    BY <1>0 DEF LinkInv, SendInv, TextLine, PongLine
  <2>2. Len(<<t>>) = 1 /\ Head(<<t>>) = t
    OBVIOUS
  <2>3. CASE msg[t] = PongLine
    <3>1. Len(to[t]) = 1 /\ Head(to[t]) = t /\ t \in Socks
      BY <2>1, <2>2, <2>3
    <3>2. WriteEnds(t)
      BY <1>0, <3>1 DEF WriteGoesOn
    <3> QED BY <1>0, <3>1, <3>2 DEF WriteEnds
  <2> QED BY <2>3
<1> SUFFICES ASSUME NEW g \in Fds PROVE PingOk(link[g])'
  BY DEF PingInv
<1>3. PingOk(link[g]) /\ link[g] \in LinkState /\ (link[g].up => link[g].owner \in Socks)
  BY <1>0, LinkFields DEF LinkInv, PingInv, OwnerInv
<1>4. CASE link'[g] = link[g]
  <2>1. link[g].up => (msg'[link[g].owner] = PongLine => msg[link[g].owner] = PongLine)
    BY <1>0, <1>1, <1>3
  <2> QED BY <1>3, <1>4, <2>1, PingStays DEF PingOk, Answering, Count, PingLine, PongLine
<1>5. CASE link'[g] # link[g]
  <2>1. PICK f \in Fds : f = socket[Head(to[t])] /\ Delivers(t, f)
    BY <1>5, WriteIs
  <2>2. /\ g = f /\ Alike(link'[g], link[g]) /\ link'[g].pings = link[g].pings /\ link'[g].inn = link[g].inn
        /\ link'[g].out = Append(link[g].out, msg[t]) /\ link[g].up
    BY <1>5, <2>1, DeliveredLinks
  <2> DEFINE o == link[g].owner
             a == Count(link[g].inn, PingLine)
             b == Count(link[g].out, PongLine)
             c == Count(Append(link[g].out, msg[t]), PongLine)
  <2>3. /\ a \in Nat /\ b \in Nat /\ link[g].pings \in Nat
        /\ c = b + (IF msg[t] = PongLine THEN 1 ELSE 0)
    <3>1. link[g].inn \in Seq(InLines) /\ link[g].out \in Seq(OutLines) /\ msg[t] \in OutLines /\ link[g].pings \in Nat
      BY <1>0, <1>3, LinkFields
    <3>2. c = b + (IF msg[t] = PongLine THEN 1 ELSE 0)
      BY <3>1, CountAppend
    <3> QED BY <3>1, <3>2, CountType
  <2>4. a + b + (IF msg[o] = PongLine THEN 1 ELSE 0) <= link[g].pings
    BY <1>3, <2>2, SMTT(60) DEF PingOk, Answering
  <2>5. msg[t] = PongLine => o = t
    BY <1>0, <1>2, <2>1, <2>2, ZenonT(60) DEF LinkInv, OwnerInv
  <2>6. msg'[o] = PongLine => msg[o] = PongLine /\ msg[t] # PongLine
    <3>1. o \in Threads
      BY <1>0, <1>3, <2>2
    <3> QED BY <1>1, <1>2, <2>5, <3>1 DEF TextLine, PongLine
  <2>7. a + c + (IF msg'[o] = PongLine THEN 1 ELSE 0) <= link[g].pings
    <3>0. msg[t] = PongLine => msg[o] = PongLine
      BY <2>5
    <3> HIDE DEF a, b, c, o
    <3>1. CASE msg[t] = PongLine
      BY <2>3, <2>4, <2>6, <3>0, <3>1
    <3>2. CASE msg[t] # PongLine
      BY <2>3, <2>4, <2>6, <3>2
    <3> QED BY <3>1, <3>2
  <2>8. link'[g].owner = o /\ link'[g].up
    BY <2>2 DEF Alike
  <2> QED BY <2>2, <2>7, <2>8 DEF PingOk, Answering, Count, PingLine, PongLine
<1> QED BY <1>4, <1>5

LEMMA WriteLinks ==
  ASSUME LinkInv, WindowInv, fault = "none", NEW t \in Threads, Write(t)
  PROVE  LinkInv'
<1>0. /\ Socks \subseteq Threads /\ Senders \subseteq Threads /\ Senders \cap Socks = {}
      /\ link \in [Fds -> LinkState] /\ msg \in [Threads -> OutLines] /\ pc \in [Threads -> PC]
      /\ to \in [Threads -> Seq(Socks)]
  BY LinkTypes, ThreadsAre
<1>1. /\ pc[t] = "write" /\ Tail(to[t]) \in Seq(Socks)
      /\ UNCHANGED <<socket, nameVars, worldVars, handled, left>>
      /\ WriteGoesOn(t) \/ WriteEnds(t)
      /\ wsocket' \in Socks /\ conmtx' \in Threads \cup {None} /\ sent' \in [Socks -> Nat]
  BY WriteIs, WriteThreads
<1>2. /\ link' \in [Fds -> LinkState]
      /\ \A g \in Fds : Alike(link'[g], link[g]) /\ link'[g].inn = link[g].inn
    <2>1. CASE link' = link
      BY <1>0, <2>1 DEF Alike
    <2>2. ASSUME NEW f \in Fds, Delivers(t, f)
          PROVE  link' \in [Fds -> LinkState] /\ \A g \in Fds : Alike(link'[g], link[g]) /\ link'[g].inn = link[g].inn
      <3>1. \A g \in Fds : Alike(link[g], link[g])
        BY DEF Alike
      <3> QED BY <2>2, <3>1, DeliveredLinks
    <2> QED BY <2>1, <2>2, WriteIs
<1>3. TypeInv'
  <2>1. <<>> \in Seq(Socks)
    BY EmptySeq
  <2>2. to' \in [Threads -> Seq(Socks)] /\ pc' \in [Threads -> PC] /\ msg' \in [Threads -> OutLines]
    BY <1>0, <1>1, <2>1, LinesAre, ZenonT(60) DEF WriteGoesOn, WriteEnds, PC
  <2>3. UNCHANGED <<login, socket, botname, attempts, taken, tried, told, handled, left>>
    BY <1>1 DEF nameVars, worldVars
  <2>4. fault' \in {"none", "exit", "killed", "raced"}
    BY WriteIs DEF LinkInv, TypeInv
  <2> QED BY <1>1, <1>2, <2>2, <2>3, <2>4 DEF LinkInv, TypeInv
<1>4. SendInv'
  <2>1. CASE WriteGoesOn(t)
    <3>1. to' = [to EXCEPT ![t] = Tail(to[t])] /\ Tail(to[t]) # <<>> /\ \A x : to[t] # <<x>>
      <4>1. Len(to[t]) > 1 /\ to[t] \in Seq(Socks) /\ Len(to[t]) \in Nat /\ Len(<<>>) = 0 /\ \A x : Len(<<x>>) = 1
        BY <1>0, <2>1, LenProperties DEF WriteGoesOn
      <4>2. Len(Tail(to[t])) = Len(to[t]) - 1
        BY <4>1, HeadTailProperties, EmptySeq
      <4>3. Tail(to[t]) # <<>> /\ Len(to[t]) # 1
        <5>0. \A n \in Nat : n > 1 => n - 1 > 0 /\ n # 1
          OBVIOUS
        <5>1. Len(Tail(to[t])) > 0 /\ Len(to[t]) # 1
          BY <4>1, <4>2, <5>0
        <5>2. Tail(to[t]) = <<>> => Len(Tail(to[t])) = 0
          BY <4>1
        <5> QED BY <5>1, <5>2
      <4>4. ASSUME NEW x, to[t] = <<x>> PROVE FALSE
        <5>1. Len(to[t]) = Len(<<x>>)
          BY <4>4
        <5>2. Len(<<x>>) = 1
          OBVIOUS
        <5> QED BY <4>3, <5>1, <5>2
      <4>5. to' = [to EXCEPT ![t] = Tail(to[t])]
        BY <2>1 DEF WriteGoesOn
      <4> QED BY <4>3, <4>4, <4>5
    <3>2. msg' = msg /\ pc' = pc
      BY <2>1 DEF WriteGoesOn
    <3>3. \A u \in Threads : u # t => to'[u] = to[u]
      BY <1>0, <3>1
    <3>4. to'[t] # <<>>
      BY <1>0, <3>1
    <3>5. \A s \in Socks : msg[s] = PongLine => to[s] = <<s>> /\ s # t
      BY <3>1 DEF LinkInv, SendInv
    <3> QED BY <1>0, <3>2, <3>3, <3>4, <3>5 DEF LinkInv, SendInv, TextLine, PongLine
  <2>2. CASE WriteEnds(t)
    <3>1. /\ pc'[t] \in {"idle", "counting"} /\ msg'[t] = TextLine /\ TextLine # PongLine
          /\ t \in Senders => pc'[t] = "idle"
      <4>1. t \in Senders => msg[t][1] # "NICK"
        BY DEF LinkInv, SendInv, TextLine
      <4>2. pc'[t] = (IF msg[t][1] = "NICK" THEN "counting" ELSE "idle") /\ msg'[t] = TextLine
        BY <1>0, <2>2 DEF WriteEnds
      <4> QED BY <4>1, <4>2 DEF TextLine, PongLine
    <3>2. \A u \in Threads : u # t => to'[u] = to[u] /\ pc'[u] = pc[u] /\ msg'[u] = msg[u]
      BY <1>0, <2>2 DEF WriteEnds
    <3> QED BY <1>0, <3>1, <3>2 DEF LinkInv, SendInv, TextLine, PongLine
  <2> QED BY <1>1, <2>1, <2>2
<1>5. OwnerInv'
  <2>1. \A z \in Socks : pc'[z] = "closed" <=> pc[z] = "closed"
    BY <1>0, <1>1 DEF WriteGoesOn, WriteEnds
  <2> QED BY <1>1, <1>2, <2>1, OwnerKept DEF LinkInv, Alike
<1>6. NickInv' /\ NameInv' /\ OnceInv'
  <2>1. /\ UNCHANGED <<botname, handled, told>>
        /\ \A g \in Fds : /\ link'[g].owner = link[g].owner /\ link'[g].up = link[g].up /\ link'[g].nick = link[g].nick
                          /\ link'[g].user = link[g].user /\ link'[g].inn = link[g].inn
    BY <1>1, <1>2 DEF nameVars, worldVars, Alike
  <2>2. NickInv'
    BY <2>1 DEF LinkInv, NickInv
  <2>3. NameInv'
    BY <2>1 DEF LinkInv, NameInv, NameOk, Registered
  <2>4. OnceInv'
    BY <2>1 DEF LinkInv, OnceInv
  <2> QED BY <2>2, <2>3, <2>4
<1>7. AskedInv'
  <2>1. left' = left /\ attempts' = attempts /\ (fault' = "exit" => fault = "exit") /\ tried' = tried /\ socket' = socket
    BY <1>1, WriteIs DEF nameVars, worldVars
  <2>2. CASE ~NoDrop
    BY <2>1, <2>2 DEF LinkInv, AskedInv, NoDrop
  <2>3. CASE NoDrop
    <3>1. PICK f \in Fds : Delivers(t, f)
      BY <2>3, WriteIs
    <3>2. ASSUME NEW n \in List, Asked(n) PROVE Asked(n)'
      <4>1. CASE n \in tried
        BY <2>1, <4>1 DEF Asked
      <4>2. ASSUME NEW g \in Fds, NEW i \in 1 .. Len(link[g].out), link[g].out[i] = <<"NICK", n>> PROVE Asked(n)'
        <5>1. i \in 1 .. Len(link'[g].out) /\ link'[g].out[i] = <<"NICK", n>>
          <6>1. CASE g # f
            BY <3>1, <4>2, <6>1, DeliveredLinks
          <6>2. CASE g = f
            <7>1. link[f].out \in Seq(OutLines) /\ msg[t] \in OutLines /\ link'[f].out = Append(link[f].out, msg[t])
              BY <1>0, <3>1, LinkFields, DeliveredLinks
            <7> QED BY <4>2, <6>2, <7>1, AppendProperties, LenProperties
          <6> QED BY <6>1, <6>2
        <5> QED BY <5>1 DEF Asked
      <4>3. ASSUME NEW u \in Threads, msg[u] = <<"NICK", n>> PROVE Asked(n)'
        <5>1. CASE u # t
          <6>1. msg'[u] = msg[u]
            BY <1>0, <1>1, <5>1 DEF WriteGoesOn, WriteEnds
          <6> QED BY <4>3, <6>1 DEF Asked
        <5>2. CASE u = t
          <6>1. link[f].out \in Seq(OutLines) /\ msg[t] \in OutLines /\ link'[f].out = Append(link[f].out, msg[t])
            BY <1>0, <3>1, LinkFields, DeliveredLinks
          <6>2. Len(link'[f].out) \in 1 .. Len(link'[f].out) /\ link'[f].out[Len(link'[f].out)] = <<"NICK", n>>
            BY <4>3, <5>2, <6>1, AppendProperties, LenProperties
          <6> QED BY <6>2 DEF Asked
        <5> QED BY <5>1, <5>2
      <4> QED BY <3>2, <4>1, <4>2, <4>3 DEF Asked
    <3>3. \A z \in Socks : socket[z] \in Fds /\ pc[z] # "closed" /\ link[socket[z]].up
      BY <2>3 DEF LinkInv, AskedInv
    <3>4. \A z \in Socks : socket'[z] \in Fds /\ pc'[z] # "closed" /\ link'[socket'[z]].up
      BY <1>0, <1>1, <1>2, <2>1, <3>3, ZenonT(60) DEF WriteGoesOn, WriteEnds, Alike
    <3>5. ASSUME NEW z \in Socks, NEW n \in List, pc'[z] = "counting", n = attempts PROVE Asked(n)
      <4>1. CASE pc[z] = "counting"
        BY <2>3, <3>5, <4>1 DEF LinkInv, AskedInv
      <4>2. CASE pc[z] # "counting"
        <5>1. z = t /\ msg[t][1] = "NICK"
          BY <1>0, <1>1, <3>5, <4>2 DEF WriteGoesOn, WriteEnds
        <5>2. msg[t] = <<"NICK", n>>
          BY <3>5, <5>1 DEF WindowInv
        <5> QED BY <5>2 DEF Asked
      <4> QED BY <4>1, <4>2
    <3> QED BY <2>1, <2>3, <3>2, <3>4, <3>5 DEF LinkInv, AskedInv, NoDrop
  <2> QED BY <2>2, <2>3
<1>8. PingInv'
  BY WritePings
<1> QED BY <1>3, <1>4, <1>5, <1>6, <1>7, <1>8 DEF LinkInv

(***************************************************************************)
(* The server talks: it changes connections, but no thread and no owner.   *)
(***************************************************************************)
LEMMA TalkStep ==
  ASSUME LinkInv, UNCHANGED <<socket, outVars, nameVars, threadVars, login, taken, handled, fault>>,
         told' \subseteq Msgs, tried' \subseteq Nicks,
         left' \in [events : Nat, drops : Nat], left'.drops = left.drops,
         link' \in [Fds -> LinkState],
         \A g \in Fds : link'[g].owner = link[g].owner /\ link'[g].up = link[g].up /\ PingOk(link'[g]) /\ NameOk(link'[g]),
         \A f, g \in Fds : f # g /\ link'[f].nick = link'[g].nick => link'[f].nick = -1,
         \A m \in Msgs : /\ m \notin told' => handled[m] = 0
                         /\ \A g \in Fds : link'[g].owner = 0 =>
                              OnceIn(link'[g].inn, <<"PRIVMSG", m>>, m \in told' /\ handled[m] = 0),
         \A n \in List : Asked(n) => Asked(n)'
  PROVE  LinkInv'
<1>1. TypeInv'
  BY DEF LinkInv, TypeInv, outVars, nameVars, threadVars
<1>2. SendInv'
  BY DEF LinkInv, SendInv, threadVars
<1>3. OwnerInv'
  BY OwnerKept DEF LinkInv, threadVars
<1>4. PingInv'
  <2>1. ASSUME NEW g \in Fds PROVE PingOk(link[g])'
    <3>1. PingOk(link'[g])  /\ msg' = msg
      BY DEF threadVars
    <3> QED BY <3>1 DEF PingOk, Answering, Count, PingLine, PongLine
  <2> QED BY <2>1 DEF PingInv
<1>5. NameInv'
  <2>1. ASSUME NEW g \in Fds PROVE NameOk(link[g])'
    <3>1. NameOk(link'[g])  /\ botname' = botname
      BY DEF nameVars
    <3>2. Registered(link'[g]) => Told(botname[link'[g].owner], link'[g].inn, link'[g].nick)
      BY <3>1 DEF NameOk
    <3>3. Registered(link'[g]) => Told(botname'[link'[g].owner], link'[g].inn, link'[g].nick)
      BY <3>1, <3>2
    <3>4. NameOk(link[g])' <=> (Registered(link'[g]) => Told(botname'[link'[g].owner], link'[g].inn, link'[g].nick))
      BY DEF NameOk, Registered, Told, Names, After
    <3> QED BY <3>3, <3>4
  <2> QED BY <2>1 DEF NameInv
<1>6. NickInv'
  BY DEF NickInv
<1>7. OnceInv'
  <2>1. \A m \in Msgs : handled[m] <= 1
    BY DEF LinkInv, OnceInv
  <2> QED BY <2>1 DEF OnceInv, OnceIn
<1>8. AskedInv'
  <2>1. NoDrop => \A s \in Socks : socket[s] \in Fds /\ pc[s] # "closed" /\ link[socket[s]].up
    BY DEF LinkInv, AskedInv
  <2>2. NoDrop => \A s \in Socks : socket'[s] \in Fds /\ pc'[s] # "closed" /\ link'[socket'[s]].up
    BY <2>1 DEF threadVars
  <2> QED BY <2>2, AskedKept DEF LinkInv, nameVars, threadVars
<1> QED BY <1>1, <1>2, <1>3, <1>4, <1>5, <1>6, <1>7, <1>8 DEF LinkInv

LEMMA TellOne ==
  ASSUME NEW l \in LinkState, NEW a \in InLines
  PROVE  LET k == Tell(l, <<a>>)
         IN k \in LinkState /\ Alike(k, l) /\ k.pings = l.pings /\ k.inn = Append(l.inn, a) /\ k.out = l.out
<1>1. l.inn \in Seq(InLines) /\ l.inn \o <<a>> = Append(l.inn, a) /\ Append(l.inn, a) \in Seq(InLines)
  BY LinkFields, Snoc, AppendProperties
<1>2. Tell(l, <<a>>) = [l EXCEPT !.inn = Append(l.inn, a)]
  BY <1>1 DEF Tell
<1>3. LET k == [l EXCEPT !.inn = Append(l.inn, a)]
      IN k \in LinkState /\ Alike(k, l) /\ k.pings = l.pings /\ k.inn = Append(l.inn, a) /\ k.out = l.out
  BY <1>1, InnSet
<1> QED BY <1>2, <1>3

LEMMA TellTwo ==
  ASSUME NEW l \in LinkState, NEW a \in InLines, NEW b \in InLines
  PROVE  LET k == Tell(l, <<a, b>>)
         IN /\ k \in LinkState /\ Alike(k, l) /\ k.pings = l.pings
            /\ k.inn = Append(Append(l.inn, a), b) /\ k.out = l.out
<1>1. l.inn \in Seq(InLines) /\ Append(l.inn, a) \in Seq(InLines)
      /\ l.inn \o <<a, b>> = Append(Append(l.inn, a), b) /\ Append(Append(l.inn, a), b) \in Seq(InLines)
  BY LinkFields, Snoc, AppendProperties
<1>2. Tell(l, <<a, b>>) = [l EXCEPT !.inn = Append(Append(l.inn, a), b)]
  BY <1>1 DEF Tell
<1>3. LET k == [l EXCEPT !.inn = Append(Append(l.inn, a), b)]
      IN /\ k \in LinkState /\ Alike(k, l) /\ k.pings = l.pings
         /\ k.inn = Append(Append(l.inn, a), b) /\ k.out = l.out
  BY <1>1, InnSet
<1> QED BY <1>2, <1>3

\* A connection that hears a line which is no PING and does not tell it a name.
LEMMA Hears ==
  ASSUME NEW l \in LinkState, NEW k \in LinkState, NEW a \in InLines, Alike(k, l), k.out = l.out,
         k.pings = l.pings, k.inn = Append(l.inn, a), a # PingLine, After(l.nick, a) = l.nick
  PROVE  (PingOk(l) => PingOk(k)) /\ (NameOk(l) => NameOk(k))
<1>1. l.inn \in Seq(InLines) /\ l.nick \in MaybeNick
  BY LinkFields
<1>2. Count(k.inn, PingLine) = Count(l.inn, PingLine)
  <2>1. Count(l.inn, PingLine) \in Nat
    BY <1>1, CountType
  <2>2. Count(Append(l.inn, a), PingLine) = Count(l.inn, PingLine) + 0
    BY <1>1, CountAppend
  <2> QED BY <2>1, <2>2
<1>3. PingOk(l) => PingOk(k)
  BY <1>2 DEF PingOk, Answering, Alike
<1>4. NameOk(l) => NameOk(k)
  <2> SUFFICES ASSUME NameOk(l), Registered(k) PROVE Told(botname[k.owner], k.inn, k.nick)
    BY DEF NameOk
  <2>1. Told(botname[l.owner], l.inn, l.nick)
    BY DEF NameOk, Registered, Alike
  <2>2. Told(botname[l.owner], Append(l.inn, a), After(l.nick, a))
    BY <1>1, <2>1, ToldMore
  <2> QED BY <2>2 DEF Alike
<1> QED BY <1>3, <1>4

\* Hearing a line that is no message of the channel.
LEMMA HearsNoMessage ==
  ASSUME NEW s \in Seq(InLines), NEW a \in InLines, NEW e, NEW free, a # e, OnceIn(s, e, free)
  PROVE  OnceIn(Append(s, a), e, free)
<1>1. Len(s) \in Nat /\ DOMAIN s = 1 .. Len(s) /\ DOMAIN Append(s, a) = 1 .. Len(s) + 1
      /\ Append(s, a)[Len(s) + 1] = a /\ \A i \in 1 .. Len(s) : Append(s, a)[i] = s[i]
  BY LenProperties, AppendProperties
<1>2. \A i \in 1 .. Len(s) + 1 : i \in 1 .. Len(s) \/ i = Len(s) + 1
  BY <1>1
<1> QED BY <1>1, <1>2 DEF OnceIn

LEMMA OnceNow ==
  ASSUME LinkInv, NEW m \in Msgs
  PROVE  /\ m \notin told => handled[m] = 0
         /\ \A g \in Fds : link[g].owner = 0 => OnceIn(link[g].inn, <<"PRIVMSG", m>>, m \in told /\ handled[m] = 0)
BY DEF LinkInv, OnceInv

LEMMA AskedStays ==
  ASSUME UNCHANGED msg, tried \subseteq tried', \A g \in Fds : link'[g].out = link[g].out
  PROVE  \A n : Asked(n) => Asked(n)'
BY DEF Asked

LEMMA PingStep ==
  ASSUME LinkInv, NEW f \in Fds, Ping(f)
  PROVE  LinkInv'
<1>0. link \in [Fds -> LinkState] /\ link[f] \in LinkState /\ left.events \in Nat /\ left.drops \in Nat
      /\ left \in [events : Nat, drops : Nat] /\ told \subseteq Msgs /\ tried \subseteq Nicks
  BY LinkTypes
<1>1. link[f].pings \in Nat /\ link[f].inn \in Seq(InLines) /\ link[f].out \in Seq(OutLines)
  BY <1>0, LinkFields
<1>2. /\ left' = [left EXCEPT !.events = left.events - 1] /\ left.events > 0 /\ Registered(link[f])
      /\ link' = [link EXCEPT ![f] = Tell([link[f] EXCEPT !.pings = link[f].pings + 1], <<PingLine>>)]
      /\ UNCHANGED <<socket, outVars, nameVars, threadVars, worldVars, handled, fault>>
  <2>1. link' = [link EXCEPT ![f] = Tell([link[f] EXCEPT !.pings = link[f].pings + 1], <<PingLine>>)]
    BY DEF Ping, PingLine
  <2>2. Registered(link[f]) /\ Event("events")
    BY DEF Ping
  <2> QED BY <2>1, <2>2 DEF Event
<1>3. left' \in [events : Nat, drops : Nat] /\ left'.drops = left.drops
  <2>1. left.events - 1 \in Nat
    BY <1>0, <1>2
  <2> QED BY <1>0, <1>2, <2>1
<1> DEFINE j == [link[f] EXCEPT !.pings = link[f].pings + 1]
           k == Tell(j, <<PingLine>>)
<1>4. j \in LinkState /\ Alike(j, link[f]) /\ j.pings = link[f].pings + 1 /\ j.inn = link[f].inn /\ j.out = link[f].out
  <2>1. link[f].pings + 1 \in Nat
    BY <1>1
  <2> QED BY <1>0, <2>1, PingsSet
<1>5. /\ k \in LinkState /\ Alike(k, link[f]) /\ k.pings = link[f].pings + 1
      /\ k.inn = Append(link[f].inn, PingLine) /\ k.out = link[f].out
  <2> HIDE DEF j
  <2> QED BY <1>4, LinesAre, TellOne DEF Alike
<1>6. link' = [link EXCEPT ![f] = k]
  BY <1>2
<1> HIDE DEF j, k
<1>7. link' \in [Fds -> LinkState] /\ link'[f] = k /\ \A g \in Fds : g # f => link'[g] = link[g]
  BY <1>0, <1>5, <1>6
<1>8. PingOk(k) /\ NameOk(k)
  <2>1. Count(k.inn, PingLine) = Count(link[f].inn, PingLine) + 1
    BY <1>1, <1>5, LinesAre, CountAppend
  <2>2. Count(link[f].inn, PingLine) \in Nat /\ Count(link[f].out, PongLine) \in Nat
    BY <1>1, CountType
  <2>3. link[f].up /\ PingOk(link[f]) /\ NameOk(link[f])
    BY <1>2 DEF LinkInv, PingInv, NameInv, Registered
  <2>4. Count(link[f].inn, PingLine) + Count(link[f].out, PongLine)
          + (IF msg[link[f].owner] = PongLine THEN 1 ELSE 0) <= link[f].pings
    BY <2>3 DEF PingOk, Answering
  <2>5. Count(k.inn, PingLine) + Count(link[f].out, PongLine)
          + (IF msg[link[f].owner] = PongLine THEN 1 ELSE 0) <= link[f].pings + 1
    BY <1>1, <2>1, <2>2, <2>4
  <2>6. PingOk(k)
    BY <1>5, <2>3, <2>5 DEF PingOk, Answering, Alike
  <2>7. Told(botname[link[f].owner], link[f].inn, link[f].nick)
    BY <1>2, <2>3 DEF NameOk
  <2>8. After(link[f].nick, PingLine) = link[f].nick /\ link[f].nick \in MaybeNick /\ PingLine \in InLines
    BY <1>0, LinesAre, LinkFields DEF After, PingLine
  <2>9. Told(botname[link[f].owner], Append(link[f].inn, PingLine), link[f].nick)
    BY <1>1, <2>7, <2>8, ToldMore
  <2> QED BY <1>5, <2>6, <2>9 DEF NameOk, Alike
<1>9. \A g \in Fds : link'[g].owner = link[g].owner /\ link'[g].up = link[g].up /\ link'[g].nick = link[g].nick
                     /\ link'[g].out = link[g].out /\ PingOk(link'[g]) /\ NameOk(link'[g])
  <2>1. \A g \in Fds : PingOk(link[g]) /\ NameOk(link[g])
    BY DEF LinkInv, PingInv, NameInv
  <2> QED BY <1>5, <1>7, <1>8, <2>1 DEF Alike
<1>10. \A g, h \in Fds : g # h /\ link'[g].nick = link'[h].nick => link'[g].nick = -1
  BY <1>9 DEF LinkInv, NickInv
<1>11. ASSUME NEW m \in Msgs, NEW g \in Fds, link'[g].owner = 0
       PROVE  OnceIn(link'[g].inn, <<"PRIVMSG", m>>, m \in told /\ handled[m] = 0)
  <2>1. OnceIn(link[g].inn, <<"PRIVMSG", m>>, m \in told /\ handled[m] = 0)
    BY <1>9, <1>11, OnceNow
  <2>2. PingLine # <<"PRIVMSG", m>>
    BY DEF PingLine
  <2>3. CASE g = f
    BY <1>1, <1>5, <1>7, <2>1, <2>2, <2>3, LinesAre, HearsNoMessage
  <2>4. CASE g # f
    BY <1>7, <2>1, <2>4
  <2> QED BY <2>3, <2>4
<1>12. \A n : Asked(n) => Asked(n)'
  BY <1>2, <1>9, AskedStays DEF worldVars, threadVars
<1>13. UNCHANGED <<login, taken, told, tried>>
  BY <1>2 DEF worldVars
<1>14. \A m \in Msgs : /\ m \notin told' => handled[m] = 0
                       /\ \A g \in Fds : link'[g].owner = 0 =>
                             OnceIn(link'[g].inn, <<"PRIVMSG", m>>, m \in told' /\ handled[m] = 0)
  BY <1>11, <1>13, OnceNow
<1>15. UNCHANGED <<socket, outVars, nameVars, threadVars, login, taken, handled, fault>>
       /\ told' \subseteq Msgs /\ tried' \subseteq Nicks
  BY <1>0, <1>2, <1>13
<1> QED BY <1>3, <1>7, <1>9, <1>10, <1>12, <1>14, <1>15, TalkStep

LEMMA DropLinks == ASSUME LinkInv, NEW f \in Fds, Drop(f) PROVE LinkInv'
<1>0. /\ link \in [Fds -> LinkState] /\ link[f] \in LinkState /\ left.events \in Nat /\ left.drops \in Nat
      /\ left \in [events : Nat, drops : Nat] /\ MaxDrops \in Nat
  BY LinkTypes, ConnAssumption
<1> DEFINE k == [Closed EXCEPT !.owner = link[f].owner, !.inn = link[f].inn]
<1>1. /\ left.drops > 0 /\ left' = [left EXCEPT !.drops = left.drops - 1] /\ link[f].up
      /\ link' = [link EXCEPT ![f] = k]
      /\ UNCHANGED <<socket, outVars, nameVars, threadVars, worldVars, handled, fault>>
  BY DEF Drop, Event
<1>2. /\ k \in LinkState /\ k.owner = link[f].owner /\ ~k.up /\ k.inn = link[f].inn /\ k.out = <<>>
      /\ k.pings = 0 /\ k.nick = -1 /\ ~k.user /\ ~k.joined
  <2>1. link[f].owner \in Socks \cup {None} /\ link[f].inn \in Seq(InLines)
    BY <1>0, LinkFields
  <2>2. /\ Closed \in LinkState /\ ~Closed.up /\ Closed.out = <<>> /\ Closed.pings = 0
        /\ Closed.nick = -1 /\ ~Closed.user /\ ~Closed.joined
    BY FreshLinks
  <2>3. k \in LinkState
    BY <2>1, <2>2 DEF LinkState
  <2>4. k.owner = link[f].owner /\ k.up = Closed.up /\ k.inn = link[f].inn /\ k.out = Closed.out
        /\ k.pings = Closed.pings /\ k.nick = Closed.nick /\ k.user = Closed.user /\ k.joined = Closed.joined
    BY <2>2 DEF LinkState
  <2> QED BY <2>2, <2>3, <2>4
<1> HIDE DEF k
<1>3. left' \in [events : Nat, drops : Nat] /\ left'.drops < left.drops
  <2>1. left.drops - 1 \in Nat
    BY <1>0, <1>1
  <2> QED BY <1>0, <1>1, <2>1
<1>4. /\ link' \in [Fds -> LinkState] /\ link'[f] = k /\ \A g \in Fds : g # f => link'[g] = link[g]
      /\ PingInv' /\ NickInv' /\ NameInv' /\ OnceInv'
  <2>1. UNCHANGED <<botname, msg, told, handled>>
    BY <1>1 DEF nameVars, threadVars, worldVars
  <2> QED BY <1>1, <1>2, <2>1, LinkAnew
<1>5. TypeInv'
  BY <1>1, <1>3, <1>4 DEF LinkInv, TypeInv, outVars, nameVars, threadVars, worldVars
<1>6. SendInv'
  BY <1>1 DEF LinkInv, SendInv, threadVars
<1>7. OwnerInv'
  BY <1>1, <1>2, <1>4, OwnerKept DEF LinkInv, threadVars
<1>8. AskedInv'
  <2>1. left'.drops # MaxDrops /\ left'.drops <= MaxDrops
    BY <1>0, <1>3 DEF LinkInv, AskedInv
  <2> QED BY <2>1 DEF AskedInv, NoDrop
<1> QED BY <1>4, <1>5, <1>6, <1>7, <1>8 DEF LinkInv

LEMMA SayLinks == ASSUME LinkInv, NEW m \in Msgs, Say(m) PROVE LinkInv'
<1>0. link \in [Fds -> LinkState] /\ told \subseteq Msgs /\ tried \subseteq Nicks
      /\ left \in [events : Nat, drops : Nat]
  BY LinkTypes
<1> DEFINE line == <<"PRIVMSG", m>>
<1>1. /\ m \notin told /\ told' = told \cup {m}
      /\ link' = [g \in Fds |-> IF link[g].joined THEN Tell(link[g], <<line>>) ELSE link[g]]
      /\ UNCHANGED <<socket, outVars, nameVars, threadVars, login, taken, tried, handled, left, fault>>
  BY DEF Say
<1>2. line \in InLines /\ line # PingLine /\ \A n : After(n, line) = n
  BY LinesAre DEF PingLine, After
<1>3. \A n \in Msgs : n # m => line # <<"PRIVMSG", n>>
  OBVIOUS
<1> HIDE DEF line
<1>4. ASSUME NEW g \in Fds
      PROVE  /\ link'[g] \in LinkState /\ Alike(link'[g], link[g]) /\ link'[g].out = link[g].out
             /\ link'[g].inn = link[g].inn \/ link'[g].inn = Append(link[g].inn, line)
             /\ PingOk(link'[g]) /\ NameOk(link'[g])
  <2>1. PingOk(link[g]) /\ NameOk(link[g]) /\ link[g] \in LinkState
    BY <1>0 DEF LinkInv, PingInv, NameInv
  <2>2. CASE link[g].joined
    <3>1. link'[g] = Tell(link[g], <<line>>)
      BY <1>1, <2>2
    <3>2. /\ link'[g] \in LinkState /\ Alike(link'[g], link[g]) /\ link'[g].pings = link[g].pings
          /\ link'[g].inn = Append(link[g].inn, line) /\ link'[g].out = link[g].out
      BY <1>2, <2>1, <3>1, TellOne
    <3>3. PingOk(link'[g]) /\ NameOk(link'[g])
      BY <1>2, <2>1, <3>2, Hears
    <3> QED BY <3>2, <3>3
  <2>3. CASE ~link[g].joined
    <3>1. link'[g] = link[g]
      BY <1>1, <2>3
    <3> QED BY <2>1, <3>1 DEF Alike
  <2> QED BY <2>2, <2>3
<1>5. link' \in [Fds -> LinkState]
  <2>1. link' = [g \in Fds |-> link'[g]]
    BY <1>1
  <2> QED BY <1>4, <2>1
<1>6. \A g \in Fds : link'[g].owner = link[g].owner /\ link'[g].up = link[g].up /\ link'[g].nick = link[g].nick
                     /\ PingOk(link'[g]) /\ NameOk(link'[g]) /\ link'[g].out = link[g].out
  BY <1>4 DEF Alike
<1>7. \A g, h \in Fds : g # h /\ link'[g].nick = link'[h].nick => link'[g].nick = -1
  BY <1>6 DEF LinkInv, NickInv
<1>8. ASSUME NEW n \in Msgs
      PROVE  /\ n \notin told' => handled[n] = 0
             /\ \A g \in Fds : link'[g].owner = 0 =>
                  OnceIn(link'[g].inn, <<"PRIVMSG", n>>, n \in told' /\ handled[n] = 0)
  <2>1. n \notin told' => handled[n] = 0
    BY <1>1, OnceNow
  <2>2. ASSUME NEW g \in Fds, link'[g].owner = 0
        PROVE  OnceIn(link'[g].inn, <<"PRIVMSG", n>>, n \in told' /\ handled[n] = 0)
    <3>1. OnceIn(link[g].inn, <<"PRIVMSG", n>>, n \in told /\ handled[n] = 0) /\ link[g].inn \in Seq(InLines)
      BY <1>0, <1>6, <2>2, OnceNow, LinkFields
    <3>2. CASE n # m
      <4>1. n \in told' <=> n \in told
        BY <1>1, <3>2
      <4>2. OnceIn(Append(link[g].inn, line), <<"PRIVMSG", n>>, n \in told /\ handled[n] = 0)
        BY <1>2, <1>3, <3>1, <3>2, HearsNoMessage
      <4>3. (n \in told' /\ handled[n] = 0) = (n \in told /\ handled[n] = 0)
        BY <4>1
      <4> QED BY <1>4, <3>1, <4>2, <4>3
    <3>3. CASE n = m
      <4>1. n \in told' /\ handled[n] = 0
        BY <1>1, <3>3, OnceNow
      <4>2. \A i \in DOMAIN link[g].inn : link[g].inn[i] # <<"PRIVMSG", n>>
        BY <1>1, <3>1, <3>3 DEF OnceIn
      <4>3. OnceIn(link[g].inn, <<"PRIVMSG", n>>, TRUE)
        BY <4>2 DEF OnceIn
      <4>4. \A i \in 1 .. Len(link[g].inn) : link[g].inn[i] # <<"PRIVMSG", n>>
        BY <3>1, <4>2, LenProperties
      <4>5. OnceIn(Append(link[g].inn, line), <<"PRIVMSG", n>>, TRUE)
        BY <1>2, <3>1, <4>3, <4>4, OnceAppend
      <4>6. (n \in told' /\ handled[n] = 0) = TRUE
        BY <4>1
      <4> QED BY <1>4, <4>3, <4>5, <4>6
    <3> QED BY <3>2, <3>3
  <2> QED BY <2>1, <2>2
<1>9. \A n : Asked(n) => Asked(n)'
  BY <1>1, <1>6, AskedStays DEF threadVars
<1>10. told' \subseteq Msgs /\ tried' \subseteq Nicks /\ left' \in [events : Nat, drops : Nat] /\ left'.drops = left.drops
       /\ UNCHANGED <<socket, outVars, nameVars, threadVars, login, taken, handled, fault>>
  BY <1>0, <1>1
<1> QED BY <1>5, <1>6, <1>7, <1>8, <1>9, <1>10, TalkStep

LEMMA NickSet ==
  ASSUME NEW l \in LinkState, NEW v \in MaybeNick
  PROVE  LET k == [l EXCEPT !.nick = v]
         IN /\ k \in LinkState /\ k.owner = l.owner /\ k.up = l.up /\ k.nick = v /\ k.user = l.user
            /\ k.pings = l.pings /\ k.inn = l.inn /\ k.out = l.out
BY DEF LinkState

LEMMA UserSet ==
  ASSUME NEW l \in LinkState, NEW v \in BOOLEAN
  PROVE  LET k == [l EXCEPT !.user = v]
         IN /\ k \in LinkState /\ k.owner = l.owner /\ k.up = l.up /\ k.nick = l.nick /\ k.user = v
            /\ k.pings = l.pings /\ k.inn = l.inn /\ k.out = l.out
BY DEF LinkState

LEMMA JoinedSet ==
  ASSUME NEW l \in LinkState, NEW v \in BOOLEAN
  PROVE  LET k == [l EXCEPT !.joined = v]
         IN /\ k \in LinkState /\ k.owner = l.owner /\ k.up = l.up /\ k.nick = l.nick /\ k.user = l.user
            /\ k.pings = l.pings /\ k.inn = l.inn /\ k.out = l.out
BY DEF LinkState

\* A connection whose lines change, but by no PING that is not counted.
LEMMA PingOkUp ==
  ASSUME NEW l \in LinkState, NEW k \in LinkState, PingOk(l), l.up, k.up, k.owner = l.owner, NEW d \in {0, 1},
         Count(k.inn, PingLine) = Count(l.inn, PingLine), Count(l.out, PongLine) = Count(k.out, PongLine) + d,
         k.pings = l.pings - d
  PROVE  PingOk(k)
<1>1. /\ Count(l.inn, PingLine) \in Nat /\ Count(l.out, PongLine) \in Nat /\ Count(k.out, PongLine) \in Nat
      /\ l.pings \in Nat
  BY LinkFields, CountType
<1>2. Count(l.inn, PingLine) + Count(l.out, PongLine) + (IF msg[l.owner] = PongLine THEN 1 ELSE 0) <= l.pings
  BY DEF PingOk, Answering
<1>3. Count(k.inn, PingLine) + Count(k.out, PongLine) + (IF msg[l.owner] = PongLine THEN 1 ELSE 0) <= l.pings - d
  BY <1>1, <1>2
<1> QED BY <1>3 DEF PingOk, Answering

LEMMA CountsNot ==
  ASSUME NEW S, NEW s \in Seq(S), NEW a \in S, NEW e, a # e
  PROVE  Count(Append(s, a), e) = Count(s, e)
<1>1. Count(s, e) \in Nat /\ Count(Append(s, a), e) = Count(s, e) + 0
  BY CountType, CountAppend
<1> QED BY <1>1

LEMMA RenameLinks ==
  ASSUME LinkInv, NEW f \in Fds, NEW n \in Nicks, Rename(f, n)
  PROVE  LinkInv'
<1>0. /\ link \in [Fds -> LinkState] /\ link[f] \in LinkState /\ told \subseteq Msgs /\ tried \subseteq Nicks
      /\ left \in [events : Nat, drops : Nat] /\ left.events \in Nat
  BY LinkTypes
<1> DEFINE line == <<"NICK", link[f].nick, n>>
           j == [link[f] EXCEPT !.nick = n]
<1>1. /\ Registered(link[f]) /\ ~InUse(n) /\ left.events > 0 /\ left' = [left EXCEPT !.events = left.events - 1]
      /\ link' = [g \in Fds |-> IF g = f THEN Tell(j, <<line>>)
                                ELSE IF link[f].joined /\ link[g].joined THEN Tell(link[g], <<line>>) ELSE link[g]]
      /\ UNCHANGED <<socket, outVars, nameVars, threadVars, worldVars, handled, fault>>
  BY DEF Rename, Event
<1>2. left' \in [events : Nat, drops : Nat] /\ left'.drops = left.drops
  <2>1. left.events - 1 \in Nat
    BY <1>0, <1>1
  <2> QED BY <1>0, <1>1, <2>1
<1>3. link[f].up /\ link[f].nick # -1 /\ link[f].nick \in Nicks /\ n \in MaybeNick /\ n # -1
  <2>1. link[f].nick \in MaybeNick
    BY <1>0, LinkFields
  <2>2. -1 \notin Nicks
    BY ConnAssumption DEF Nicks, List
  <2> QED BY <1>1, <2>1, <2>2 DEF Registered, MaybeNick
<1>4. /\ line \in InLines /\ line # PingLine /\ After(link[f].nick, line) = n
      /\ \A b : b # link[f].nick => After(b, line) = b
      /\ \A m \in Msgs : line # <<"PRIVMSG", m>>
  BY <1>3, LinesAre DEF PingLine, After
<1>5. \A g \in Fds : g # f => link[g].nick # link[f].nick
  BY <1>3 DEF LinkInv, NickInv
<1>6. /\ j \in LinkState /\ j.owner = link[f].owner /\ j.up = link[f].up /\ j.nick = n /\ j.user = link[f].user
      /\ j.pings = link[f].pings /\ j.inn = link[f].inn /\ j.out = link[f].out
  BY <1>0, <1>3, NickSet
<1> HIDE DEF line, j
<1>7. /\ link'[f] \in LinkState /\ Alike(link'[f], j) /\ link'[f].pings = link[f].pings
      /\ link'[f].inn = Append(link[f].inn, line) /\ link'[f].out = link[f].out
  <2>1. link'[f] = Tell(j, <<line>>)
    BY <1>1
  <2> QED BY <1>4, <1>6, <2>1, TellOne
<1>8. PingOk(link[f]) /\ NameOk(link[f]) /\ link[f].inn \in Seq(InLines)
  BY <1>0, LinkFields DEF LinkInv, PingInv, NameInv
<1>9. PingOk(link'[f]) /\ NameOk(link'[f])
  <2>1. link'[f].up /\ link'[f].owner = link[f].owner /\ link'[f].nick = n
    BY <1>3, <1>6, <1>7 DEF Alike
  <2>2. Count(link'[f].inn, PingLine) = Count(link[f].inn, PingLine)
    BY <1>4, <1>7, <1>8, CountsNot
  <2>3. Count(link[f].out, PongLine) \in Nat /\ link[f].pings \in Nat
    BY <1>0, LinkFields, CountType
  <2>4. Count(link[f].out, PongLine) = Count(link'[f].out, PongLine) + 0 /\ link'[f].pings = link[f].pings - 0
    BY <1>7, <2>3
  <2>5. PingOk(link'[f])
    BY <1>0, <1>3, <1>7, <1>8, <2>1, <2>2, <2>4, PingOkUp
  <2>6. Told(botname[link[f].owner], link[f].inn, link[f].nick)
    BY <1>1, <1>8 DEF NameOk
  <2>7. Told(botname[link[f].owner], Append(link[f].inn, line), n)
    BY <1>3, <1>4, <1>8, <2>6, ToldMore
  <2> QED BY <1>7, <2>1, <2>5, <2>7 DEF NameOk
<1>10. ASSUME NEW g \in Fds, g # f
       PROVE  /\ link'[g] \in LinkState /\ Alike(link'[g], link[g]) /\ link'[g].out = link[g].out
              /\ link'[g].inn = link[g].inn \/ link'[g].inn = Append(link[g].inn, line)
              /\ PingOk(link'[g]) /\ NameOk(link'[g])
  <2>1. PingOk(link[g]) /\ NameOk(link[g]) /\ link[g] \in LinkState
    BY <1>0 DEF LinkInv, PingInv, NameInv
  <2>2. CASE link[f].joined /\ link[g].joined
    <3>1. link'[g] = Tell(link[g], <<line>>)
      BY <1>1, <1>10, <2>2
    <3>2. /\ link'[g] \in LinkState /\ Alike(link'[g], link[g]) /\ link'[g].pings = link[g].pings
          /\ link'[g].inn = Append(link[g].inn, line) /\ link'[g].out = link[g].out
      BY <1>4, <2>1, <3>1, TellOne
    <3>3. After(link[g].nick, line) = link[g].nick
      BY <1>4, <1>5, <1>10
    <3>4. PingOk(link'[g]) /\ NameOk(link'[g])
      BY <1>4, <2>1, <3>2, <3>3, Hears
    <3> QED BY <3>2, <3>4
  <2>3. CASE ~(link[f].joined /\ link[g].joined)
    <3>1. link'[g] = link[g]
      BY <1>1, <1>10, <2>3
    <3> QED BY <2>1, <3>1 DEF Alike
  <2> QED BY <2>2, <2>3
<1>11. link' \in [Fds -> LinkState]
  <2>1. link' = [g \in Fds |-> link'[g]]
    BY <1>1
  <2>2. \A g \in Fds : link'[g] \in LinkState
    BY <1>7, <1>10
  <2> QED BY <2>1, <2>2
<1>12. \A g \in Fds : link'[g].owner = link[g].owner /\ link'[g].up = link[g].up /\ link'[g].out = link[g].out
                      /\ PingOk(link'[g]) /\ NameOk(link'[g])
  BY <1>6, <1>7, <1>9, <1>10 DEF Alike
<1>13. \A g, h \in Fds : g # h /\ link'[g].nick = link'[h].nick => link'[g].nick = -1
  <2>1. link'[f].nick = n /\ \A g \in Fds : g # f => link'[g].nick = link[g].nick /\ link[g].nick # n
    BY <1>1, <1>6, <1>7, <1>10 DEF Alike, InUse
  <2> QED BY <2>1 DEF LinkInv, NickInv
<1>14. ASSUME NEW m \in Msgs, NEW g \in Fds, link'[g].owner = 0
       PROVE  OnceIn(link'[g].inn, <<"PRIVMSG", m>>, m \in told /\ handled[m] = 0)
  <2>1. OnceIn(link[g].inn, <<"PRIVMSG", m>>, m \in told /\ handled[m] = 0) /\ link[g].inn \in Seq(InLines)
    BY <1>0, <1>12, <1>14, OnceNow, LinkFields
  <2>2. OnceIn(Append(link[g].inn, line), <<"PRIVMSG", m>>, m \in told /\ handled[m] = 0)
    BY <1>4, <2>1, HearsNoMessage
  <2> QED BY <1>7, <1>10, <2>1, <2>2
<1>15. told' = told /\ tried' = tried /\ msg' = msg /\ login' = login /\ taken' = taken
  BY <1>1 DEF worldVars, threadVars
<1>16. \A m : Asked(m) => Asked(m)'
  BY <1>12, <1>15, AskedStays
<1>17. \A m \in Msgs : /\ m \notin told' => handled[m] = 0
                       /\ \A g \in Fds : link'[g].owner = 0 =>
                            OnceIn(link'[g].inn, <<"PRIVMSG", m>>, m \in told' /\ handled[m] = 0)
  BY <1>14, <1>15, OnceNow
<1>18. told' \subseteq Msgs /\ tried' \subseteq Nicks
       /\ UNCHANGED <<socket, outVars, nameVars, threadVars, login, taken, handled, fault>>
  BY <1>0, <1>1, <1>15
<1> QED BY <1>2, <1>11, <1>12, <1>13, <1>16, <1>17, <1>18, TalkStep

LEMMA WelcomeIs ==
  ASSUME NEW l \in LinkState, -1 \notin Nicks
  PROVE  /\ Welcome(l) \in LinkState /\ Alike(Welcome(l), l) /\ Welcome(l).pings = l.pings /\ Welcome(l).out = l.out
         /\ Welcome(l).inn = IF Registered(l) THEN Append(Append(l.inn, <<"001">>), <<"042", l.nick>>) ELSE l.inn
<1>1. CASE Registered(l)
  <2>1. l.nick \in Nicks
    BY <1>1, LinkFields DEF Registered, MaybeNick
  <2>2. <<"001">> \in InLines /\ <<"042", l.nick>> \in InLines
    BY <2>1, LinesAre
  <2>3. Welcome(l) = Tell(l, <<<<"001">>, <<"042", l.nick>>>>)
    BY <1>1 DEF Welcome
  <2>4. LET k == Tell(l, <<<<"001">>, <<"042", l.nick>>>>)
        IN /\ k \in LinkState /\ Alike(k, l) /\ k.pings = l.pings
           /\ k.inn = Append(Append(l.inn, <<"001">>), <<"042", l.nick>>) /\ k.out = l.out
    BY <2>2, TellTwo
  <2> QED BY <1>1, <2>3, <2>4
<1>2. CASE ~Registered(l)
  BY <1>2 DEF Welcome, Alike
<1> QED BY <1>1, <1>2

LEMMA NoSuchNick == -1 \notin Nicks
BY ConnAssumption DEF Nicks, List

\* What the server makes of a connection l when it reads a line.
Answered(l, k, line) ==
  /\ k.owner = l.owner /\ k.up /\ k.out = l.out
  /\ k.pings = l.pings - (IF line = PongLine THEN 1 ELSE 0)
  /\ k.nick = l.nick \/ \E n \in Nicks : line = <<"NICK", n>> /\ k.nick = n /\ ~InUse(n)
  /\ \/ k.inn = l.inn /\ (Registered(k) => Registered(l) /\ k.nick = l.nick)
     \/ \E a \in {<<"433">>, <<"900">>} : k.inn = Append(l.inn, a) /\ (Registered(k) => Registered(l) /\ k.nick = l.nick)
     \/ Registered(k) /\ k.inn = Append(Append(l.inn, <<"001">>), <<"042", k.nick>>)

\* One that has no new name and is not welcomed.
LEMMA AnsweredQuietly ==
  ASSUME NEW l, NEW k, NEW line, l.up, k.up = l.up, k.owner = l.owner, k.out = l.out, k.nick = l.nick,
         Registered(k) => Registered(l), k.pings = l.pings - (IF line = PongLine THEN 1 ELSE 0),
         k.inn = l.inn \/ \E a \in {<<"433">>, <<"900">>} : k.inn = Append(l.inn, a)
  PROVE  Answered(l, k, line)
<1>1. k.inn = l.inn \/ \E a \in {<<"433">>, <<"900">>} : k.inn = Append(l.inn, a)
  OBVIOUS
<1>2. CASE k.inn = l.inn
  BY <1>2 DEF Answered
<1>3. ASSUME NEW a \in {<<"433">>, <<"900">>}, k.inn = Append(l.inn, a) PROVE Answered(l, k, line)
  BY <1>3 DEF Answered
<1> QED BY <1>1, <1>2, <1>3

LEMMA AnswerIs ==
  ASSUME NEW l \in LinkState, l.up, NEW line \in OutLines, line = PongLine => l.pings > 0
  PROVE  Answer(l, line) \in LinkState /\ Answered(l, Answer(l, line), line)
<1> DEFINE k == Answer(l, line)
<1> SUFFICES k \in LinkState /\ Answered(l, k, line)
  OBVIOUS
<1>0. l.pings \in Nat /\ l.pings - 0 = l.pings
  <2>1. l.pings \in Nat
    BY LinkFields
  <2> QED BY <2>1
<1>1. ASSUME NEW n \in Nicks, line = <<"NICK", n>>, InUse(n) PROVE k \in LinkState /\ Answered(l, k, line)
  <2>1. k = Tell(l, <<<<"433">>>>) /\ line # PongLine
    BY <1>1 DEF Answer, PongLine
  <2>2. k \in LinkState /\ Alike(k, l) /\ k.pings = l.pings /\ k.inn = Append(l.inn, <<"433">>) /\ k.out = l.out
    BY <2>1, LinesAre, TellOne
  <2> HIDE DEF k
  <2> QED BY <1>0, <2>1, <2>2 DEF Answered, Alike, Registered
<1>2. ASSUME NEW n \in Nicks, line = <<"NICK", n>>, ~InUse(n) PROVE k \in LinkState /\ Answered(l, k, line)
  <2> DEFINE j == [l EXCEPT !.nick = n]
  <2>1. k = Welcome(j) /\ line # PongLine
    BY <1>2 DEF Answer, PongLine
  <2>2. /\ j \in LinkState /\ j.owner = l.owner /\ j.up = l.up /\ j.nick = n /\ j.user = l.user
        /\ j.pings = l.pings /\ j.inn = l.inn /\ j.out = l.out
    <3>1. n \in MaybeNick
      BY DEF MaybeNick
    <3> QED BY <3>1, NickSet
  <2> HIDE DEF j, k
  <2>3. /\ k \in LinkState /\ Alike(k, j) /\ k.pings = j.pings /\ k.out = j.out
        /\ k.inn = IF Registered(j) THEN Append(Append(j.inn, <<"001">>), <<"042", j.nick>>) ELSE j.inn
    BY <2>1, <2>2, NoSuchNick, WelcomeIs
  <2>4. Registered(k) <=> Registered(j)
    BY <2>3 DEF Alike, Registered
  <2> QED BY <1>0, <1>2, <2>1, <2>2, <2>3, <2>4 DEF Answered, Alike
<1>3. CASE line = <<"USER">>
  <2> DEFINE j == [l EXCEPT !.user = TRUE]
  <2>1. k = Welcome(j) /\ line # PongLine
    BY <1>3 DEF Answer, PongLine
  <2>2. /\ j \in LinkState /\ j.owner = l.owner /\ j.up = l.up /\ j.nick = l.nick /\ j.user = TRUE
        /\ j.pings = l.pings /\ j.inn = l.inn /\ j.out = l.out
    BY UserSet
  <2> HIDE DEF j, k
  <2>3. /\ k \in LinkState /\ Alike(k, j) /\ k.pings = j.pings /\ k.out = j.out
        /\ k.inn = IF Registered(j) THEN Append(Append(j.inn, <<"001">>), <<"042", j.nick>>) ELSE j.inn
    BY <2>1, <2>2, NoSuchNick, WelcomeIs
  <2>4. Registered(k) <=> Registered(j)
    BY <2>3 DEF Alike, Registered
  <2>5. k.owner = l.owner /\ k.up /\ k.out = l.out /\ k.pings = l.pings /\ k.nick = l.nick
    BY <2>2, <2>3 DEF Alike
  <2>6. CASE Registered(j)
    BY <1>0, <2>1, <2>2, <2>3, <2>4, <2>5, <2>6 DEF Answered
  <2>7. CASE ~Registered(j)
    BY <1>0, <2>1, <2>2, <2>3, <2>4, <2>5, <2>7, AnsweredQuietly
  <2> QED BY <2>3, <2>6, <2>7
<1>4. CASE line = <<"IDENTIFY">>
  <2>1. k = (IF Registered(l) THEN Tell(l, <<<<"900">>>>) ELSE l) /\ line # PongLine
    BY <1>4 DEF Answer, PongLine
  <2>2. CASE Registered(l)
    <3>1. k \in LinkState /\ Alike(k, l) /\ k.pings = l.pings /\ k.inn = Append(l.inn, <<"900">>) /\ k.out = l.out
      BY <2>1, <2>2, LinesAre, TellOne
    <3> HIDE DEF k
    <3>2. k.owner = l.owner /\ k.up = l.up /\ k.nick = l.nick /\ (Registered(k) => Registered(l))
      BY <2>2, <3>1 DEF Alike
    <3> QED BY <1>0, <2>1, <3>1, <3>2, AnsweredQuietly
  <2>3. CASE ~Registered(l)
    <3>1. k = l
      BY <2>1, <2>3
    <3> HIDE DEF k
    <3> QED BY <1>0, <2>1, <3>1, AnsweredQuietly
  <2> QED BY <2>2, <2>3
<1>5. CASE line = <<"JOIN">>
  <2>1. k = [l EXCEPT !.joined = Registered(l)] /\ line # PongLine
    BY <1>5 DEF Answer, PongLine
  <2>2. Registered(l) \in BOOLEAN
    BY LinkFields DEF Registered
  <2>3. /\ k \in LinkState /\ k.owner = l.owner /\ k.up = l.up /\ k.nick = l.nick /\ k.user = l.user
        /\ k.pings = l.pings /\ k.inn = l.inn /\ k.out = l.out
    <3> DEFINE v == Registered(l)
    <3> HIDE DEF v
    <3>1. v \in BOOLEAN /\ k = [l EXCEPT !.joined = v]
      BY <2>1, <2>2 DEF v
    <3> HIDE DEF k
    <3> QED BY <3>1, JoinedSet
  <2> HIDE DEF k
  <2>4. Registered(k) => Registered(l)
    BY <2>3 DEF Registered
  <2> QED BY <1>0, <2>1, <2>3, <2>4, AnsweredQuietly
<1>6. CASE line = PongLine
  <2>1. k = [l EXCEPT !.pings = l.pings - 1]
    BY <1>6 DEF Answer, PongLine
  <2>2. l.pings - 1 \in Nat
    BY <1>0, <1>6
  <2>3. k \in LinkState /\ Alike(k, l) /\ k.pings = l.pings - 1 /\ k.inn = l.inn /\ k.out = l.out
    BY <2>1, <2>2, PingsSet
  <2> HIDE DEF k
  <2>4. k.owner = l.owner /\ k.up = l.up /\ k.nick = l.nick /\ (Registered(k) => Registered(l))
    BY <2>3 DEF Alike, Registered
  <2> QED BY <1>6, <2>3, <2>4, AnsweredQuietly
<1>7. CASE line = TextLine
  <2>1. k = l /\ line # PongLine
    BY <1>7 DEF Answer, TextLine, PongLine
  <2> HIDE DEF k
  <2> QED BY <1>0, <2>1, AnsweredQuietly
<1> HIDE DEF k
<1>8. \/ \E n \in Nicks : line = <<"NICK", n>>
      \/ line \in {<<"USER">>, <<"IDENTIFY">>, <<"JOIN">>, PongLine, TextLine}
  BY DEF OutLines, PongLine, TextLine
<1>9. CASE \E n \in Nicks : line = <<"NICK", n>>
  BY <1>1, <1>2, <1>9
<1> QED BY <1>3, <1>4, <1>5, <1>6, <1>7, <1>8, <1>9

LEMMA ServeLinks == ASSUME LinkInv, NEW f \in Fds, Serve(f) PROVE LinkInv'
<1>0. /\ link \in [Fds -> LinkState] /\ link[f] \in LinkState /\ told \subseteq Msgs /\ tried \subseteq Nicks
      /\ left \in [events : Nat, drops : Nat]
  BY LinkTypes
<1> DEFINE l == link[f]
           line == Head(l.out)
           j == [l EXCEPT !.out = Tail(l.out)]
           k == Answer(j, line)
<1>1. /\ l.out # <<>> /\ link' = [link EXCEPT ![f] = k]
      /\ tried' = IF line[1] = "NICK" THEN tried \cup {line[2]} ELSE tried
      /\ UNCHANGED <<socket, outVars, nameVars, threadVars, login, taken, told, handled, left, fault>>
  BY DEF Serve
<1>2. l.inn \in Seq(InLines) /\ l.out \in Seq(OutLines) /\ l.pings \in Nat /\ PingOk(l) /\ NameOk(l)
  BY <1>0, LinkFields DEF LinkInv, PingInv, NameInv
<1>3. l.up
  BY <1>1, <1>2 DEF PingOk
<1>4. line \in OutLines /\ Tail(l.out) \in Seq(OutLines)
  BY <1>1, <1>2, EmptySeq, HeadTailProperties
<1>5. j \in LinkState /\ Alike(j, l) /\ j.pings = l.pings /\ j.inn = l.inn /\ j.out = Tail(l.out)
  BY <1>0, <1>4, OutSet
<1>6. /\ Count(l.out, PongLine) = Count(Tail(l.out), PongLine) + (IF line = PongLine THEN 1 ELSE 0)
      /\ Count(Tail(l.out), PongLine) \in Nat /\ Count(l.inn, PingLine) \in Nat
  BY <1>1, <1>2, <1>4, CountTail, CountType
<1>7. line = PongLine => j.pings > 0
  <2>1. Count(l.inn, PingLine) + Count(l.out, PongLine) + (IF msg[l.owner] = PongLine THEN 1 ELSE 0) <= l.pings
    BY <1>2, <1>3 DEF PingOk, Answering
  <2> HIDE DEF l, line, j
  <2> QED BY <1>2, <1>5, <1>6, <2>1
<1>8. k \in LinkState /\ Answered(j, k, line)
  <2> HIDE DEF l, line, j
  <2> QED BY <1>3, <1>4, <1>5, <1>7, AnswerIs DEF Alike
<1> HIDE DEF k
<1>9. link' \in [Fds -> LinkState] /\ link'[f] = k /\ \A g \in Fds : g # f => link'[g] = link[g]
  BY <1>0, <1>1, <1>8
<1> HIDE DEF l, line, j
<1>10. /\ k.owner = l.owner /\ k.up /\ k.out = Tail(l.out)
       /\ k.pings = l.pings - (IF line = PongLine THEN 1 ELSE 0)
       /\ k.nick = l.nick \/ \A g \in Fds : link[g].nick # k.nick
       /\ \/ k.inn = l.inn /\ (Registered(k) => Registered(l) /\ k.nick = l.nick)
          \/ \E a \in {<<"433">>, <<"900">>} :
               k.inn = Append(l.inn, a) /\ (Registered(k) => Registered(l) /\ k.nick = l.nick)
          \/ Registered(k) /\ k.inn = Append(Append(l.inn, <<"001">>), <<"042", k.nick>>)
  <2>1. Registered(j) => Registered(l)
    BY <1>5 DEF Alike, Registered
  <2>2. /\ k.owner = l.owner /\ k.up /\ k.out = Tail(l.out) /\ j.nick = l.nick
        /\ k.pings = l.pings - (IF line = PongLine THEN 1 ELSE 0)
        /\ k.nick = l.nick \/ \A g \in Fds : link[g].nick # k.nick
    BY <1>5, <1>8 DEF Alike, Answered, InUse
  <2>3. \/ k.inn = j.inn /\ (Registered(k) => Registered(j) /\ k.nick = j.nick)
        \/ \E a \in {<<"433">>, <<"900">>} :
             k.inn = Append(j.inn, a) /\ (Registered(k) => Registered(j) /\ k.nick = j.nick)
        \/ Registered(k) /\ k.inn = Append(Append(j.inn, <<"001">>), <<"042", k.nick>>)
    BY <1>8 DEF Answered
  <2> QED BY <1>5, <2>1, <2>2, <2>3
<1>11. \/ k.inn = l.inn
       \/ \E a \in InLines : k.inn = Append(l.inn, a) /\ a # PingLine /\ (\A b : After(b, a) = b)
                             /\ \A m \in Msgs : a # <<"PRIVMSG", m>>
       \/ Registered(k) /\ k.nick \in Nicks /\ k.inn = Append(Append(l.inn, <<"001">>), <<"042", k.nick>>)
  <2>1. \A a \in {<<"433">>, <<"900">>} : /\ a \in InLines /\ a # PingLine /\ \A b : After(b, a) = b
                                          /\ \A m \in Msgs : a # <<"PRIVMSG", m>>
    BY LinesAre DEF PingLine, After
  <2>2. Registered(k) => k.nick \in Nicks
    BY <1>8, LinkFields DEF Registered, MaybeNick
  <2> QED BY <1>10, <2>1, <2>2
<1>12. <<"001">> \in InLines /\ <<"001">> # PingLine /\ \A m \in Msgs : <<"001">> # <<"PRIVMSG", m>>
  BY LinesAre DEF PingLine
<1>13. \A n \in Nicks : <<"042", n>> \in InLines /\ <<"042", n>> # PingLine /\ \A m \in Msgs : <<"042", n>> # <<"PRIVMSG", m>>
  BY LinesAre DEF PingLine
<1>14. Append(l.inn, <<"001">>) \in Seq(InLines)
  BY <1>2, <1>12, AppendProperties
<1>15. PingOk(k)
  <2>1. Count(k.inn, PingLine) = Count(l.inn, PingLine)
    <3>1. CASE Registered(k) /\ k.nick \in Nicks /\ k.inn = Append(Append(l.inn, <<"001">>), <<"042", k.nick>>)
      <4>1. Count(k.inn, PingLine) = Count(Append(l.inn, <<"001">>), PingLine)
        <5>1. <<"042", k.nick>> \in InLines /\ <<"042", k.nick>> # PingLine
          BY <1>13, <3>1
        <5>2. Count(Append(Append(l.inn, <<"001">>), <<"042", k.nick>>), PingLine)
                = Count(Append(l.inn, <<"001">>), PingLine)
          BY <1>14, <5>1, CountsNot
        <5> QED BY <3>1, <5>2
      <4>2. Count(Append(l.inn, <<"001">>), PingLine) = Count(l.inn, PingLine)
        BY <1>2, <1>12, CountsNot
      <4> QED BY <4>1, <4>2
    <3>2. ASSUME NEW a \in InLines, k.inn = Append(l.inn, a), a # PingLine
          PROVE  Count(k.inn, PingLine) = Count(l.inn, PingLine)
      BY <1>2, <3>2, CountsNot
    <3> QED BY <1>11, <3>1, <3>2
  <2>2. PICK d \in {0, 1} : d = IF line = PongLine THEN 1 ELSE 0
    OBVIOUS
  <2>3. Count(l.out, PongLine) = Count(k.out, PongLine) + d /\ k.pings = l.pings - d
    BY <1>6, <1>10, <2>2
  <2>4. l \in LinkState
    BY <1>0 DEF l
  <2> QED BY <1>2, <1>3, <1>8, <1>10, <2>1, <2>3, <2>4, PingOkUp
<1>16. NameOk(k)
  <2> SUFFICES ASSUME Registered(k) PROVE Told(botname[l.owner], k.inn, k.nick)
    BY <1>10 DEF NameOk
  <2>1. CASE k.nick \in Nicks /\ k.inn = Append(Append(l.inn, <<"001">>), <<"042", k.nick>>)
    BY <1>14, <2>1, ToldAnew
  <2>2. CASE ~(k.nick \in Nicks /\ k.inn = Append(Append(l.inn, <<"001">>), <<"042", k.nick>>))
    <3>1. Registered(l) /\ k.nick = l.nick
      <4>1. k.nick \in Nicks
        BY <1>8, LinkFields DEF Registered, MaybeNick
      <4> QED BY <1>10, <2>2, <4>1
    <3>2. Told(botname[l.owner], l.inn, l.nick) /\ l.nick \in MaybeNick
      BY <1>0, <1>2, <3>1, LinkFields DEF NameOk, l
    <3>3. ASSUME NEW a \in InLines, \A b : After(b, a) = b PROVE Told(botname[l.owner], Append(l.inn, a), l.nick)
      <4>1. After(l.nick, a) = l.nick
        BY <3>3
      <4>2. Told(botname[l.owner], Append(l.inn, a), After(l.nick, a))
        BY <1>2, <3>2, <4>1, ToldMore
      <4> QED BY <4>1, <4>2
    <3> QED BY <1>11, <2>2, <3>1, <3>2, <3>3
  <2> QED BY <2>1, <2>2
<1>17. \A g \in Fds : link'[g].owner = link[g].owner /\ link'[g].up = link[g].up
                      /\ PingOk(link'[g]) /\ NameOk(link'[g])
  <2>1. \A g \in Fds : PingOk(link[g]) /\ NameOk(link[g])
    BY DEF LinkInv, PingInv, NameInv
  <2>2. l.up = TRUE /\ k.up = TRUE /\ k.owner = l.owner
    <3>1. l.up \in BOOLEAN /\ k.up \in BOOLEAN
      BY <1>0, <1>8, LinkFields, SMTT(60) DEF l
    <3> QED BY <1>3, <1>10, <3>1
  <2> QED BY <1>9, <1>15, <1>16, <2>1, <2>2 DEF l
<1>18. \A g, h \in Fds : g # h /\ link'[g].nick = link'[h].nick => link'[g].nick = -1
  <2>1. \A g, h \in Fds : g # h /\ link[g].nick = link[h].nick => link[g].nick = -1
    BY DEF LinkInv, NickInv
  <2> QED BY <1>9, <1>10, <2>1 DEF l
<1>19. ASSUME NEW m \in Msgs, NEW g \in Fds, link'[g].owner = 0
       PROVE  OnceIn(link'[g].inn, <<"PRIVMSG", m>>, m \in told /\ handled[m] = 0)
  <2> DEFINE e == <<"PRIVMSG", m>>
             free == m \in told /\ handled[m] = 0
  <2>1. OnceIn(link[g].inn, e, free) /\ (g # f => link'[g] = link[g])
    BY <1>9, <1>17, <1>19, OnceNow
  <2>2. (\A n \in Nicks : <<"042", n>> # e) /\ <<"001">> # e
    OBVIOUS
  <2>3. g = f => OnceIn(l.inn, e, free)
    BY <2>1 DEF l
  <2>4. CASE g = f
    <3>1. \A a \in InLines : a # e => OnceIn(Append(l.inn, a), e, free)
      <4> HIDE DEF e, free
      <4> QED BY <1>2, <2>3, <2>4, HearsNoMessage
    <3>2. OnceIn(Append(l.inn, <<"001">>), e, free)
      BY <1>12, <3>1
    <3>3. \A n \in Nicks : OnceIn(Append(Append(l.inn, <<"001">>), <<"042", n>>), e, free)
      <4>1. \A n \in Nicks : <<"042", n>> \in InLines /\ <<"042", n>> # e
        BY <1>13
      <4> HIDE DEF e, free
      <4> QED BY <1>14, <3>2, <4>1, HearsNoMessage
    <3>4. OnceIn(k.inn, e, free)
      BY <1>11, <2>3, <2>4, <3>1, <3>3
    <3> QED BY <1>9, <2>4, <3>4
  <2>5. CASE g # f
    BY <2>1, <2>5
  <2> QED BY <2>4, <2>5
<1>20. ASSUME NEW n \in List, Asked(n) PROVE Asked(n)'
  <2>1. tried \subseteq tried' /\ msg' = msg
    BY <1>1 DEF threadVars
  <2>2. CASE n \in tried \/ \E t \in Threads : msg[t] = <<"NICK", n>>
    BY <2>1, <2>2 DEF Asked
  <2>3. ASSUME NEW g \in Fds, NEW i \in 1 .. Len(link[g].out), link[g].out[i] = <<"NICK", n>> PROVE Asked(n)'
    <3>1. CASE g # f
      BY <1>9, <2>3, <3>1 DEF Asked
    <3>2. CASE g = f /\ i = 1
      <4>1. line = <<"NICK", n>>
        BY <1>1, <1>2, <2>3, <3>2, HeadTailProperties, EmptySeq DEF line, l
      <4>2. n \in tried'
        BY <1>1, <4>1
      <4> QED BY <4>2 DEF Asked
    <3>3. CASE g = f /\ i # 1
      <4>1. i - 1 \in 1 .. Len(Tail(l.out)) /\ Tail(l.out)[i - 1] = <<"NICK", n>>
        <5>1. Len(l.out) \in Nat /\ Len(Tail(l.out)) = Len(l.out) - 1 /\ i \in 1 .. Len(l.out)
              /\ \A z \in 1 .. Len(l.out) - 1 : Tail(l.out)[z] = l.out[z + 1]
          BY <1>1, <1>2, <2>3, <3>3, HeadTailProperties, EmptySeq, LenProperties DEF l
        <5>2. i - 1 \in 1 .. Len(l.out) - 1 /\ (i - 1) + 1 = i
          BY <3>3, <5>1
        <5>3. Tail(l.out)[i - 1] = l.out[i]
          BY <5>1, <5>2
        <5> QED BY <2>3, <3>3, <5>1, <5>2, <5>3 DEF l
      <4>2. link'[f].out = Tail(l.out)
        BY <1>9, <1>10
      <4> QED BY <4>1, <4>2 DEF Asked
    <3> QED BY <3>1, <3>2, <3>3
  <2> QED BY <1>20, <2>2, <2>3 DEF Asked
<1>21. \A m \in Msgs : /\ m \notin told' => handled[m] = 0
                       /\ \A g \in Fds : link'[g].owner = 0 =>
                            OnceIn(link'[g].inn, <<"PRIVMSG", m>>, m \in told' /\ handled[m] = 0)
  BY <1>1, <1>19, OnceNow
<1>22. tried' \subseteq Nicks
  <2>1. line[1] = "NICK" => line[2] \in Nicks
    BY <1>4 DEF OutLines
  <2> QED BY <1>0, <1>1, <2>1
<1>23. told' \subseteq Msgs /\ left' \in [events : Nat, drops : Nat] /\ left'.drops = left.drops
       /\ UNCHANGED <<socket, outVars, nameVars, threadVars, login, taken, handled, fault>>
  BY <1>0, <1>1
<1> QED BY <1>9, <1>17, <1>18, <1>20, <1>21, <1>22, <1>23, TalkStep

LEMMA InitLinkInv == Init => LinkInv
<1> SUFFICES ASSUME Init PROVE LinkInv
  OBVIOUS
<1>0. /\ NSocks \in Nat /\ NSocks > 0 /\ Suffixes \in Nat /\ NSocks <= Suffixes
      /\ MaxEvents \in Nat /\ MaxDrops \in Nat /\ Takens \subseteq SUBSET List
  BY ConnAssumption
<1>1. /\ \A f \in Fds : f - 1 \in Socks /\ f - 1 \in Nicks /\ (f - 1) + 1 = f
      /\ \A s \in Socks : s + 1 \in Fds /\ (s + 1) - 1 = s /\ s + 1 # -1
      /\ List \subseteq Nicks /\ 0 \in Socks /\ -1 \in MaybeNick /\ 0 \in 0 .. Suffixes
  BY <1>0 DEF Fds, Socks, Nicks, List, MaybeNick
<1>2. ASSUME NEW f \in Fds
      PROVE  /\ link[f] \in LinkState /\ link[f].owner = f - 1 /\ link[f].up /\ link[f].nick = -1
             /\ link[f].pings = 0 /\ link[f].inn = <<>> /\ link[f].out = <<<<"NICK", f - 1>>, <<"USER">>>>
             /\ Count(link[f].out, PongLine) = 0
  <2> DEFINE lines == <<<<"NICK", f - 1>>, <<"USER">>>>
             k == [Opened(f - 1) EXCEPT !.out = lines]
  <2>1. <<"NICK", f - 1>> \in OutLines /\ <<"USER">> \in OutLines /\ PongLine # <<"NICK", f - 1>> /\ PongLine # <<"USER">>
    BY <1>1 DEF OutLines, PongLine
  <2>2. lines \in Seq(OutLines) /\ Len(lines) = 2 /\ lines[1] # PongLine /\ lines[2] # PongLine
    BY <2>1
  <2>3. Count(lines, PongLine) = 0
    <3> HIDE DEF lines
    <3>1. \A i \in 1 .. Len(lines) : lines[i] # PongLine
      <4>1. \A i \in 1 .. Len(lines) : i = 1 \/ i = 2
        BY <2>2
      <4> QED BY <2>2, <4>1
    <3>2. {i \in 1 .. Len(lines) : lines[i] = PongLine} = {}
      BY <3>1
    <3> QED BY <3>2, FS_EmptySet DEF Count
  <2>4. link[f] = k
    BY DEF Init
  <2>5. /\ Opened(f - 1) \in LinkState /\ Opened(f - 1).owner = f - 1 /\ Opened(f - 1).up /\ Opened(f - 1).nick = -1
        /\ Opened(f - 1).pings = 0 /\ Opened(f - 1).inn = <<>>
    BY <1>1, FreshLinks
  <2>6. k \in LinkState /\ Alike(k, Opened(f - 1)) /\ k.pings = Opened(f - 1).pings /\ k.inn = Opened(f - 1).inn /\ k.out = lines
    <3> HIDE DEF lines
    <3> QED BY <2>2, <2>5, OutSet
  <2> HIDE DEF k
  <2> QED BY <2>3, <2>4, <2>5, <2>6 DEF Alike
<1>3. TypeInv
  <2>1. link = [f \in Fds |-> link[f]]
    BY DEF Init
  <2>2. link \in [Fds -> LinkState]
    BY <1>2, <2>1
  <2>3. socket \in [Socks -> Fds \cup {-1}] /\ botname \in [Socks -> MaybeNick] /\ sent \in [Socks -> Nat]
        /\ handled \in [Msgs -> Nat]
    BY <1>1 DEF Init
  <2>4. pc \in [Threads -> PC] /\ msg \in [Threads -> OutLines] /\ to \in [Threads -> Seq(Socks)]
    BY LinesAre, EmptySeq DEF Init, PC, TextLine
  <2>5. taken \subseteq Nicks /\ tried \subseteq Nicks /\ told \subseteq Msgs
    BY <1>0, <1>1 DEF Init
  <2>6. left \in [events : Nat, drops : Nat] /\ attempts \in 0 .. Suffixes /\ fault = "none" /\ login \in BOOLEAN
        /\ wsocket \in Socks /\ conmtx = None
    BY <1>0, <1>1 DEF Init
  <2> QED BY <2>2, <2>3, <2>4, <2>5, <2>6 DEF TypeInv
<1>4. SendInv
  BY ThreadsAre DEF Init, SendInv, TextLine, PongLine
<1>5. OwnerInv
  <2>1. /\ \A s \in Socks : socket[s] = s + 1 /\ pc[s] = "idle"
    BY ThreadsAre DEF Init
  <2>2. ASSUME NEW f \in Fds PROVE link[f].owner = f - 1 /\ link[f].owner \in Socks /\ socket[f - 1] = f
    BY <1>1, <1>2, <2>1
  <2>3. \A s \in Socks : link[socket[s]].owner = s
    BY <1>1, <1>2, <2>1
  <2> QED BY <2>1, <2>2, <2>3, ThreadsAre DEF OwnerInv
<1>6. PingInv
  <2>1. ASSUME NEW f \in Fds PROVE PingOk(link[f])
    <3>1. Answering(link[f]) = 0
      <4>1. msg[f - 1] = TextLine /\ TextLine # PongLine
        BY <1>1, ThreadsAre DEF Init, TextLine, PongLine
      <4> QED BY <1>2, <4>1 DEF Answering
    <3>2. Count(link[f].inn, PingLine) = 0
      BY <1>2, CountNone
    <3> QED BY <1>2, <3>1, <3>2 DEF PingOk
  <2> QED BY <2>1 DEF PingInv
<1>7. NickInv /\ NameInv
  BY <1>2 DEF NickInv, NameInv, NameOk, Registered
<1>8. OnceInv
  <2>1. \A m \in Msgs : handled[m] = 0
    BY DEF Init
  <2>2. \A f \in Fds, m \in Msgs : OnceIn(link[f].inn, <<"PRIVMSG", m>>, m \in told /\ handled[m] = 0)
    BY <1>2 DEF OnceIn
  <2>3. \A m \in Msgs : handled[m] <= 1
    BY <2>1
  <2> QED BY <2>1, <2>2, <2>3 DEF OnceInv
<1>9. AskedInv
  <2>1. \A s \in Socks : socket[s] \in Fds /\ pc[s] = "idle" /\ link[socket[s]].up
    BY <1>1, <1>2, ThreadsAre DEF Init
  <2>2. attempts = 0 /\ fault = "none" /\ left.drops = MaxDrops
    BY DEF Init
  <2> QED BY <1>0, <2>1, <2>2 DEF AskedInv, List
<1> QED BY <1>3, <1>4, <1>5, <1>6, <1>7, <1>8, <1>9 DEF LinkInv

LEMMA NextLinkInv == LinkInv /\ WindowInv /\ [Next]_vars => LinkInv'
<1> SUFFICES ASSUME LinkInv, WindowInv, [Next]_vars PROVE LinkInv'
  OBVIOUS
<1>1. ASSUME fault = "none", NEW t \in Threads, Sending(t) PROVE LinkInv'
  BY <1>1, LockLinks, WriteLinks DEF Sending
<1>2. ASSUME fault = "none", NEW s \in Socks,
             Handler(s) \/ Reconnect(s) \/ ConnectFails(s) \/ AddressesRunOut(s) \/ HandshakeFails(s)
      PROVE  LinkInv'
  BY <1>2, HandlerLinks, CloseLinks, ReconnectLinks, ConnectFailsLinks, SetupEndsLinks
<1>3. ASSUME NEW t \in Senders, Speak(t) PROVE LinkInv'
  BY <1>3, SpeakLinks
<1>4. ASSUME NEW f \in Fds, Serve(f) \/ Ping(f) \/ Drop(f) \/ \E n \in Nicks : Rename(f, n) PROVE LinkInv'
  BY <1>4, ServeLinks, PingStep, DropLinks, RenameLinks
<1>5. ASSUME NEW m \in Msgs, Say(m) PROVE LinkInv'
  BY <1>5, SayLinks
<1>6. CASE UNCHANGED vars
  <2>1. UNCHANGED <<socket, wsocket, conmtx, sent, botname, attempts, pc, msg, to, login, taken, told, tried,
                    link, handled, left, fault>>
    BY <1>6 DEF vars, outVars, nameVars, threadVars, worldVars
  <2>2. TypeInv' /\ SendInv'
    BY <2>1 DEF LinkInv, TypeInv, SendInv
  <2>3. OwnerInv' /\ PingInv' /\ NickInv' /\ NameInv' /\ OnceInv'
    BY <2>1, LinksKept
  <2>4. AskedInv'
    <3>1. \A n \in List : Asked(n) => Asked(n)'
      BY <2>1 DEF Asked
    <3> QED BY <2>1, <3>1, AskedKept DEF LinkInv, AskedInv
  <2> QED BY <2>2, <2>3, <2>4 DEF LinkInv
<1> QED BY <1>1, <1>2, <1>3, <1>4, <1>5, <1>6 DEF Next

LEMMA WindowKept ==
  ASSUME WindowInv, attempts' = attempts, fault' = "none" => fault = "none",
         \A s \in Socks : /\ InNickInUse(s)' => InNickInUse(s)
                          /\ pc'[s] = "counting" => pc[s] = "counting"
                          /\ msg'[s][1] = "NICK" => msg'[s] = msg[s]
  PROVE  WindowInv'
BY DEF WindowInv

\* Steps that move the thread of s out of the window, or leave it outside.
LEMMA WindowLeft ==
  ASSUME LinkInv, WindowInv, NEW s \in Socks, NEW p \in {"idle", "closed", "lock"}, NEW line, line[1] # "NICK",
         pc' = [pc EXCEPT ![s] = p], msg' = [msg EXCEPT ![s] = line], UNCHANGED <<attempts, fault>>
  PROVE  WindowInv'
<1>1. pc \in [Threads -> PC] /\ msg \in [Threads -> OutLines] /\ Socks \subseteq Threads
  BY LinkTypes, ThreadsAre
<1>2. \A z \in Socks : pc'[z] = (IF z = s THEN p ELSE pc[z]) /\ msg'[z] = IF z = s THEN line ELSE msg[z]
  BY <1>1
<1> QED BY <1>2, WindowKept DEF InNickInUse

LEMMA WriteWindow ==
  ASSUME LinkInv, WindowInv, fault = "none", NEW t \in Threads, Write(t)
  PROVE  WindowInv'
<1>1. /\ pc \in [Threads -> PC] /\ msg \in [Threads -> OutLines] /\ Socks \subseteq Threads
      /\ attempts' = attempts /\ (WriteGoesOn(t) \/ WriteEnds(t))
  BY LinkTypes, ThreadsAre, WriteIs, WriteThreads DEF nameVars
<1>2. CASE WriteGoesOn(t)
  BY <1>1, <1>2, WindowKept DEF WriteGoesOn, InNickInUse
<1>3. CASE WriteEnds(t)
  <2>1. \A z \in Socks : /\ z # t => pc'[z] = pc[z] /\ msg'[z] = msg[z]
                         /\ z = t => /\ pc'[z] = IF msg[z][1] = "NICK" THEN "counting" ELSE "idle"
                                     /\ msg'[z] = TextLine
    BY <1>1, <1>3 DEF WriteEnds
  <2>2. TextLine[1] # "NICK"
    BY DEF TextLine
  <2>3. \A z \in Socks : InNickInUse(z)' => InNickInUse(z)
    BY <2>1, <2>2 DEF InNickInUse
  <2> QED BY <1>1, <2>1, <2>2, <2>3 DEF WindowInv
<1> QED BY <1>1, <1>2, <1>3

LEMMA HandlerWindow ==
  ASSUME LinkInv, WindowInv, fault = "none", NEW s \in Socks, Handler(s)
  PROVE  WindowInv'
<1>0. /\ pc \in [Threads -> PC] /\ msg \in [Threads -> OutLines] /\ Socks \subseteq Threads
      /\ attempts \in 0 .. Suffixes
  BY LinkTypes, ThreadsAre
<1>a. ASSUME NEW line, line[1] # "NICK", NEW q, Send(s, line, q), UNCHANGED <<nameVars, fault>> PROVE WindowInv'
  BY <1>a, WindowLeft DEF Send, nameVars
<1>b. /\ <<"PONG">>[1] # "NICK" /\ <<"IDENTIFY">>[1] # "NICK" /\ <<"JOIN">>[1] # "NICK" /\ TextLine[1] # "NICK"
      /\ \A n : <<"NICK", n>>[1] = "NICK"
  BY DEF TextLine
<1>1. CASE OnPrivmsg(s) \/ OnUniqueId(s) \/ OnBotNickChange(s)
  BY <1>1, WindowKept DEF OnPrivmsg, OnUniqueId, OnBotNickChange, threadVars, nameVars, InNickInUse
<1>2. CASE OnPing(s)
  BY <1>2, <1>a, <1>b DEF OnPing
<1>3. CASE OnClientRegistered(s)
  BY <1>3, <1>a, <1>b DEF OnClientRegistered
<1>4. CASE OnLoggedIn(s)
  BY <1>4, <1>a, <1>b DEF OnLoggedIn
<1>5. CASE OnNickInUse(s)
  <2>1. /\ pc' = [pc EXCEPT ![s] = "naming"] /\ msg' = msg /\ attempts' = attempts
        /\ fault' = "none" => \A t \in Socks : ~InNickInUse(t)
    BY <1>5 DEF OnNickInUse, nameVars
  <2>2. \A z \in Socks : z # s => pc'[z] = pc[z]
    BY <1>0, <2>1
  <2>3. pc'[s] = "naming"
    BY <1>0, <2>1
  <2> QED BY <2>1, <2>2, <2>3 DEF WindowInv, InNickInUse
<1>6. CASE TryNick(s)
  <2>1. CASE attempts = Suffixes
    BY <1>6, <2>1 DEF TryNick, WindowInv
  <2>2. CASE attempts # Suffixes
    <3>1. /\ pc[s] = "naming" /\ pc' = [pc EXCEPT ![s] = "lock"] /\ msg' = [msg EXCEPT ![s] = <<"NICK", attempts>>]
          /\ attempts' = attempts
      BY <1>6, <2>2 DEF TryNick, Send, nameVars
    <3>2. InNickInUse(s)
      BY <3>1 DEF InNickInUse
    <3>3. \A z \in Socks : z # s => pc'[z] = pc[z] /\ msg'[z] = msg[z]
      BY <1>0, <3>1
    <3>4. pc'[s] = "lock" /\ msg'[s] = <<"NICK", attempts>>
      BY <1>0, <3>1
    <3> QED BY <2>2, <3>1, <3>2, <3>3, <3>4 DEF WindowInv, InNickInUse
  <2> QED BY <2>1, <2>2
<1>7. CASE CountAttempt(s)
  <2>1. pc[s] = "counting" /\ pc' = [pc EXCEPT ![s] = "idle"] /\ msg' = msg
    BY <1>7 DEF CountAttempt
  <2>2. InNickInUse(s) /\ msg[s] = TextLine
    BY <1>0, <2>1 DEF InNickInUse, LinkInv, SendInv
  <2>3. \A z \in Socks : z # s => pc'[z] = pc[z]
    BY <1>0, <2>1
  <2>4. pc'[s] = "idle"
    BY <1>0, <2>1
  <2>5. \A z \in Socks : z # s => ~InNickInUse(z)
    BY <2>2 DEF WindowInv
  <2>6. \A z \in Socks : pc'[z] \notin {"naming", "counting"} /\ msg'[z][1] # "NICK"
    BY <1>b, <2>1, <2>2, <2>3, <2>4, <2>5 DEF InNickInUse
  <2> QED BY <2>6 DEF WindowInv, InNickInUse
<1>8. CASE Close(s)
  <2>1. /\ pc[s] = "idle" /\ pc' = [pc EXCEPT ![s] = "closed"] /\ msg' = msg /\ UNCHANGED <<attempts, fault>>
    BY <1>8 DEF Close, nameVars
  <2>2. msg' = [msg EXCEPT ![s] = TextLine]
    BY <1>0, <2>1 DEF LinkInv, SendInv
  <2> QED BY <1>b, <2>1, <2>2, WindowLeft
<1> QED BY <1>1, <1>2, <1>3, <1>4, <1>5, <1>6, <1>7, <1>8 DEF Handler

LEMMA NextWindowInv == LinkInv /\ WindowInv /\ [Next]_vars => WindowInv'
<1> SUFFICES ASSUME LinkInv, WindowInv, [Next]_vars PROVE WindowInv'
  OBVIOUS
<1>0. /\ pc \in [Threads -> PC] /\ msg \in [Threads -> OutLines] /\ Socks \subseteq Threads
      /\ Senders \subseteq Threads /\ Senders \cap Socks = {} /\ TextLine[1] # "NICK"
  BY LinkTypes, ThreadsAre DEF TextLine
<1>a. ASSUME UNCHANGED <<pc, msg, attempts>>, fault' = "none" => fault = "none" PROVE WindowInv'
  BY <1>a, WindowKept DEF InNickInUse
<1>1. ASSUME NEW t \in Threads, Lock(t) PROVE WindowInv'
  <2>1. pc' = [pc EXCEPT ![t] = "write"] /\ UNCHANGED <<msg, attempts, fault>>
    BY <1>1 DEF Lock, Choose, nameVars
  <2>2. \A z \in Socks : pc'[z] = pc[z] \/ pc'[z] = "write"
    BY <1>0, <2>1
  <2> QED BY <2>1, <2>2, WindowKept DEF InNickInUse
<1>2. ASSUME NEW t \in Threads, Write(t), fault = "none" PROVE WindowInv'
  BY <1>2, WriteWindow
<1>3. ASSUME NEW s \in Socks, Handler(s), fault = "none" PROVE WindowInv'
  BY <1>3, HandlerWindow
<1>4. ASSUME NEW s \in Socks, Reconnect(s) \/ ConnectFails(s) PROVE WindowInv'
  <2>1. /\ pc[s] = "closed" /\ pc' = [pc EXCEPT ![s] = "idle"] /\ msg' = msg /\ UNCHANGED <<attempts, fault>>
    BY <1>4 DEF Reconnect, ConnectFails, nameVars
  <2>2. msg' = [msg EXCEPT ![s] = TextLine]
    BY <1>0, <2>1 DEF LinkInv, SendInv
  <2> QED BY <1>0, <2>1, <2>2, WindowLeft
<1>5. ASSUME NEW s \in Socks, AddressesRunOut(s) \/ HandshakeFails(s) PROVE WindowInv'
  BY <1>5 DEF AddressesRunOut, HandshakeFails, WindowInv
<1>6. ASSUME NEW t \in Senders, Speak(t) PROVE WindowInv'
  <2>1. /\ pc' = [pc EXCEPT ![t] = "lock"] /\ msg' = [msg EXCEPT ![t] = <<"TEXT">>] /\ UNCHANGED <<attempts, fault>>
    BY <1>6 DEF Speak, Send, nameVars
  <2>2. \A z \in Socks : pc'[z] = pc[z] /\ msg'[z] = msg[z]
    BY <1>0, <2>1
  <2> QED BY <2>1, <2>2, WindowKept DEF InNickInUse
<1>7. ASSUME NEW f \in Fds, Serve(f) \/ Ping(f) \/ Drop(f) \/ \E n \in Nicks : Rename(f, n) PROVE WindowInv'
  BY <1>7, <1>a DEF Serve, Ping, Drop, Rename, Event, threadVars, nameVars
<1>8. ASSUME NEW m \in Msgs, Say(m) PROVE WindowInv'
  BY <1>8, <1>a DEF Say, threadVars, nameVars
<1>9. CASE UNCHANGED vars
  BY <1>9, <1>a DEF vars, threadVars, nameVars
<1> QED BY <1>1, <1>2, <1>3, <1>4, <1>5, <1>6, <1>7, <1>8, <1>9 DEF Next, Sending

LEMMA LinkInvHolds == Spec => [](LinkInv /\ WindowInv)
<1>1. Init => WindowInv
  <2>1. Init => \A s \in Socks : pc[s] = "idle" /\ msg[s] = <<"TEXT">>
    BY ThreadsAre DEF Init
  <2> QED BY <2>1 DEF WindowInv, InNickInUse
<1> QED BY <1>1, InitLinkInv, NextLinkInv, NextWindowInv, PTL DEF Spec

(* Whatever the threads, the server and the network do, the state of the    *)
(* core stays of its type: no line, nick or descriptor but those there are. *)
(* The PINGs of a connection never fall below zero: who answers one was     *)
(* asked, on the same connection.                                           *)
THEOREM TypeCorrect == Spec => []TypeOK
<1>1. LinkInv => TypeOK
  <2> SUFFICES ASSUME LinkInv PROVE TypeOK
    OBVIOUS
  <2>1. OutLines \subseteq Lines /\ InLines \subseteq Lines
    BY DEF OutLines, InLines, Lines
  <2>2. Seq(OutLines) \subseteq Seq(Lines) /\ Seq(InLines) \subseteq Seq(Lines)
    BY <2>1
  <2>3. LinkState \subseteq [owner : Socks \cup {None}, up : BOOLEAN, nick : MaybeNick,
                             user : BOOLEAN, joined : BOOLEAN, pings : Nat,
                             inn : Seq(Lines), out : Seq(Lines)]
    BY <2>2 DEF LinkState
  <2>4. TypeInv
    BY DEF LinkInv
  <2>5. msg \in [Threads -> Lines]
    BY <2>1, <2>4 DEF TypeInv
  <2>6. link \in [Fds -> [owner : Socks \cup {None}, up : BOOLEAN, nick : MaybeNick,
                          user : BOOLEAN, joined : BOOLEAN, pings : Nat,
                          inn : Seq(Lines), out : Seq(Lines)]]
    <3>1. link \in [Fds -> LinkState]
      BY <2>4 DEF TypeInv
    <3> QED BY <2>3, <3>1
  <2> QED BY <2>4, <2>5, <2>6 DEF TypeInv, TypeOK
<1> QED BY <1>1, LinkInvHolds, PTL

(* irc.c:427: the bot hears a message of the channel once per socket that   *)
(* joined it, and loses and opens connections; its hooks of PRIVMSG see     *)
(* each message at most once.                                               *)
THEOREM MessagesHandledOnce == Spec => []HandledOnce
<1>1. LinkInv => HandledOnce
  BY DEF LinkInv, OnceInv, HandledOnce
<1> QED BY <1>1, LinkInvHolds, PTL

(***************************************************************************)
(* A socket that is closed still has the number of its descriptor, and     *)
(* another may get it.  KnowsItsName is true of such a socket too, since   *)
(* nothing registers a client again: what has a nick is the connection the *)
(* program started with, and no other socket has had its descriptor.       *)
(***************************************************************************)
UserLine == <<"USER">>

Registering(l) == l.user \/ \E i \in 1 .. Len(l.out) : l.out[i] = UserLine

UserInv ==
  /\ \A t \in Threads : msg[t] # UserLine
  /\ \A f \in Fds : Registering(link[f]) => \A s \in Socks : socket[s] = f => link[f].owner = s

\* A line that is not of registration, or none, is added to a connection.
KeepsUser(k, l) == k.owner = l.owner /\ (Registering(k) => Registering(l))

LEMMA UserKept ==
  ASSUME UserInv, \A t \in Threads : msg'[t] # UserLine,
         \A f \in Fds : KeepsUser(link'[f], link[f]) \/ ~Registering(link'[f]),
         \A s \in Socks : socket'[s] = socket[s] \/ \A f \in Fds : socket'[s] = f => ~Registering(link'[f])
  PROVE  UserInv'
<1>1. ASSUME NEW f \in Fds, Registering(link'[f]), NEW s \in Socks, socket'[s] = f PROVE link'[f].owner = s
  <2>1. KeepsUser(link'[f], link[f]) /\ socket[s] = f
    BY <1>1
  <2> QED BY <1>1, <2>1 DEF UserInv, KeepsUser
<1>2. \A f \in Fds : Registering(link[f])' => Registering(link'[f])
  BY DEF Registering, UserLine
<1> QED BY <1>1, <1>2 DEF UserInv, UserLine

LEMMA TellKeeps ==
  ASSUME NEW l \in LinkState, NEW lines
  PROVE  KeepsUser(Tell(l, lines), l)
BY DEF Tell, LinkState, KeepsUser, Registering

LEMMA UserSame ==
  ASSUME NEW k, NEW l, k.owner = l.owner, k.user = l.user, k.out = l.out
  PROVE  KeepsUser(k, l)
BY DEF KeepsUser, Registering

LEMMA NoneRegistering ==
  /\ ~Registering(Closed)
  /\ \A s : ~Registering(Opened(s))
  /\ \A o, i : ~Registering([Closed EXCEPT !.owner = o, !.inn = i])
<1>1. ASSUME NEW l, ~l.user, l.out = <<>> PROVE ~Registering(l)
  <2>1. Len(l.out) = 0 /\ 1 .. 0 = {}
    BY <1>1
  <2> QED BY <1>1, <2>1 DEF Registering
<1>2. ~Closed.user /\ Closed.out = <<>>
  BY DEF Closed
<1>3. \A s : ~Opened(s).user /\ Opened(s).out = <<>>
  BY DEF Closed, Opened
<1>4. ASSUME NEW o, NEW i
      PROVE  LET k == [Closed EXCEPT !.owner = o, !.inn = i] IN ~k.user /\ k.out = <<>>
  BY DEF Closed
<1> QED BY <1>1, <1>2, <1>3, <1>4

LEMMA AnswerUser ==
  ASSUME NEW l \in LinkState, NEW line \in OutLines, line # UserLine
  PROVE  Answer(l, line).user = l.user
<1> DEFINE k == Answer(l, line)
<1> SUFFICES k.user = l.user
  OBVIOUS
<1>1. \A j \in LinkState : \A lines : Tell(j, lines).user = j.user
  BY DEF Tell, LinkState
<1>2. \A j \in LinkState : Welcome(j).user = j.user
  BY <1>1 DEF Welcome
<1>3. ASSUME NEW n \in Nicks, line = <<"NICK", n>> PROVE k.user = l.user
  <2>1. n \in MaybeNick
    BY DEF MaybeNick
  <2>2. LET j == [l EXCEPT !.nick = n] IN j \in LinkState /\ j.user = l.user
    BY <2>1, NickSet
  <2>3. k = Tell(l, <<<<"433">>>>) \/ k = Welcome([l EXCEPT !.nick = n])
    BY <1>3 DEF Answer
  <2> HIDE DEF k
  <2>4. CASE k = Tell(l, <<<<"433">>>>)
    BY <1>1, <2>4
  <2>5. CASE k = Welcome([l EXCEPT !.nick = n])
    <3> DEFINE j == [l EXCEPT !.nick = n]
    <3>1. j \in LinkState /\ j.user = l.user
      BY <2>2
    <3> HIDE DEF j
    <3>2. Welcome(j).user = l.user
      BY <1>2, <3>1
    <3> QED BY <2>5, <3>2 DEF j
  <2> QED BY <2>3, <2>4, <2>5
<1>4. CASE line = <<"IDENTIFY">>
  <2>1. k = Tell(l, <<<<"900">>>>) \/ k = l
    BY <1>4 DEF Answer
  <2> HIDE DEF k
  <2> QED BY <1>1, <2>1
<1>5. CASE line = <<"JOIN">>
  <2>1. k = [l EXCEPT !.joined = Registered(l)]
    BY <1>5 DEF Answer
  <2> HIDE DEF k
  <2> QED BY <2>1 DEF LinkState
<1>6. CASE line = PongLine
  <2>1. k = [l EXCEPT !.pings = l.pings - 1]
    BY <1>6 DEF Answer, PongLine
  <2> HIDE DEF k
  <2> QED BY <2>1 DEF LinkState
<1>7. CASE line = TextLine
  <2>1. k = l
    BY <1>7 DEF Answer, TextLine
  <2> QED BY <2>1
<1>8. (\E n \in Nicks : line = <<"NICK", n>>) \/ line \in {<<"IDENTIFY">>, <<"JOIN">>, PongLine, TextLine}
  BY DEF OutLines, PongLine, TextLine, UserLine
<1> HIDE DEF k
<1> QED BY <1>3, <1>4, <1>5, <1>6, <1>7, <1>8

LEMMA ServeUser == ASSUME LinkInv, UserInv, NEW f \in Fds, Serve(f) PROVE UserInv'
<1> DEFINE l == link[f]
           line == Head(l.out)
           j == [l EXCEPT !.out = Tail(l.out)]
           k == Answer(j, line)
<1>1. l.out # <<>> /\ link' = [link EXCEPT ![f] = k] /\ UNCHANGED <<socket, msg>>
  BY DEF Serve, threadVars
<1>2. /\ link \in [Fds -> LinkState] /\ l \in LinkState /\ l.out \in Seq(OutLines) /\ PingOk(l)
      /\ line \in OutLines /\ Tail(l.out) \in Seq(OutLines)
  <2>1. link \in [Fds -> LinkState] /\ l \in LinkState /\ l.out \in Seq(OutLines) /\ PingOk(l)
    BY LinkTypes, LinkFields DEF LinkInv, PingInv
  <2> QED BY <1>1, <2>1, EmptySeq, HeadTailProperties
<1>3. j \in LinkState /\ Alike(j, l) /\ j.pings = l.pings /\ j.out = Tail(l.out)
  BY <1>2, OutSet
<1>4. l.up /\ (line = PongLine => j.pings > 0)
  <2>1. l.up
    BY <1>1, <1>2 DEF PingOk
  <2>2. line = PongLine => Count(l.out, PongLine) = Count(Tail(l.out), PongLine) + 1
    BY <1>1, <1>2, CountTail
  <2>3. Count(l.inn, PingLine) \in Nat /\ Count(Tail(l.out), PongLine) \in Nat /\ l.pings \in Nat
    BY <1>2, LinkFields, CountType
  <2>4. Count(l.inn, PingLine) + Count(l.out, PongLine) + (IF msg[l.owner] = PongLine THEN 1 ELSE 0) <= l.pings
    BY <1>2, <2>1 DEF PingOk, Answering
  <2> HIDE DEF l, line, j
  <2> QED BY <1>3, <2>1, <2>2, <2>3, <2>4
<1>5. k.owner = l.owner /\ k.out = Tail(l.out) /\ (line # UserLine => k.user = l.user)
  <2> HIDE DEF l, line, j
  <2>1. Answered(j, k, line)
    BY <1>2, <1>3, <1>4, AnswerIs DEF Alike
  <2>2. line # UserLine => k.user = j.user
    BY <1>2, <1>3, AnswerUser
  <2> HIDE DEF k
  <2> QED BY <1>3, <2>1, <2>2 DEF Alike, Answered
<1> HIDE DEF k
<1>6. link'[f] = k /\ \A g \in Fds : g # f => link'[g] = link[g]
  BY <1>1, <1>2
<1>7. KeepsUser(k, l)
  <2>1. Len(l.out) \in Nat /\ Len(l.out) > 0 /\ Len(Tail(l.out)) = Len(l.out) - 1 /\ line = l.out[1]
        /\ \A i \in 1 .. Len(Tail(l.out)) : Tail(l.out)[i] = l.out[i + 1]
    BY <1>1, <1>2, LenProperties, EmptySeq, HeadTailProperties
  <2> HIDE DEF l, line, j
  <2>2. line = UserLine => Registering(l)
    <3>1. 1 \in 1 .. Len(l.out)
      BY <2>1
    <3> QED BY <2>1, <3>1 DEF Registering
  <2>3. ASSUME NEW i \in 1 .. Len(k.out), k.out[i] = UserLine PROVE Registering(l)
    <3>1. i + 1 \in 1 .. Len(l.out) /\ l.out[i + 1] = UserLine
      BY <1>5, <2>1, <2>3
    <3> QED BY <3>1 DEF Registering
  <2>4. Registering(k) => Registering(l)
    BY <1>5, <2>2, <2>3 DEF Registering
  <2> QED BY <1>5, <2>4 DEF KeepsUser
<1>8. \A g \in Fds : KeepsUser(link'[g], link[g])
  BY <1>6, <1>7, UserSame DEF l
<1>9. \A t \in Threads : msg'[t] # UserLine
  BY <1>1 DEF UserInv
<1> QED BY <1>1, <1>8, <1>9, UserKept

LEMMA WriteUser == ASSUME LinkInv, UserInv, NEW t \in Threads, Write(t) PROVE UserInv'
<1>1. socket' = socket /\ (link' = link \/ \E f \in Fds : Delivers(t, f))
  BY WriteIs
<1>2. \A u \in Threads : msg'[u] # UserLine
  <2>1. \A u \in Threads : msg'[u] = msg[u] \/ msg'[u] = TextLine
    BY WriteThreads, LinkTypes DEF WriteGoesOn, WriteEnds
  <2> QED BY <2>1 DEF UserInv, UserLine, TextLine
<1>3. \A g \in Fds : KeepsUser(link'[g], link[g])
  <2>1. CASE link' = link
    BY <2>1, UserSame
  <2>2. ASSUME NEW f \in Fds, Delivers(t, f) PROVE \A g \in Fds : KeepsUser(link'[g], link[g])
    <3>1. /\ \A g \in Fds : g # f => link'[g] = link[g]
          /\ link'[f].owner = link[f].owner /\ link'[f].user = link[f].user
          /\ link'[f].out = Append(link[f].out, msg[t])
      BY <2>2, DeliveredLinks DEF Alike
    <3>2. link[f].out \in Seq(OutLines) /\ msg[t] \in OutLines /\ msg[t] # UserLine
      BY LinkTypes, LinkFields DEF UserInv
    <3>3. Registering(link'[f]) => Registering(link[f])
      <4>1. /\ Len(link[f].out) \in Nat /\ Len(link'[f].out) = Len(link[f].out) + 1
            /\ link'[f].out[Len(link[f].out) + 1] = msg[t]
            /\ \A i \in 1 .. Len(link[f].out) : link'[f].out[i] = link[f].out[i]
        BY <3>1, <3>2, LenProperties, AppendProperties
      <4>2. ASSUME NEW i \in 1 .. Len(link'[f].out), link'[f].out[i] = UserLine PROVE Registering(link[f])
        <5>1. i \in 1 .. Len(link[f].out)
          BY <3>2, <4>1, <4>2
        <5> QED BY <4>1, <4>2, <5>1 DEF Registering
      <4> QED BY <3>1, <4>2 DEF Registering
    <3> QED BY <3>1, <3>3, UserSame DEF KeepsUser
  <2> QED BY <1>1, <2>1, <2>2
<1> QED BY <1>1, <1>2, <1>3, UserKept

LEMMA ReadUser ==
  ASSUME LinkInv, NEW s \in Socks, NEW cmd, Read(s, cmd)
  PROVE  socket' = socket /\ \A g \in Fds : KeepsUser(link'[g], link[g])
<1>1. socket[s] \in Fds /\ Reads(s, socket[s]) /\ socket' = socket
  BY ReadIs
<1>2. \A g \in Fds : link'[g].owner = link[g].owner /\ link'[g].user = link[g].user /\ link'[g].out = link[g].out
  BY <1>1, ReadLinks DEF Alike
<1> QED BY <1>1, <1>2, UserSame

LEMMA HandlerUser == ASSUME LinkInv, UserInv, NEW s \in Socks, Handler(s) PROVE UserInv'
<1>0. /\ \A g \in Fds : KeepsUser(link[g], link[g])
      /\ \A t \in Threads : msg[t] # UserLine
      /\ msg \in [Threads -> OutLines] /\ <<"PONG">> # UserLine /\ <<"IDENTIFY">> # UserLine /\ <<"JOIN">> # UserLine
      /\ \A n : <<"NICK", n>> # UserLine
  BY UserSame, LinkTypes DEF UserInv, UserLine
<1>1. ASSUME NEW cmd, Read(s, cmd), msg' = msg PROVE UserInv'
  BY <1>0, <1>1, ReadUser, UserKept
<1>2. ASSUME NEW line, line # UserLine, NEW q, Send(s, line, q) PROVE \A t \in Threads : msg'[t] # UserLine
  BY <1>0, <1>2 DEF Send
<1>3. ASSUME NEW cmd, Read(s, cmd), \A t \in Threads : msg'[t] # UserLine PROVE UserInv'
  BY <1>3, ReadUser, UserKept
<1>4. CASE OnPrivmsg(s) \/ OnUniqueId(s) \/ OnBotNickChange(s) \/ OnNickInUse(s)
  BY <1>1, <1>4 DEF OnPrivmsg, OnUniqueId, OnBotNickChange, OnNickInUse, threadVars
<1>5. CASE OnPing(s)
  BY <1>0, <1>2, <1>3, <1>5 DEF OnPing
<1>6. CASE OnClientRegistered(s)
  BY <1>0, <1>2, <1>3, <1>6 DEF OnClientRegistered
<1>7. CASE OnLoggedIn(s)
  BY <1>0, <1>2, <1>3, <1>7 DEF OnLoggedIn
<1>8. CASE TryNick(s)
  <2>1. link' = link /\ socket' = socket
    BY <1>8 DEF TryNick
  <2>2. \A t \in Threads : msg'[t] # UserLine
    <3>1. CASE attempts = Suffixes
      BY <1>0, <1>8, <3>1 DEF TryNick
    <3>2. CASE attempts # Suffixes
      BY <1>0, <1>2, <1>8, <3>2 DEF TryNick
    <3> QED BY <3>1, <3>2
  <2> QED BY <1>0, <2>1, <2>2, UserKept
<1>10. CASE CountAttempt(s)
  BY <1>0, <1>10, UserKept DEF CountAttempt
<1>9. CASE Close(s)
  <2>1. socket' = socket /\ msg' = msg
    BY <1>9 DEF Close
  <2>2. \A g \in Fds : link'[g] = link[g] \/ link'[g] = Closed
    BY <1>9, LinkTypes DEF Close
  <2> QED BY <1>0, <2>1, <2>2, NoneRegistering, UserKept
<1> QED BY <1>4, <1>5, <1>6, <1>7, <1>8, <1>9, <1>10 DEF Handler

LEMMA ConnectUser ==
  ASSUME LinkInv, UserInv, NEW s \in Socks,
         Reconnect(s) \/ ConnectFails(s) \/ AddressesRunOut(s) \/ HandshakeFails(s)
  PROVE  UserInv'
<1>0. /\ \A g \in Fds : KeepsUser(link[g], link[g])
      /\ \A t \in Threads : msg[t] # UserLine
      /\ socket \in [Socks -> Fds \cup {-1}] /\ link \in [Fds -> LinkState] /\ -1 \notin Fds
  BY UserSame, LinkTypes DEF UserInv, Fds
<1>1. msg' = msg
  BY DEF Reconnect, ConnectFails, AddressesRunOut, HandshakeFails, threadVars
<1>2. CASE Reconnect(s)
  <2>1. PICK f \in Fds : socket' = [socket EXCEPT ![s] = f] /\ link' = [link EXCEPT ![f] = Opened(s)]
    BY <1>2 DEF Reconnect
  <2>2. link'[f] = Opened(s) /\ \A g \in Fds : g # f => link'[g] = link[g]
    BY <1>0, <2>1
  <2>3. \A g \in Fds : KeepsUser(link'[g], link[g]) \/ ~Registering(link'[g])
    BY <1>0, <2>2, NoneRegistering, ZenonT(60)
  <2>4. \A z \in Socks : socket'[z] = socket[z] \/ \A g \in Fds : socket'[z] = g => ~Registering(link'[g])
    BY <1>0, <2>1, <2>2, NoneRegistering
  <2> QED BY <1>0, <1>1, <2>3, <2>4, UserKept
<1>3. CASE ConnectFails(s)
  <2>1. socket' = [socket EXCEPT ![s] = -1] /\ link' = link
    BY <1>3 DEF ConnectFails
  <2>2. \A z \in Socks : socket'[z] = socket[z] \/ socket'[z] \notin Fds
    BY <1>0, <2>1
  <2> QED BY <1>0, <1>1, <2>1, <2>2, UserKept
<1>4. CASE AddressesRunOut(s) \/ HandshakeFails(s)
  <2>1. socket' = socket /\ link' = link
    BY <1>4 DEF AddressesRunOut, HandshakeFails
  <2> QED BY <1>0, <1>1, <2>1, UserKept
<1> QED BY <1>2, <1>3, <1>4

LEMMA ServerUser ==
  ASSUME LinkInv, UserInv, NEW f \in Fds, Ping(f) \/ Drop(f) \/ (\E n \in Nicks : Rename(f, n)) \/ \E m \in Msgs : Say(m)
  PROVE  UserInv'
<1>0. link \in [Fds -> LinkState] /\ \A g \in Fds : KeepsUser(link[g], link[g])
  BY UserSame, LinkTypes
<1>1. socket' = socket /\ msg' = msg
  BY DEF Ping, Drop, Rename, Say, Event, threadVars
<1>2. \A g \in Fds : \A lines : KeepsUser(Tell(link[g], lines), link[g])
  BY <1>0, TellKeeps
<1>3. ASSUME NEW g \in Fds PROVE KeepsUser(link'[g], link[g]) \/ ~Registering(link'[g])
  <2>1. CASE Ping(f)
    <3> DEFINE j == [link[f] EXCEPT !.pings = link[f].pings + 1]
    <3>1. link' = [link EXCEPT ![f] = Tell(j, <<<<"PING">>>>)]
      BY <2>1 DEF Ping
    <3>2. j \in LinkState /\ Alike(j, link[f]) /\ j.out = link[f].out
      <4>1. link[f].pings + 1 \in Nat
        BY <1>0, LinkFields
      <4> QED BY <1>0, <4>1, PingsSet
    <3> HIDE DEF j
    <3>3. KeepsUser(Tell(j, <<<<"PING">>>>), j) /\ KeepsUser(j, link[f])
      BY <3>2, TellKeeps, UserSame DEF Alike
    <3>4. KeepsUser(Tell(j, <<<<"PING">>>>), link[f])
      BY <3>3 DEF KeepsUser
    <3>5. link'[g] = IF g = f THEN Tell(j, <<<<"PING">>>>) ELSE link[g]
      BY <1>0, <3>1
    <3> QED BY <1>0, <3>4, <3>5
  <2>2. CASE Drop(f)
    <3>1. link'[g] = link[g] \/ link'[g] = [Closed EXCEPT !.owner = link[f].owner, !.inn = link[f].inn]
      BY <1>0, <2>2 DEF Drop
    <3>2. ~Registering([Closed EXCEPT !.owner = link[f].owner, !.inn = link[f].inn])
      BY NoneRegistering, ZenonT(30)
    <3>3. CASE link'[g] = link[g]
      BY <1>0, <3>3
    <3>4. CASE link'[g] = [Closed EXCEPT !.owner = link[f].owner, !.inn = link[f].inn]
      BY <3>2, <3>4, Zenon
    <3> QED BY <3>1, <3>3, <3>4
  <2>3. ASSUME NEW n \in Nicks, Rename(f, n) PROVE KeepsUser(link'[g], link[g])
    <3> DEFINE j == [link[f] EXCEPT !.nick = n]
               lines == <<<<"NICK", link[f].nick, n>>>>
    <3>1. link'[g] = IF g = f THEN Tell(j, lines)
                     ELSE IF link[f].joined /\ link[g].joined THEN Tell(link[g], lines) ELSE link[g]
      BY <2>3 DEF Rename
    <3>2. j \in LinkState /\ j.owner = link[f].owner /\ j.user = link[f].user /\ j.out = link[f].out
      <4>1. n \in MaybeNick
        BY DEF MaybeNick
      <4> QED BY <1>0, <4>1, NickSet
    <3> HIDE DEF j, lines
    <3>3. KeepsUser(Tell(j, lines), j) /\ KeepsUser(j, link[f])
      BY <3>2, TellKeeps, UserSame
    <3>4. KeepsUser(Tell(j, lines), link[f])
      BY <3>3 DEF KeepsUser
    <3> QED BY <1>0, <1>2, <3>1, <3>4
  <2>4. ASSUME NEW m \in Msgs, Say(m) PROVE KeepsUser(link'[g], link[g])
    <3>1. link'[g] = IF link[g].joined THEN Tell(link[g], <<<<"PRIVMSG", m>>>>) ELSE link[g]
      BY <2>4 DEF Say
    <3> QED BY <1>0, <1>2, <3>1
  <2> QED BY <2>1, <2>2, <2>3, <2>4
<1> QED BY <1>1, <1>3, UserKept DEF UserInv

LEMMA InitUserInv == Init => UserInv
<1> SUFFICES ASSUME Init PROVE UserInv
  OBVIOUS
<1>1. \A t \in Threads : msg[t] # UserLine
  BY DEF Init, UserLine
<1>2. OwnerInv /\ \A s \in Socks : pc[s] = "idle"
  BY InitLinkInv, ThreadsAre DEF Init, LinkInv
<1> QED BY <1>1, <1>2 DEF UserInv, OwnerInv

LEMMA NextUserInv == LinkInv /\ UserInv /\ [Next]_vars => UserInv'
<1> SUFFICES ASSUME LinkInv, UserInv, [Next]_vars PROVE UserInv'
  OBVIOUS
<1>0. /\ \A g \in Fds : KeepsUser(link[g], link[g])
      /\ \A t \in Threads : msg[t] # UserLine
  BY UserSame DEF UserInv
<1>1. ASSUME NEW t \in Threads, Lock(t) PROVE UserInv'
  BY <1>0, <1>1, UserKept DEF Lock
<1>2. ASSUME NEW t \in Threads, Write(t) PROVE UserInv'
  BY <1>2, WriteUser
<1>3. ASSUME NEW s \in Socks, Handler(s) \/ Reconnect(s) \/ ConnectFails(s) \/ AddressesRunOut(s) \/ HandshakeFails(s)
      PROVE  UserInv'
  BY <1>3, HandlerUser, ConnectUser
<1>4. ASSUME NEW t \in Senders, Speak(t) PROVE UserInv'
  <2>1. link' = link /\ socket' = socket /\ msg' = [msg EXCEPT ![t] = TextLine]
    BY <1>4 DEF Speak, Send, TextLine
  <2>2. \A u \in Threads : msg'[u] # UserLine
    BY <1>0, <2>1, LinkTypes DEF TextLine, UserLine
  <2> QED BY <1>0, <2>1, <2>2, UserKept
<1>5. ASSUME NEW f \in Fds, Serve(f) PROVE UserInv'
  BY <1>5, ServeUser
<1>6. ASSUME NEW f \in Fds, Ping(f) \/ Drop(f) \/ \E n \in Nicks : Rename(f, n) PROVE UserInv'
  BY <1>6, ServerUser
<1>7. ASSUME NEW m \in Msgs, Say(m) PROVE UserInv'
  BY <1>7, ServerUser DEF Say
<1>8. CASE UNCHANGED vars
  <2>1. UNCHANGED <<link, socket, msg>>
    BY <1>8 DEF vars, threadVars
  <2> QED BY <1>0, <2>1, UserKept
<1> QED BY <1>1, <1>2, <1>3, <1>4, <1>5, <1>6, <1>7, <1>8 DEF Next, Sending

(* core.c:141-175: a socket of a registered connection that has read all    *)
(* there is to read goes by the nick it has on the server, through          *)
(* collisions, renames by services and reconnects of any socket.            *)
THEOREM NameIsTheNick == Spec => []KnowsItsName
<1>1. LinkInv /\ UserInv => KnowsItsName
  <2> SUFFICES ASSUME LinkInv, UserInv, NEW s \in Socks, socket[s] \in Fds, botname[s] # -1,
                      Registered(link[socket[s]]), link[socket[s]].inn = <<>>
               PROVE  botname[s] = link[socket[s]].nick
    BY DEF KnowsItsName
  <2> DEFINE l == link[socket[s]]
  <2>1. l.owner = s
    BY DEF UserInv, Registered, Registering
  <2>2. Told(botname[s], <<>>, l.nick)
    BY <2>1 DEF LinkInv, NameInv, NameOk
  <2> QED BY <2>2, ToldNothing
<1>2. Spec => []UserInv
  BY InitUserInv, NextUserInv, LinkInvHolds, PTL DEF Spec
<1> QED BY <1>1, <1>2, LinkInvHolds, PTL

(* core.c:112-139, nick_attempts is shared by the sockets and counted only  *)
(* behind the call that sends: while no connection was lost, a bot that     *)
(* gives up asked for all of its nicks, or the line that asks is on its     *)
(* way, unless two threads were in the handler at once ("raced").           *)
THEOREM AllNicksAsked == Spec => []GivesUpLast
<1>1. LinkInv => GivesUpLast
  <2> SUFFICES ASSUME LinkInv, fault = "exit", NoDrop, NEW n \in List PROVE Asked(n)
    BY DEF GivesUpLast, NoDrop, Asked
  <2>1. n < Suffixes
    BY ConnAssumption DEF List
  <2> QED BY <2>1 DEF LinkInv, AskedInv
<1> QED BY <1>1, LinkInvHolds, PTL
=============================================================================
