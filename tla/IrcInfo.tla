------------------------------ MODULE IrcInfo ------------------------------
(* The tables of the info module: users found by "network.channel.nick" in  *)
(* the program's hash table, and the list of channels with their users.     *)
(* They are compared with what they are a picture of, the channels of the   *)
(* server.  The bot reads one connection: an event of the server and the    *)
(* handler it is hooked to are one step, in the order of the connection.    *)
(*                                                                          *)
(* struct user_info is a block of a small heap, which the next malloc takes *)
(* again once it is freed.  Reading a freed block is undefined, and so is   *)
(* writing past one: "fault" says that it happened, and the behaviour ends. *)
(* Left out: user, host, away and topic, which no decision of the code      *)
(* depends on; a second network.                                            *)
EXTENDS Naturals, FiniteSets, Sequences, SequencesExt

CONSTANTS Chans,
          Users,    \* nicks of the server's users, the bot's among them
          Bot,
          Junk,     \* a remainder of a nick that is the nick of nobody
          Blocks,   \* the heap for struct user_info: bounds the lists
          Entries,  \* bounds the entries of the list of channels
          Modes,    \* of CHAN_OP, "op", and CHAN_VOP, "voice"
          Settings  \* the channels, users, heap and kinds of event of a behaviour

Kinds == {"other", "part", "quit", "nick", "mode", "multi", "kick",
          "botkick", "botpart"}

ASSUME InfoAssumption ==
         /\ Bot \in Users /\ Junk \notin Users
         /\ Settings \subseteq [chans : SUBSET Chans, users : SUBSET Users,
                             events : SUBSET Kinds, blocks : SUBSET Blocks]
         /\ Modes \subseteq {"op", "voice"}
         /\ Blocks \cap {"absent", "null"} = {} /\ Entries \in Nat
         /\ IsFiniteSet(Blocks) /\ IsFiniteSet(Users)

Nicks == Users \cup {Junk}
Blank == [live |-> FALSE, nick |-> Junk, modes |-> {}]

VARIABLES
  setting,  \* what there is and what happens in this behaviour
  members,  \* members[c]: the users in channel c, on the server
  modes,    \* modes[c][n]: the modes n has in c, on the server
  who,      \* the channels whose WHO the server has not answered yet
  clist,    \* the channel entries of the bot, the newest first
  tab,      \* tab[c][n]: the data of the key of n in c, "absent" if no key
  heap,     \* heap[b]: the user_info in block b
  err,      \* errno of the IRC thread is not zero
  fault,    \* "undefined" after freed memory is used or a block overflows,
            \* "crash" after a fault
  strays    \* history: strays[c] are no members of c, and the module was
            \* not told that they left, or read their nick in another one

vars == <<setting, members, modes, who, clist, tab, heap, err, fault, strays>>
info == [clist |-> clist, tab |-> tab, heap |-> heap, err |-> err, fault |-> fault]

Events == setting.events

TypeOK ==
  /\ setting \in Settings
  /\ members \in [Chans -> SUBSET Users]
  /\ modes \in [Chans -> [Users -> SUBSET Modes]]
  /\ who \subseteq Chans
  /\ clist \in Seq([chan : Chans, users : Seq(Blocks)])
  /\ tab \in [Chans -> [Nicks -> Blocks \cup {"absent", "null"}]]
  /\ heap \in [Blocks -> [live : BOOLEAN, nick : Nicks, modes : SUBSET Modes]]
  /\ err \in BOOLEAN
  /\ fault \in {"none", "undefined", "crash"}
  /\ strays \in [Chans -> SUBSET Nicks]

Init ==
  /\ setting \in Settings
  /\ members = [c \in Chans |-> {}]
  /\ modes = [c \in Chans |-> [n \in Users |-> {}]]
  /\ who = {}
  /\ clist = <<>>
  /\ tab = [c \in Chans |-> [n \in Nicks |-> "absent"]]
  /\ heap = [b \in Blocks |-> Blank]
  /\ err = FALSE
  /\ fault = "none"
  /\ strays = [c \in Chans |-> {}]
-----------------------------------------------------------------------------
(* structs.c.  The calls of one handler follow one another, so each takes   *)
(* the state s of the tables (see info) and gives the one it leaves.        *)

FreeBlocks(s) == {b \in setting.blocks : ~s.heap[b].live}

Reading(s, bs) ==
  IF s.fault = "none" /\ \E b \in bs : ~s.heap[b].live
    THEN [s EXCEPT !.fault = "undefined"] ELSE s

(* get_user_list: the first entry of the channel, 0 for a NULL list.        *)
ListOf(s, c) == IF \E i \in 1 .. Len(s.clist) : s.clist[i].chan = c
                  THEN SelectInSeq(s.clist, LAMBDA e : e.chan = c) ELSE 0

(* The users in that list, and the list replaced.                           *)
UserList(s, c) == s.clist[ListOf(s, c)].users
WithList(s, c, list) ==
  IF ListOf(s, c) = 0 THEN s ELSE [s EXCEPT !.clist[ListOf(s, c)].users = list]

FreeUser(s, b) == [Reading(s, {b}) EXCEPT !.heap[b] = Blank]

(* make_user_info, with the block that malloc gives.                        *)
NewBlock(s) == CHOOSE b \in FreeBlocks(s) : TRUE
MakeUser(s, n) ==
  [s EXCEPT !.heap[NewBlock(s)] = [live |-> TRUE, nick |-> n, modes |-> {}]]

(* Mutation: add_user_info replaces the data of the key, not the entry of   *)
(* the list.                                                                *)
AddUserKeepsEntry(s, c, b, append) ==
  LET n == s.heap[b].nick
      old == s.tab[c][n]
  IN IF old \in Blocks
       THEN IF old = b THEN s ELSE FreeUser([s EXCEPT !.tab[c][n] = b], old)
       ELSE [(IF append THEN WithList(s, c, <<b>> \o UserList(s, c)) ELSE s)
               EXCEPT !.tab[c][n] = IF old = "absent" THEN b ELSE old, !.err = FALSE]

(* The first entry of a list that leads to a leads to b.                    *)
Swap(list, a, b) ==
  IF a \in ToSet(list) THEN ReplaceAt(list, SelectInSeq(list, LAMBDA x : x = a), b) ELSE list

(* add_user_info.  A key that is there with NULL data keeps the NULL: ENTER *)
(* of hsearch does not replace the data of an entry it finds.               *)
AddUser(s, c, b, append) ==
  LET n == s.heap[b].nick
      old == s.tab[c][n]
  IN IF old \in Blocks
       THEN IF old = b THEN s
            ELSE FreeUser([WithList(s, c, Swap(UserList(s, c), old, b)) EXCEPT !.tab[c][n] = b], old)
       ELSE [(IF append THEN WithList(s, c, <<b>> \o UserList(s, c)) ELSE s)
               EXCEPT !.tab[c][n] = IF old = "absent" THEN b ELSE old, !.err = FALSE]

(* rm_user_info.  The list is walked up to the nick, NULL or not.           *)
RmUser(s, c, n, free) ==
  LET list == UserList(s, c)
      j == SelectInSeq(list, LAMBDA b : s.heap[b].nick = n)
      cleared == [s EXCEPT !.tab[c][n] = "null"]
  IN IF s.tab[c][n] = "absent" THEN [s EXCEPT !.err = FALSE]
     ELSE IF ~free THEN cleared
     ELSE IF ListOf(s, c) = 0 THEN [cleared EXCEPT !.fault = "crash"]
     ELSE IF j = 0 THEN Reading(cleared, ToSet(list))
     ELSE FreeUser(Reading(WithList(cleared, c, RemoveAt(list, j)), ToSet(SubSeq(list, 1, j))),
                   list[j])

(* get_user_info: a failed lookup leaves errno set, and a set errno, from   *)
(* whatever call, makes the next lookup fail.                               *)
HasUser(s, c, n) == /\ ~s.err /\ s.tab[c][n] \in Blocks
                    /\ s.heap[s.tab[c][n]].nick = n

GetUser(s, c, n) ==
  [Reading(s, {s.tab[c][n]} \cap Blocks) EXCEPT !.err = @ \/ s.tab[c][n] = "absent"]

(* What on_mode, on_who and on_names do with a nick: look the user up, make *)
(* one if that fails, and change the modes of the one or the other.         *)
UpdateUser(s, c, n, added, removed) ==
  LET got == GetUser(s, c, n)
      b == IF HasUser(s, c, n) THEN s.tab[c][n] ELSE NewBlock(got)
      known == IF HasUser(s, c, n) THEN got
               ELSE AddUser(MakeUser(got, n), c, b, TRUE)
  IN [known EXCEPT !.heap[b].modes = (@ \cup added) \ removed]
-----------------------------------------------------------------------------
(* info.c: the handlers.                                                    *)

(* on_join for the bot: add_channel_info does not look for the channel.     *)
OnBotJoin(s, c) == [s EXCEPT !.clist = <<[chan |-> c, users |-> <<>>]>> \o @]

OnJoin(s, c, n) == AddUser(MakeUser(s, n), c, NewBlock(s), TRUE)

OnPart(s, c, n) == RmUser(s, c, n, TRUE)

(* on_part for the bot: rm_channel_info, whose free_user_list takes the     *)
(* first entry off the list and then looks for it in the rest.              *)
OnBotPart(s, c) ==
  LET i == ListOf(s, c)
  IN IF i = 0 THEN s
     ELSE IF s.clist[i].users # <<>> THEN [s EXCEPT !.fault = "crash"]
     ELSE [s EXCEPT !.clist = RemoveAt(@, i)]

(* Mutation: the user is removed from the newest channel only.              *)
OnQuitFirst(s, n) == IF s.clist = <<>> THEN s ELSE RmUser(s, Head(s.clist).chan, n, TRUE)

(* on_quit goes through the channels in the order of the list.              *)
OnQuit(s, n) ==
  LET t[i \in 0 .. Len(s.clist)] ==
        IF i = 0 THEN s ELSE RmUser(t[i - 1], s.clist[i].chan, n, TRUE)
  IN t[Len(s.clist)]

(* Mutation: the key of the old nick keeps its data.                        *)
RenameKeepsKey(s, c, old, new, harm) ==
  LET b == s.tab[c][old]
  IN IF ~HasUser(s, c, old) THEN GetUser(s, c, old)
     ELSE AddUser([s EXCEPT !.heap[b].nick = new], c, b, FALSE)

(* One channel of on_nick_change: the block moves to the key of the new     *)
(* nick.  256 bytes are cleared where strdup put a nick: they run into what *)
(* lies behind, which may do no harm.                                       *)
Rename(s, c, old, new, harm) ==
  LET b == s.tab[c][old]
  IN IF ~HasUser(s, c, old) THEN GetUser(s, c, old)
     ELSE IF harm THEN [GetUser(s, c, old) EXCEPT !.fault = "undefined"]
     ELSE AddUser([RmUser(GetUser(s, c, old), c, old, FALSE) EXCEPT !.heap[b].nick = new], c, b, FALSE)

OnNick(s, old, new, harm) ==
  LET t[i \in 0 .. Len(s.clist)] ==
        IF i = 0 THEN s ELSE Rename(t[i - 1], s.clist[i].chan, old, new, harm)
  IN t[Len(s.clist)]

(* Mutation: the sign of the mode string is ignored.                        *)
OnModeAdds(s, c, n, set, letters) == UpdateUser(s, c, n, letters, {})

(* on_mode: every letter of the mode string, set or cleared, for one nick.  *)
OnMode(s, c, n, set, letters) ==
  IF set THEN UpdateUser(s, c, n, letters, {}) ELSE UpdateUser(s, c, n, {}, letters)

(* Mutation: the case of 'G', away, falls through to a bit of the modes.    *)
PrefixFallsThrough(m) == m \cup {"away"}

(* parse_mode_prefix adds the modes that the prefix shows; the server sends *)
(* the highest one.                                                         *)
Prefix(m) == IF "op" \in m THEN {"op"} ELSE m

OnWho(s, c, n, m) == UpdateUser(s, c, n, Prefix(m), {})

(* on_names: the first name is read well; after each name the loop skips as *)
(* many characters as it had, and finds another with its prefix, or what    *)
(* remains of one from the middle, without.  names: <<nick, modes>> pairs.  *)
OnNames(s, c, names) ==
  LET t[i \in 0 .. Len(names)] ==
        IF i = 0 THEN s ELSE OnWho(t[i - 1], c, names[i][1], names[i][2])
  IN t[Len(names)]
-----------------------------------------------------------------------------
(* The server, and the bot's handling of each event it gets.                *)
Becomes(s) == /\ clist' = s.clist /\ tab' = s.tab /\ heap' = s.heap
              /\ err' = s.err /\ fault' = s.fault

Room(n) == Cardinality(FreeBlocks(info)) >= n

Sees(c) == Bot \in members[c]

(* A message with a command nobody hooked, such as 366 and 315: run_hooks   *)
(* looks for its hooks and leaves errno set.                                *)
Unhooked(s) == [s EXCEPT !.err = TRUE]

Other == "other" \in Events /\ ~err /\ Becomes(Unhooked(info))
         /\ UNCHANGED <<members, modes, who, strays>>

(* The server's lists of nicks with their modes, shown or not.              *)
Listed(ns, m) == [i \in 1 .. Cardinality(ns) |-> <<SetToSeq(ns)[i], m[SetToSeq(ns)[i]]>>]
NoModes == [n \in Nicks |-> {}]

(* The bot joins: JOIN, which it answers with a WHO, 353 and 366 come in    *)
(* one burst.  The nicks read without a prefix, bare, may be anybody's.     *)
BotJoin(c) ==
  /\ ~Sees(c) /\ Len(clist) < Entries
  /\ members' = [members EXCEPT ![c] = @ \cup {Bot}]
  /\ who' = who \cup {c}
  /\ modes' = [modes EXCEPT ![c][Bot] = IF members[c] = {} THEN {"op"} \cap Modes ELSE {}]
  /\ \E first \in members'[c] : \E whole \in SUBSET (members'[c] \ {first}) :
       \E bare \in SUBSET (setting.users \cup {Junk}) :
         /\ Room(Cardinality(members'[c]) + Cardinality(bare))
         /\ Becomes(Unhooked(OnNames(OnBotJoin(info, c), c,
              Listed({first}, modes'[c]) \o Listed(whole, modes'[c]) \o Listed(bare, NoModes))))
         /\ strays' = [strays EXCEPT ![c] = (@ \cup bare) \ members'[c]]

(* 352 for every member, in answer to the WHO, and 315.                     *)
WhoReply(c) ==
  /\ c \in who /\ who' = who \ {c} /\ Room(Cardinality(members[c]))
  /\ Becomes(Unhooked(OnNames(info, c, Listed(members[c], modes[c]))))
  /\ UNCHANGED <<members, modes, strays>>

Join(c, n) ==
  /\ n # Bot /\ n \notin members[c] /\ Room(1)
  /\ members' = [members EXCEPT ![c] = @ \cup {n}]
  /\ modes' = [modes EXCEPT ![c][n] = {}]
  /\ strays' = [strays EXCEPT ![c] = @ \ {n}]
  /\ Becomes(IF Sees(c) THEN OnJoin(info, c, n) ELSE info)
  /\ UNCHANGED who

(* n leaves c, and the module is told that he is gone, or is not.           *)
Leave(c, n, told) ==
  /\ n \in members[c]
  /\ members' = [members EXCEPT ![c] = @ \ {n}]
  /\ modes' = [modes EXCEPT ![c][n] = {}]
  /\ who' = IF n = Bot THEN who \ {c} ELSE who
  /\ strays' = [strays EXCEPT ![c] = IF told THEN @ \ {n} ELSE @ \cup {n}]

Part(c, n) == /\ "part" \in Events /\ n # Bot /\ Leave(c, n, Sees(c))
              /\ Becomes(IF Sees(c) THEN OnPart(info, c, n) ELSE info)

BotPart(c) == /\ "botpart" \in Events /\ Leave(c, Bot, FALSE)
              /\ Becomes(OnBotPart(info, c))

(* KICK is not hooked.                                                      *)
Kick(c, n) == /\ (IF n = Bot THEN "botkick" ELSE "kick") \in Events /\ Leave(c, n, FALSE)
              /\ Becomes(IF Sees(c) THEN Unhooked(info) ELSE info)

(* The bot hears of what a user does in a channel they share.               *)
Hears(n) == \E c \in Chans : Sees(c) /\ n \in members[c]

Quit(n) ==
  /\ "quit" \in Events /\ n # Bot /\ \E c \in Chans : n \in members[c]
  /\ members' = [c \in Chans |-> members[c] \ {n}]
  /\ modes' = [c \in Chans |-> [modes[c] EXCEPT ![n] = {}]]
  /\ strays' = [c \in Chans |-> IF Hears(n) /\ Sees(c) THEN strays[c] \ {n}
                                ELSE strays[c] \cup ({n} \cap members[c])]
  /\ Becomes(IF Hears(n) THEN OnQuit(info, n) ELSE info)
  /\ UNCHANGED who

(* A rename may be missed, as errno hides a user: both nicks may be found   *)
(* after it where the old one might be.                                     *)
Nick(n, new) ==
  /\ "nick" \in Events /\ Bot \notin {n, new}
  /\ \E c \in Chans : n \in members[c]
  /\ \A c \in Chans : new \notin members[c]
  /\ members' = [c \in Chans |-> IF n \in members[c] THEN (members[c] \ {n}) \cup {new}
                                                      ELSE members[c]]
  /\ modes' = [c \in Chans |-> [modes[c] EXCEPT ![n] = {}, ![new] = modes[c][n]]]
  /\ strays' = [c \in Chans |-> IF n \in members[c] \cup strays[c]
                                  THEN (strays[c] \cup {n, new}) \ members'[c] ELSE strays[c]]
  /\ \E harm \in BOOLEAN : Becomes(IF Hears(n) THEN OnNick(info, n, new, harm) ELSE info)
  /\ UNCHANGED who

Mode(c, n, m, set) ==
  /\ "mode" \in Events /\ n \in members[c] /\ Room(1) /\ (m \in modes[c][n]) # set
  /\ modes' = [modes EXCEPT ![c][n] = IF set THEN @ \cup {m} ELSE @ \ {m}]
  /\ Becomes(IF Sees(c) THEN OnMode(info, c, n, set, {m}) ELSE info)
  /\ UNCHANGED <<members, who, strays>>

(* MODE #channel +ov n k, two letters with a nick each.                     *)
TwoModes(c, n, k) ==
  /\ "multi" \in Events /\ {n, k} \subseteq members[c] /\ n # k /\ Room(1)
  /\ modes' = [modes EXCEPT ![c][n] = @ \cup ({"op"} \cap Modes),
                            ![c][k] = @ \cup ({"voice"} \cap Modes)]
  /\ Becomes(IF Sees(c) THEN OnMode(info, c, n, TRUE, Modes) ELSE info)
  /\ UNCHANGED <<members, who, strays>>

Next ==
  /\ fault = "none" /\ UNCHANGED setting
  /\ \/ Other
     \/ \E c \in setting.chans : BotJoin(c) \/ WhoReply(c) \/ BotPart(c)
     \/ \E c \in setting.chans, n \in setting.users : Join(c, n) \/ Part(c, n) \/ Kick(c, n)
     \/ \E c \in setting.chans, n \in setting.users, m \in Modes, set \in BOOLEAN : Mode(c, n, m, set)
     \/ \E c \in setting.chans, n, k \in setting.users : TwoModes(c, n, k)
     \/ \E n \in setting.users : Quit(n)
     \/ \E n, new \in setting.users : Nick(n, new)

Spec == Init /\ [][Next]_vars
-----------------------------------------------------------------------------
(* What irc.modes and irc.ismod answer, from a thread of their own.         *)
Shown(c, n) == IF tab[c][n] \in Blocks THEN heap[tab[c][n]].modes ELSE {}

(* Nobody is kicked or renamed, the bot does not leave, and no mode line is *)
(* about two users: what the tables do not follow or the handlers misread.  *)
Orderly == Events \subseteq {"other", "part", "quit", "mode"}

(* README:192-201, irc.ismod and irc.modes: nobody in a channel is shown    *)
(* modes he does not have there.                                            *)
ModesAreReal == Orderly => \A c \in Chans : \A n \in members[c] :
                  Sees(c) => Shown(c, n) \subseteq modes[c][n]

(* What else the lists of channels need so that no list of one channel has  *)
(* a freed block that is then given to a user of another.                   *)
ListsApart == (\A c, d \in setting.chans : c = d) \/ Events \cap {"nick", "botpart"} = {}

(* structs.c:70-183: a key leads to an allocated block, with the nick of    *)
(* the key, and to none that another key leads to, in one channel whatever  *)
(* happens, in several while nobody is renamed and the bot does not leave,  *)
(* until freed memory is read or a rename overruns its nick into the tables.*)
KeysFindOwner == ListsApart /\ fault # "undefined" =>
  \A c \in Chans, n \in Nicks : tab[c][n] \in Blocks =>
    /\ heap[tab[c][n]].live /\ heap[tab[c][n]].nick = n
    /\ \A d \in Chans, k \in Nicks : tab[d][k] = tab[c][n] => d = c /\ k = n

(* structs.c:90-108, 143-156: the block of a key is in the list of its      *)
(* channel just once, and no list holds freed memory, which the handlers    *)
(* would read.                                                              *)
ListsMatchKeys == Orderly =>
  /\ fault # "undefined"
  /\ \A c \in Chans, n \in Nicks : tab[c][n] \in Blocks =>
       \E i \in 1 .. Len(clist) :
         /\ clist[i].chan = c
         /\ Cardinality({j \in 1 .. Len(clist[i].users) : clist[i].users[j] = tab[c][n]}) = 1
  /\ \A i \in 1 .. Len(clist) : \A b \in ToSet(clist[i].users) : heap[b].live

(* README:233-235: whoever is found in a channel is there, or the module    *)
(* could not know better: by part or quit, a user is gone for it as well,   *)
(* though not by KICK, which is not hooked whatever the README says.        *)
GoneAreNotFound ==
  \A c \in Chans, n \in Nicks : Sees(c) /\ tab[c][n] \in Blocks => n \in members[c] \cup strays[c]

(* README:234-235, the module keeps information about modes: whoever is an  *)
(* operator of a channel is known as one, once the WHO is answered that the *)
(* bot sends when it joins.                                                 *)
OperatorsKnown == \A c \in Chans : \A n \in members[c] :
                    Sees(c) /\ c \notin who /\ "op" \in modes[c][n] => "op" \in Shown(c, n)
=============================================================================
