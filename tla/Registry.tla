------------------------------ MODULE Registry ------------------------------
(***************************************************************************)
(* Which program runs for which message: the hooks of the IRC core         *)
(* (src/irc/hooks.c), vinny's commands, hooks and regexes with their       *)
(* setup and end (src/modules/vinny), and the command line that loads,     *)
(* reloads and unloads vinny (src/vini/vini.c).                            *)
(*                                                                         *)
(* Two threads: the main thread at the command line, and an IRC thread     *)
(* that walks the lists for one message after the other.  No lock is       *)
(* between them.  An entry or a rule is known by the setup that made it;   *)
(* to read one that was freed is undefined, and "fault" ends the behaviour *)
(* with its cause.  The operator loads vinny when it is not loaded.        *)
(***************************************************************************)
EXTENDS Naturals, FiniteSets, Sequences, SequencesExt

CONSTANTS
    Others,      \* the hooks of other modules, by IRC command, in their order
    cmd_prefix,  \* the prefixes of commands, in their order
    Cmds,        \* names of commands
    Channels,
    Networks,    \* how many networks there are
    Slots,       \* 8192 in hooks.c
    Trees,       \* what may lie in the directories: sequences of programs
    Messages,
    MaxSetups,   \* bounds how often vinny is set up
    None

Keys == DOMAIN Others
Words == ToSet(cmd_prefix) \X Cmds
AnyNetwork == Networks     \* the code's -1

VARIABLES
    tree,     \* the programs and configurations in the directories
    seen,     \* those each setup found, oldest first
    loaded,   \* vinny is in the list of modules
    table,    \* table[k]: the hooks of IRC command k, newest first
    ccount,   \* the next free slot
    hooks,    \* hooks[fid]: the command and rule of a slot
    rxhead,   \* the regexes, newest first
    cmdl,     \* the commands that were made
    tab,      \* tab[w]: what the hash table has for word w
    freed,    \* the rules that were freed
    cli,      \* the main thread: pc, its command, a loop index, rules to make
    reader,   \* the IRC thread: pc, message, hook and rule it is at, what ran
    overlap,  \* the command line was in use since the message came
    fault

vars == <<tree, seen, loaded, table, ccount, hooks, rxhead, cmdl, tab, freed, cli,
          reader, overlap, fault>>
lists == <<table, ccount, hooks, rxhead, cmdl, tab, freed>>

\* The elements of s that are in T, in their order: SelectSeq, for a set.
Keep(s, T) ==
    LET kept[i \in 0..Len(s)] ==
            IF i = 0 THEN <<>>
            ELSE IF s[i] \in T THEN Append(kept[i - 1], s[i]) ELSE kept[i - 1]
    IN kept[Len(s)]

-----------------------------------------------------------------------------
(* loader.c: what a setup finds.                                           *)

\* find_modules, which passes over what is not executable.
find_modules(t, cid) == Keep(t, {p \in ToSet(t) : p.exec /\ p.cid = cid})

\* Mutation: the last network is left out.
ButLastNetwork(t) ==
    FlattenSeq([i \in 1..Networks |-> find_modules(t, IF i = 1 THEN AnyNetwork ELSE i - 2)])

\* The directory of all networks and then that of each.
setup_modules(t) ==
    FlattenSeq([i \in 1..(Networks + 1) |-> find_modules(t, IF i = 1 THEN AnyNetwork ELSE i - 2)])

\* The rules of the programs, one for each key: cmd_maker's struct mod_op,
\* which at tells from others that say the same.
ModOps(progs, n) ==
    FlattenSeq([i \in DOMAIN progs |->
        FlattenSeq([j \in DOMAIN progs[i].rules |->
            LET r == progs[i].rules[j]
            IN [k \in DOMAIN r.keys |->
                   [name |-> progs[i].name, cid |-> progs[i].cid, word |-> r.word,
                    key |-> r.keys[k], chans |-> r.chans, at |-> <<j, k>>, n |-> n]]])])

AllOps == UNION {ToSet(ModOps(t, n)) : t \in Trees, n \in 1..MaxSetups}

VinnyHooks == [fn : {"vinny"}, fid : 0..(Slots - 1), n : 1..MaxSetups]
OtherHooks == UNION {ToSet(Others[k]) : k \in Keys}
Hooks == VinnyHooks \cup OtherHooks

\* Each rule of a program has its keys; a HOOK names commands of IRC.
Programs == UNION {ToSet(t) : t \in Trees}

ASSUME CountsAssumption == Networks \in Nat /\ Slots \in Nat \ {0} /\ MaxSetups \in Nat

ASSUME OthersAssumption ==
    /\ "PRIVMSG" \in Keys /\ \A h \in OtherHooks : h.fn # "vinny"
    /\ Others \in [Keys -> Seq(OtherHooks)] /\ \A k \in Keys : IsInjective(Others[k])

\* A program is once in the directory of all networks or of one.
ASSUME TreesAssumption ==
    /\ Trees \subseteq Seq(Programs)
    /\ \A t \in Trees : \A i, j \in DOMAIN t : t[i].name = t[j].name /\ t[i].cid = t[j].cid => i = j
    /\ \A p \in Programs : /\ p.cid \in 0..Networks
                           /\ p.rules \in Seq(ToSet(p.rules))
                           /\ \A r \in ToSet(p.rules) :
                                 /\ r.word \in {"DEF", "HOOK", "MATCH"} /\ r.keys \in Seq(ToSet(r.keys))
                                 /\ r.word = "HOOK" => ToSet(r.keys) \subseteq Keys

\* config.h:7: the prefixes are not empty.
ASSUME PrefixAssumption == cmd_prefix \in Seq(ToSet(cmd_prefix)) /\ "" \notin ToSet(cmd_prefix)

ASSUME MessagesAssumption ==
    /\ \A m \in Messages : m.key \in Keys
    /\ None \notin Messages /\ None \notin AllOps /\ None \notin Hooks
    /\ AllOps \cap OtherHooks = {}
    /\ \A k \in Keys, o \in AllOps : None # [cmd |-> k, mop |-> o]

TypeOK ==
    /\ tree \in Trees /\ seen \in Seq(Trees) /\ loaded \in BOOLEAN
    /\ table \in [Keys -> Seq(Hooks)]
    /\ ccount \in 1..Slots
    /\ hooks \in [1..(Slots - 1) -> [cmd : Keys, mop : AllOps] \cup {None}]
    /\ rxhead \in Seq(AllOps) /\ cmdl \subseteq AllOps /\ freed \subseteq AllOps
    /\ tab \in [Words -> AllOps \cup {None}]
    /\ cli \in [pc : {"idle", "hooks", "rgx", "cmds", "privmsg", "close", "setup", "make"},
                op : {"load", "unload", "reload", "reloadlib"}, i : 1..Slots, todo : Seq(AllOps)]
    /\ reader \in [pc : {"done", "at", "hook", "cmd", "rgx"}, msg : Messages \cup {None},
                   at : Hooks \cup {None}, mop : AllOps \cup {None}, ran : Seq(AllOps \cup Hooks)]
    /\ overlap \in BOOLEAN
    /\ fault \in {"none", "double free", "freed hook", "freed rule", "null rule", "unmapped"}

Init ==
    /\ tree \in Trees /\ seen = <<>> /\ loaded = FALSE
    /\ table = Others
    /\ ccount = 1 /\ hooks = [i \in 1..(Slots - 1) |-> None]
    /\ rxhead = <<>> /\ cmdl = {} /\ freed = {}
    /\ tab = [w \in Words |-> None]
    /\ cli = [pc |-> "idle", op |-> "load", i |-> 1, todo |-> <<>>]
    /\ reader = [pc |-> "done", msg |-> None, at |-> None, mop |-> None, ran |-> <<>>]
    /\ overlap = TRUE /\ fault = "none"

-----------------------------------------------------------------------------
(* The command line, irc/hooks.c and the registries of vinny.              *)

add_irc_hook(key, fn, fid, n) ==
    table' = [table EXCEPT ![key] = <<[fn |-> fn, fid |-> fid, n |-> n]>> \o @]

\* Mutation: only fid is compared.
RmByFid(key, fn, fid) == [table EXCEPT ![key] = Keep(@, {e \in ToSet(@) : e.fid # fid})]

rm_irc_hook(key, fn, fid) ==
    [table EXCEPT ![key] = Keep(@, {e \in ToSet(@) : ~(e.fid = fid /\ e.fn = fn)})]

rm_irc_hooks(key, fn) == [table EXCEPT ![key] = Keep(@, {e \in ToSet(@) : e.fn # fn})]

\* free_mop frees the name, and argv[0], which is the name: undefined, so
\* the program ends or goes on.
free_mop(mop) == freed' = freed \cup {mop} /\ fault' \in {fault, "double free"}

Goto(pc) == cli' = [cli EXCEPT !.pc = pc]

\* A line at the command line; vini.c starts with a load of each module.
Command(op) ==
    /\ cli.pc = "idle" /\ loaded = (op # "load")
    /\ op # "unload" => Len(seen) < MaxSetups
    /\ cli' = [cli EXCEPT !.op = op, !.i = 1, !.pc = IF op = "load" THEN "setup" ELSE "hooks"]
    /\ loaded' = TRUE /\ overlap' = TRUE
    /\ UNCHANGED <<tree, seen, reader, fault, lists>>

\* Mutation: the loop ends one slot early.
MoreSlotsShort == cli.i < ccount - 1

MoreSlots == cli.i < ccount

\* destroy_hooks, one slot: the entry of the list calls free_vinny_hook.
DestroyHook ==
    LET slot == hooks[cli.i]
    IN /\ cli.pc = "hooks" /\ MoreSlots
       /\ table' = rm_irc_hook(slot.cmd, "vinny", cli.i)
       /\ free_mop(slot.mop)
       /\ hooks' = [hooks EXCEPT ![cli.i] = None]
       /\ cli' = [cli EXCEPT !.i = @ + 1]
       /\ UNCHANGED <<tree, seen, loaded, ccount, rxhead, cmdl, tab, reader, overlap>>

\* The second loop finds the first slot empty, as DestroyHook left it.
DestroyedHooks ==
    /\ cli.pc = "hooks" /\ ~MoreSlots
    /\ ccount' = 1 /\ Goto("rgx")
    /\ UNCHANGED <<tree, seen, loaded, table, hooks, rxhead, cmdl, tab, freed, reader, overlap, fault>>

DestroyRgx ==
    /\ cli.pc = "rgx"
    /\ IF rxhead = <<>> THEN Goto("cmds") /\ UNCHANGED <<rxhead, freed, fault>>
       ELSE rxhead' = Tail(rxhead) /\ free_mop(Head(rxhead)) /\ UNCHANGED cli
    /\ UNCHANGED <<tree, seen, loaded, table, ccount, hooks, cmdl, tab, reader, overlap>>

\* Mutation: free_cmd finds the command, with the first prefix.
FreedWithPrefix == {c \in cmdl : tab[<<cmd_prefix[1], c.key>>] = c}

\* free_cmd looks for the name without a prefix, which is not in the table,
\* and compares its entry with the rule, which it is not.
FreedCmds == {c \in cmdl : <<"", c.key>> \in Words /\ tab[<<"", c.key>>] = c}

DestroyCmds ==
    /\ cli.pc = "cmds" /\ Goto("privmsg")
    /\ cmdl' = cmdl \ FreedCmds /\ freed' = freed \cup FreedCmds
    /\ tab' = [w \in Words |-> IF w[1] = cmd_prefix[1] /\ tab[w] \in FreedCmds THEN None ELSE tab[w]]
    /\ UNCHANGED <<tree, seen, loaded, table, ccount, hooks, rxhead, reader, overlap, fault>>

\* The end of destroy_vinny; free_vinny, which the removed entry calls, goes
\* through destroy_vinny again and finds nothing.
RmPrivmsg ==
    /\ cli.pc = "privmsg" /\ Goto("close")
    /\ table' = rm_irc_hooks("PRIVMSG", "vinny")
    /\ UNCHANGED <<tree, seen, loaded, ccount, hooks, rxhead, cmdl, tab, freed, reader, overlap, fault>>

\* dlclose takes the static variables along, and the code the IRC thread is
\* in; the hash table, which is the program's, keeps its words.
Close ==
    /\ cli.pc = "close" /\ Goto(IF cli.op = "unload" THEN "idle" ELSE "setup")
    /\ loaded' = (cli.op # "unload")
    /\ IF cli.op = "reload" THEN UNCHANGED <<cmdl, fault>>
       ELSE /\ cmdl' = {}
            /\ fault' = IF reader.pc \in {"hook", "cmd", "rgx"} THEN "unmapped" ELSE fault
    /\ UNCHANGED <<tree, seen, table, ccount, hooks, rxhead, tab, freed, reader, overlap>>

setup_vinny ==
    /\ cli.pc = "setup" /\ seen' = Append(seen, tree)
    /\ add_irc_hook("PRIVMSG", "vinny", 0, Len(seen'))
    /\ cli' = [cli EXCEPT !.pc = "make", !.todo = ModOps(setup_modules(tree), Len(seen'))]
    /\ UNCHANGED <<tree, loaded, ccount, hooks, rxhead, cmdl, tab, freed, reader, overlap, fault>>

\* A word that is there stays as it is, and the prefixes behind it are not
\* tried.
mk_cmd(mop) ==
    LET New(i) == \A j \in 1..i : tab[<<cmd_prefix[j], mop.key>>] = None
    IN /\ cmdl' = cmdl \cup {mop}
       /\ tab' = [w \in Words |-> IF w[2] = mop.key /\ New(SelectInSeq(cmd_prefix, LAMBDA p : p = w[1]))
                                    THEN mop ELSE tab[w]]
       /\ UNCHANGED <<table, ccount, hooks, rxhead>>

\* Mutation: there is one slot more.
MkHookOneMore(mop) ==
    /\ IF ccount > Slots THEN UNCHANGED <<table, ccount, hooks>>
       ELSE /\ ccount' = ccount + 1
            /\ hooks' = [hooks EXCEPT ![ccount] = [cmd |-> mop.key, mop |-> mop]]
            /\ add_irc_hook(mop.key, "vinny", ccount, mop.n)
    /\ UNCHANGED <<rxhead, cmdl, tab>>

mk_hook(mop) ==
    /\ IF ccount >= Slots THEN UNCHANGED <<table, ccount, hooks>>
       ELSE /\ ccount' = ccount + 1
            /\ hooks' = [hooks EXCEPT ![ccount] = [cmd |-> mop.key, mop |-> mop]]
            /\ add_irc_hook(mop.key, "vinny", ccount, mop.n)
    /\ UNCHANGED <<rxhead, cmdl, tab>>

mk_rgx(mop) == rxhead' = <<mop>> \o rxhead /\ UNCHANGED <<table, ccount, hooks, cmdl, tab>>

Make ==
    /\ cli.pc = "make" /\ cli.todo # <<>>
    /\ cli' = [cli EXCEPT !.todo = Tail(@)]
    /\ LET mop == Head(cli.todo)
       IN CASE mop.word = "DEF" -> mk_cmd(mop)
            [] mop.word = "HOOK" -> mk_hook(mop)
            [] mop.word = "MATCH" -> mk_rgx(mop)
    /\ UNCHANGED <<tree, seen, loaded, freed, reader, overlap, fault>>

SetUp ==
    /\ cli.pc = "make" /\ cli.todo = <<>> /\ Goto("idle")
    /\ UNCHANGED <<tree, seen, loaded, lists, reader, overlap, fault>>

\* The operator changes programs and configurations between two commands.
Edit ==
    /\ cli.pc = "idle" /\ tree' \in Trees
    /\ UNCHANGED <<seen, loaded, lists, cli, reader, overlap, fault>>

-----------------------------------------------------------------------------
(* The IRC thread: run_hooks and to_vinny.                                 *)

\* The element behind x in list s, None at its end.
NextOf(s, x) == LET i == SelectInSeq(s, LAMBDA y : y = x) IN IF i = Len(s) THEN None ELSE s[i + 1]

Stop(cause) == fault' = cause /\ UNCHANGED reader

\* Back in run_hooks, which reads the entry it stands on for the next one.
Return(ran) ==
    LET list == table[reader.msg.key]
    IN IF reader.at \notin ToSet(list) THEN Stop("freed hook")
       ELSE /\ reader' = [reader EXCEPT !.pc = IF NextOf(list, reader.at) = None THEN "done" ELSE "at",
                                        !.at = NextOf(list, reader.at), !.mop = None, !.ran = ran]
            /\ UNCHANGED fault

Receive(m) ==
    /\ reader.pc = "done"
    /\ reader' = IF table[m.key] = <<>> THEN [reader EXCEPT !.msg = m, !.ran = <<>>]
                 ELSE [reader EXCEPT !.pc = "at", !.msg = m, !.at = Head(table[m.key]), !.ran = <<>>]
    /\ overlap' = (cli.pc # "idle")
    /\ UNCHANGED <<tree, seen, loaded, lists, cli, fault>>

\* get_mop for the word get_cmdname finds.
get_mop(word) == IF word \in Words THEN tab[word] ELSE None

\* run_hooks calls the function of an entry: to_vinny, or that of another.
Call ==
    LET fid == reader.at.fid
        Into(pc, mop) == reader' = [reader EXCEPT !.pc = pc, !.mop = mop] /\ UNCHANGED fault
    IN /\ reader.pc = "at"
       /\ IF reader.at \notin ToSet(table[reader.msg.key]) THEN Stop("freed hook")
          ELSE IF reader.at.fn # "vinny" THEN Return(Append(reader.ran, reader.at))
          ELSE IF fid = 0 THEN Into("cmd", get_mop(reader.msg.word))
          ELSE IF hooks[fid] = None THEN Stop("null rule")
          ELSE Into("hook", hooks[fid].mop)
       /\ UNCHANGED <<tree, seen, loaded, lists, cli, overlap>>

chan_allowed(mop, chan) == mop.chans = {} \/ chan \in mop.chans

OnNetwork(mop, m) == mop.cid \in {AnyNetwork, m.cid}

\* A first parameter that is not a channel is not looked for in the list.
spawn_hook ==
    LET mop == reader.mop
        m == reader.msg
    IN /\ reader.pc = "hook"
       /\ IF mop \in freed THEN Stop("freed rule")
          ELSE Return(IF OnNetwork(mop, m) /\ (m.chan \notin Channels \/ chan_allowed(mop, m.chan))
                        THEN Append(reader.ran, mop) ELSE reader.ran)
       /\ UNCHANGED <<tree, seen, loaded, lists, cli, overlap>>

spawn_cmd ==
    LET mop == reader.mop
        runs == mop # None /\ OnNetwork(mop, reader.msg) /\ chan_allowed(mop, reader.msg.chan)
    IN /\ reader.pc = "cmd"
       /\ IF mop \in freed THEN Stop("freed rule")
          ELSE /\ reader' = [reader EXCEPT !.pc = "rgx", !.mop = IF rxhead = <<>> THEN None ELSE rxhead[1],
                                           !.ran = IF runs THEN Append(@, mop) ELSE @]
               /\ UNCHANGED fault
       /\ UNCHANGED <<tree, seen, loaded, lists, cli, overlap>>

\* One regex of the list; m.rx are those pcre_exec gives 1 for, that match
\* and have no group.
spawn_rgx ==
    LET mop == reader.mop
        m == reader.msg
        runs == mop.key \in m.rx /\ OnNetwork(mop, m) /\ chan_allowed(mop, m.chan)
    IN /\ reader.pc = "rgx"
       /\ IF mop = None THEN Return(reader.ran)
          ELSE IF mop \notin ToSet(rxhead) THEN Stop("freed rule")
          ELSE /\ reader' = [reader EXCEPT !.mop = NextOf(rxhead, mop),
                                           !.ran = IF runs THEN Append(@, mop) ELSE @]
               /\ UNCHANGED fault
       /\ UNCHANGED <<tree, seen, loaded, lists, cli, overlap>>

CliStep == \/ DestroyHook \/ DestroyedHooks \/ DestroyRgx \/ DestroyCmds \/ RmPrivmsg
           \/ Close \/ setup_vinny \/ Make \/ SetUp \/ Edit
           \/ \E op \in {"load", "unload", "reload", "reloadlib"} : Command(op)

IrcStep == Call \/ spawn_hook \/ spawn_cmd \/ spawn_rgx \/ \E m \in Messages : Receive(m)

Next == fault = "none" /\ (CliStep \/ IrcStep)

Spec == Init /\ [][Next]_vars

-----------------------------------------------------------------------------
Quiet == cli.pc = "idle" /\ fault = "none"

OfVinny(s) == Keep(s, VinnyHooks)
OfOthers(s) == Keep(s, OtherHooks)

(***************************************************************************)
(* hooks.c:17-104 and vinny.c:98, 134: between two commands the hooks of   *)
(* vinny in the lists are those of its slots, each once and under its      *)
(* command, with one for all PRIVMSGs while vinny is loaded, and no slot   *)
(* or regex leads to a rule that was freed.                                *)
(***************************************************************************)
SlotsMatchTable ==
    Quiet => /\ \A k \in Keys :
                    /\ IsInjective(OfVinny(table[k]))
                    /\ {e.fid : e \in ToSet(OfVinny(table[k]))} =
                           {i \in 1..(Slots - 1) : hooks[i] # None /\ hooks[i].cmd = k}
                               \cup (IF k = "PRIVMSG" /\ loaded THEN {0} ELSE {})
             /\ \A i \in 1..(Slots - 1) :
                    /\ hooks[i] # None <=> i < ccount
                    /\ hooks[i] # None => hooks[i].mop \notin freed
             /\ ToSet(rxhead) \cap freed = {}

(***************************************************************************)
(* hooks.c:66-125, 152: whatever the command line does to vinny, the hooks *)
(* of other modules stay as they are, and run_hooks, which follows a list  *)
(* others change, calls each of them once for a message.                   *)
(***************************************************************************)
OthersKept ==
    /\ \A k \in Keys : OfOthers(table[k]) = Others[k]
    /\ reader.pc = "done" /\ reader.msg # None => OfOthers(reader.ran) = Others[reader.msg.key]

Executable(t) == Keep(t, {p \in ToSet(t) : p.exec})

\* What all setups found, in the order it was made in.
Found == FlattenSeq([n \in DOMAIN seen |-> ModOps(setup_modules(seen[n]), n)])

\* The rule of a command: the first of its rules.
FirstDef(ops, cmd) ==
    LET defs == {i \in DOMAIN ops : ops[i].word = "DEF" /\ ops[i].key = cmd}
    IN {ops[i] : i \in {i \in defs : \A j \in defs : i <= j}}

(***************************************************************************)
(* README:35-48, 105-119: a message that no command at the command line    *)
(* interrupted starts, once each, the programs of the hooks and regexes    *)
(* found at the last setup that are for it, its network and its channel,   *)
(* and the program of its command; nothing once vinny is unloaded.         *)
(* Commands keep the rule they had first, whatever a reload finds; hooks   *)
(* for channels run for private messages as well.                          *)
(***************************************************************************)
RunsAsConfigured ==
    LET m == reader.msg
        last == ModOps(Executable(seen[Len(seen)]), Len(seen))
        hookable == {mop \in ToSet(last) : mop.word = "HOOK" /\ mop.key = m.key}
        For(mop) == /\ mop.cid \in {AnyNetwork, m.cid}
                    /\ mop.chans # {} => m.chan \in mop.chans \/ (mop.word = "HOOK" /\ m.chan \notin Channels)
        texts == IF m.key # "PRIVMSG" THEN {}
                 ELSE {mop \in ToSet(last) : mop.word = "MATCH" /\ mop.key \in m.rx}
                          \cup (IF m.word \in Words THEN FirstDef(Found, m.word[2]) ELSE {})
        ran == Keep(reader.ran, AllOps)
        room == Cardinality({mop \in ToSet(last) : mop.word = "HOOK"}) < Slots
    IN reader.pc = "done" /\ m # None /\ ~overlap =>
           /\ IsInjective(ran)
           /\ ~loaded => ran = <<>>
           /\ loaded => /\ ToSet(ran) \subseteq {mop \in hookable \cup texts : For(mop)}
                        /\ {mop \in texts : For(mop)} \subseteq ToSet(ran)
                        /\ room => {mop \in hookable : For(mop)} \subseteq ToSet(ran)

(***************************************************************************)
(* cmds.c:104-118, hooks.c:61-104: what a command freed is not met again:  *)
(* the IRC thread reads a freed hook or rule, an empty slot or code that   *)
(* is gone only for a message during which the command line was in use.    *)
(***************************************************************************)
FaultsNeedRace == fault \notin {"none", "double free"} => overlap
=============================================================================
