------------------------------- MODULE Louis -------------------------------
(***************************************************************************)
(* louis: extensions in Lua whose functions are run for the messages they  *)
(* are hooked to (louis.c, lualib.c) and for their periodics (periodic.c), *)
(* all in src/modules/louis.                                               *)
(*                                                                         *)
(* Each message starts a thread per hook, and each due periodic one more.  *)
(* The mutex of an extension says which of them runs its functions, and    *)
(* its state holds the message these ask about.  The main thread loads,    *)
(* reloads and unloads the extensions meanwhile.                           *)
(*                                                                         *)
(* To use what was freed, or a Lua state two threads are in, is undefined: *)
(* "fault" ends the behaviour, with the message whose thread did so.  The  *)
(* files of the extensions register hooks and periodics, their functions   *)
(* do not.  The list of periodics is in Periodic.tla, and the lists of     *)
(* hooks in Registry.tla.                                                  *)
(***************************************************************************)
EXTENDS Naturals, FiniteSets, Sequences, SequencesExt

CONSTANTS
    Dirs,       \* what may lie in ext/: sequences of scripts
    Messages,   \* records with a command, key, and the words of its tail
    cmd_prefix, \* the prefixes of commands, in their order
    Calls,      \* the calls of periodics that happen
    Fids,       \* 0..n
    MaxLoads,   \* bounds how often the extensions are loaded
    Main,       \* the main thread
    None

VARIABLES
    dir,       \* the scripts in ext/, read in their order
    exts,      \* the extensions, None for one that is being freed
    hooks,     \* hooks[fid]
    hookc,     \* how many hooks there are
    table,     \* the hooks of louis in the lists of the core: key and fid
    loads,     \* how often the extensions were loaded
    loaded,    \* louis is loaded
    owner,     \* owner[x]: the thread that has the mutex of x
    S,         \* S[x]: the message and fid the functions of x see
    dead,      \* the extensions that were freed
    main,      \* the main thread: pc, what it does, loop indices
    pending,   \* pending[m]: the hooks run_hooks has still to call, None before
    thread,    \* thread[m, fid]: exec_hook's pc, extension and hook
    call,      \* call[k]: call_periodic's pc and extension
    calm,      \* messages that came after what the main thread last did
    fault

vars == <<dir, exts, hooks, hookc, table, loads, loaded, owner, S, dead, main, pending,
          thread, call, calm, fault>>

Extensions == [e : UNION {DOMAIN d : d \in Dirs}, n : 1..MaxLoads]
Scripts == UNION {ToSet(d) : d \in Dirs}
Hooked == UNION {ToSet(s.hooks) : s \in Scripts}

\* The hooks of a directory by script and place, and those before another.
Places(d) == UNION {{<<i, j>> : j \in DOMAIN d[i].hooks} : i \in DOMAIN d}
Before(d, p) == {q \in Places(d) : q[1] < p[1] \/ (q[1] = p[1] /\ q[2] < p[2])}

Keys == {h.key : h \in Hooked}
Hook == [ext : Extensions, key : Keys,
         fname : {h.fname : h \in Hooked}, cmds : {h.cmds : h \in Hooked}]
Threads == Messages \X Fids

ASSUME DirsAssumption ==
    /\ Dirs \subseteq Seq(Scripts) /\ MaxLoads \in Nat
    /\ \A s \in Scripts : s.hooks \in Seq(Hooked) /\ s.timed \in BOOLEAN
    /\ Fids \subseteq Nat /\ \A d \in Dirs : \A f \in 0..(Cardinality(Places(d)) - 1) : f \in Fids

ASSUME PrefixAssumption == cmd_prefix \in Seq(ToSet(cmd_prefix))

ASSUME ThreadsAssumption ==
    /\ Threads \cap Calls = {} /\ Main \notin Threads \cup Calls
    /\ None \notin Threads \cup Calls \cup {Main}
    /\ None \notin Extensions /\ None \notin Hook /\ \A F \in SUBSET Fids : F # None

MainState == [pc : {"idle", "periodics", "take", "lock", "hooks", "unlock", "free", "init", "load", "reg", "set"},
              op : {"load", "unload", "reload"}, x : Extensions \cup {None}, i : Nat, j : Nat]
ThreadState == [pc : {"none", "start", "lock", "locked", "run", "asked", "done"},
                x : Extensions \cup {None}, hk : Hook \cup {None}]
CallState == [pc : {"none", "lock", "run", "done"}, x : Extensions \cup {None}]

TypeOK ==
    /\ dir \in Dirs /\ exts \in Seq(Extensions \cup {None})
    /\ hooks \in [Fids -> Hook \cup {None}] /\ hookc \in Nat
    /\ table \subseteq [key : Keys, fid : Fids]
    /\ loads \in 0..MaxLoads /\ loaded \in BOOLEAN
    /\ owner \in [Extensions -> Threads \cup Calls \cup {Main, None}]
    /\ S \in [Extensions -> Threads \cup {None}]
    /\ dead \subseteq Extensions
    /\ main \in MainState
    /\ pending \in [Messages -> (SUBSET Fids) \cup {None}]
    /\ thread \in [Threads -> ThreadState]
    /\ call \in [Calls -> CallState]
    /\ calm \subseteq Messages
    /\ fault \in [cause : {"none", "closed", "stale", "in use", "unmapped"}, by : Messages \cup {None}]

Idle == [pc |-> "idle", op |-> "load", x |-> None, i |-> 1, j |-> 1]

Init ==
    /\ dir \in Dirs
    /\ exts = <<>> /\ hooks = [f \in Fids |-> None] /\ hookc = 0 /\ table = {}
    /\ loads = 0 /\ loaded = FALSE
    /\ owner = [x \in Extensions |-> None] /\ S = [x \in Extensions |-> None] /\ dead = {}
    /\ main = Idle
    /\ pending = [m \in Messages |-> None]
    /\ thread = [t \in Threads |-> [pc |-> "none", x |-> None, hk |-> None]]
    /\ call = [k \in Calls |-> [pc |-> "none", x |-> None]]
    /\ calm = {} /\ fault = [cause |-> "none", by |-> None]

mainVars == <<dir, exts, hooks, hookc, table, loads, loaded, dead, main>>
Fail(cause, m) == fault' = [cause |-> cause, by |-> m]

-----------------------------------------------------------------------------
(* Messages: to_louis in the IRC threads, exec_hook in a thread of each.   *)

\* Only the first prefix that fits is looked behind.
match_cmds(tail, cmds) ==
    LET fits == {i \in DOMAIN cmd_prefix : tail # None /\ IsPrefix(cmd_prefix[i], tail)}
        prefix == cmd_prefix[CHOOSE i \in fits : \A j \in fits : i <= j]
    IN fits # {} /\ \E c \in ToSet(cmds) :
           tail = prefix \o c \/ IsPrefix(prefix \o c \o <<" ">>, tail)

Receive(m) ==
    /\ pending[m] = None
    /\ pending' = [pending EXCEPT ![m] = {h.fid : h \in {h \in table : h.key = m.key}}]
    /\ calm' = IF main.pc = "idle" /\ loaded THEN calm \cup {m} ELSE calm
    /\ UNCHANGED <<mainVars, owner, S, thread, call, fault>>

to_louis(m, fid) ==
    LET hk == hooks[fid]
        runs == hk # None /\ (hk.cmds # <<>> => match_cmds(m.tail, hk.cmds))
    IN /\ pending[m] # None /\ fid \in pending[m]
       /\ pending' = [pending EXCEPT ![m] = @ \ {fid}]
       /\ IF loaded THEN UNCHANGED fault ELSE Fail("unmapped", m)
       /\ thread' = IF runs THEN [thread EXCEPT ![<<m, fid>>].pc = "start"] ELSE thread
       /\ UNCHANGED <<mainVars, owner, S, call, calm>>

At(t, pc) == thread[t].pc = pc /\ UNCHANGED <<mainVars, pending, call, calm>>

\* exec_hook looks for the mutex of its hook's extension.
Start(t) ==
    LET hk == hooks[t[2]]
    IN /\ At(t, "start") /\ UNCHANGED <<owner, S>>
       /\ IF hk = None THEN Fail("stale", t[1]) /\ UNCHANGED thread
          ELSE thread' = [thread EXCEPT ![t] = [pc |-> "lock", x |-> hk.ext, hk |-> None]] /\ UNCHANGED fault

\* Mutation: the message is put down before the lock.
LockLate(t) ==
    LET x == thread[t].x
    IN /\ At(t, "lock")
       /\ IF x \in dead THEN Fail("stale", t[1]) /\ UNCHANGED <<thread, owner, S>>
          ELSE IF owner[x] # None THEN S[x] # t /\ S' = [S EXCEPT ![x] = t] /\ UNCHANGED <<thread, owner, fault>>
          ELSE /\ owner' = [owner EXCEPT ![x] = t] /\ S' = [S EXCEPT ![x] = t]
               /\ thread' = [thread EXCEPT ![t].pc = "locked"]
               /\ UNCHANGED fault

Lock(t) ==
    LET x == thread[t].x
    IN /\ At(t, "lock") /\ UNCHANGED S
       /\ IF x \in dead THEN Fail("stale", t[1]) /\ UNCHANGED <<thread, owner>>
          ELSE /\ owner[x] = None /\ owner' = [owner EXCEPT ![x] = t]
               /\ thread' = [thread EXCEPT ![t].pc = "locked"]
               /\ UNCHANGED fault

\* The message for the functions, and the hook once more, for its function.
Enter(t) ==
    LET x == thread[t].x
        hk == hooks[t[2]]
    IN /\ At(t, "locked") /\ UNCHANGED owner
       /\ IF x \in dead \/ hk = None THEN Fail("stale", t[1]) /\ UNCHANGED <<thread, S>>
          ELSE IF main.pc \in {"reg", "set"} /\ main.x = hk.ext
               THEN Fail("in use", t[1]) /\ UNCHANGED <<thread, S>>
          ELSE /\ S' = [S EXCEPT ![x] = t]
               /\ thread' = [thread EXCEPT ![t].pc = "run", ![t].hk = hk]
               /\ UNCHANGED fault

\* A function asks for its message, or sends one: get_ext looks through the
\* extensions up to its own.
Ask(t) ==
    LET x == thread[t].hk.ext
        own == {i \in DOMAIN exts : exts[i] = x}
    IN /\ At(t, "run") /\ UNCHANGED <<owner, S>>
       /\ IF x \in dead \/ \A i \in own : \E j \in 1..i : exts[j] = None
            THEN Fail("stale", t[1]) /\ UNCHANGED thread
            ELSE thread' = [thread EXCEPT ![t].pc = "asked"] /\ UNCHANGED fault

\* The function returned, with an error or without.
Unlock(t) ==
    LET x == thread[t].hk.ext
    IN /\ At(t, "asked") /\ UNCHANGED S
       /\ IF x \in dead THEN Fail("stale", t[1]) /\ UNCHANGED <<thread, owner>>
          ELSE /\ owner' = [owner EXCEPT ![x] = None]
               /\ thread' = [thread EXCEPT ![t] = [@ EXCEPT !.pc = "done", !.x = None, !.hk = None]]
               /\ UNCHANGED fault

\* The code of a thread is gone once louis is unloaded.
Unmapped(t) ==
    /\ thread[t].pc \notin {"none", "done"} /\ ~loaded /\ Fail("unmapped", t[1])
    /\ UNCHANGED <<mainVars, pending, thread, owner, S, call, calm>>

exec_hook(t) == (loaded /\ (Start(t) \/ Lock(t) \/ Enter(t) \/ Ask(t) \/ Unlock(t))) \/ Unmapped(t)

-----------------------------------------------------------------------------
(* Periodics.                                                              *)

run_periodic(k, x) ==
    /\ call[k].pc = "none" /\ main.pc = "idle" /\ x \in ToSet(exts) /\ dir[x.e].timed
    /\ call' = [call EXCEPT ![k] = [pc |-> "lock", x |-> x]]
    /\ UNCHANGED <<mainVars, owner, S, pending, thread, calm, fault>>

\* Mutation: the function is called without the mutex.
CallUnlocked(k) ==
    /\ \/ call[k].pc = "lock" /\ call' = [call EXCEPT ![k].pc = "run"]
       \/ call[k].pc = "run" /\ call' = [call EXCEPT ![k].pc = "done"]
    /\ UNCHANGED <<mainVars, S, owner, pending, thread, calm, fault>>

call_periodic(k) ==
    LET x == call[k].x
    IN /\ \/ /\ call[k].pc = "lock" /\ owner[x] = None
             /\ owner' = [owner EXCEPT ![x] = k]
             /\ call' = [call EXCEPT ![k].pc = "run"]
          \/ /\ call[k].pc = "run"
             /\ owner' = [owner EXCEPT ![x] = None]
             /\ call' = [call EXCEPT ![k].pc = "done"]
       /\ UNCHANGED <<mainVars, S, pending, thread, calm, fault>>

-----------------------------------------------------------------------------
(* The main thread: init_louis, free_louis and reload_louis.               *)

others == <<dir, pending, thread, call>>
Goto(pc) == main' = [main EXCEPT !.pc = pc]

Command(op) ==
    /\ main.pc = "idle" /\ loaded = (op # "load") /\ (op # "unload" => loads < MaxLoads)
    /\ main' = [main EXCEPT !.op = op, !.i = 1, !.pc = IF op = "load" THEN "init" ELSE "periodics"]
    /\ calm' = {} /\ loaded' = TRUE
    /\ UNCHANGED <<others, exts, hooks, hookc, table, loads, dead, owner, S, fault>>

\* destroy_periodics closes the Lua state of each periodic, destroys the
\* mutex it holds, and free_ext would lock that mutex.
DestroyPeriodics ==
    /\ main.pc = "periodics" /\ Goto("take")
    /\ LET timed == {x \in ToSet(exts) : dir[x.e].timed}
       IN IF timed = {} THEN UNCHANGED fault
          ELSE (\E x \in timed : owner[x] = None) /\ Fail("closed", None)
    /\ UNCHANGED <<others, exts, hooks, hookc, table, loads, loaded, dead, owner, S, calm>>

\* Mutation: the counts of extensions and hooks are not set back.
TakeKeepsCounts ==
    /\ main.pc = "take"
    /\ IF main.i <= Len(exts)
         THEN /\ main' = [main EXCEPT !.pc = "lock", !.x = exts[main.i]]
              /\ exts' = [exts EXCEPT ![main.i] = None]
              /\ UNCHANGED loaded
         ELSE /\ main' = IF main.op = "unload" THEN Idle ELSE [main EXCEPT !.pc = "init"]
              /\ loaded' = (main.op # "unload") /\ UNCHANGED exts
    /\ UNCHANGED <<others, hooks, hookc, table, loads, dead, owner, S, calm, fault>>

\* free_louis, for one extension after the other.
TakeExt ==
    /\ main.pc = "take"
    /\ IF main.i <= Len(exts)
         THEN /\ main' = [main EXCEPT !.pc = "lock", !.x = exts[main.i]]
              /\ exts' = [exts EXCEPT ![main.i] = None]
              /\ UNCHANGED <<hookc, loaded>>
         ELSE /\ main' = IF main.op = "unload" THEN Idle ELSE [main EXCEPT !.pc = "init"]
              /\ exts' = <<>> /\ hookc' = 0 /\ loaded' = (main.op # "unload")
    /\ UNCHANGED <<others, hooks, table, loads, dead, owner, S, calm, fault>>

LockExt ==
    /\ main.pc = "lock" /\ owner[main.x] = None /\ Goto("hooks")
    /\ owner' = [owner EXCEPT ![main.x] = Main]
    /\ UNCHANGED <<others, exts, hooks, hookc, table, loads, loaded, dead, S, calm, fault>>

\* lua_close, and the hooks leave the array and the lists of the core.
FreeHooks ==
    LET gone == {f \in Fids : hooks[f] # None /\ hooks[f].ext = main.x}
    IN /\ main.pc = "hooks" /\ Goto("unlock")
       /\ hooks' = [f \in Fids |-> IF f \in gone THEN None ELSE hooks[f]]
       /\ table' = {h \in table : h.fid \notin gone}
       /\ S' = [S EXCEPT ![main.x] = None]
       /\ UNCHANGED <<others, exts, hookc, loads, loaded, dead, owner, calm, fault>>

UnlockExt ==
    /\ main.pc = "unlock" /\ Goto("free")
    /\ owner' = [owner EXCEPT ![main.x] = None]
    /\ UNCHANGED <<others, exts, hooks, hookc, table, loads, loaded, dead, S, calm, fault>>

FreeExt ==
    /\ main.pc = "free" /\ main' = [main EXCEPT !.pc = "take", !.x = None, !.i = @ + 1]
    /\ dead' = dead \cup {main.x}
    /\ UNCHANGED <<others, exts, hooks, hookc, table, loads, loaded, owner, S, calm, fault>>

\* init_louis: new arrays, and the scripts of a directory that may have
\* changed.
init_louis ==
    /\ main.pc = "init" /\ main' = [main EXCEPT !.pc = "load", !.i = 1]
    /\ dir' \in Dirs /\ loads' = loads + 1
    /\ exts' = [i \in DOMAIN exts |-> None] /\ hooks' = [f \in Fids |-> None]
    /\ UNCHANGED <<pending, thread, call, hookc, table, loaded, dead, owner, S, calm, fault>>

\* Mutation: an extension is put over the one before.
LoadOver ==
    LET x == [e |-> main.i, n |-> loads]
    IN /\ main.pc = "load"
       /\ IF main.i > Len(dir) THEN main' = Idle /\ UNCHANGED exts
          ELSE main' = [main EXCEPT !.pc = "reg", !.x = x, !.j = 1] /\ exts' = <<x>>
       /\ UNCHANGED <<others, hooks, hookc, table, loads, loaded, dead, owner, S, calm, fault>>

load_ext ==
    LET x == [e |-> main.i, n |-> loads]
    IN /\ main.pc = "load"
       /\ IF main.i > Len(dir) THEN main' = Idle /\ UNCHANGED exts
          ELSE main' = [main EXCEPT !.pc = "reg", !.x = x, !.j = 1] /\ exts' = Append(exts, x)
       /\ UNCHANGED <<others, hooks, hookc, table, loads, loaded, dead, owner, S, calm, fault>>

\* Mutation: the count of hooks is not raised.
RegisterSameFid ==
    LET todo == dir[main.x.e].hooks
    IN /\ main.pc = "reg"
       /\ IF main.j > Len(todo)
            THEN main' = [main EXCEPT !.pc = "load", !.i = @ + 1] /\ UNCHANGED <<hookc, table>>
            ELSE /\ Goto("set") /\ hookc' = 1
                 /\ table' = table \cup {[key |-> todo[main.j].key, fid |-> 0]}
       /\ UNCHANGED <<others, exts, hooks, loads, loaded, dead, owner, S, calm, fault>>

\* l_register_hook, called by the script: the core has the hook before the
\* array has.
l_register_hook ==
    LET todo == dir[main.x.e].hooks
    IN /\ main.pc = "reg"
       /\ IF main.j > Len(todo)
            THEN main' = [main EXCEPT !.pc = "load", !.i = @ + 1] /\ UNCHANGED <<hookc, table>>
            ELSE /\ Goto("set") /\ hookc' = hookc + 1
                 /\ table' = table \cup {[key |-> todo[main.j].key, fid |-> hookc]}
       /\ UNCHANGED <<others, exts, hooks, loads, loaded, dead, owner, S, calm, fault>>

SetHook ==
    LET h == dir[main.x.e].hooks[main.j]
    IN /\ main.pc = "set" /\ main' = [main EXCEPT !.pc = "reg", !.j = @ + 1]
       /\ hooks' = [hooks EXCEPT ![hookc - 1] =
                       [ext |-> main.x, key |-> h.key, fname |-> h.fname, cmds |-> h.cmds]]
       /\ UNCHANGED <<others, exts, hookc, table, loads, loaded, dead, owner, S, calm, fault>>

MainStep == \/ DestroyPeriodics \/ TakeExt \/ LockExt \/ FreeHooks \/ UnlockExt \/ FreeExt
            \/ init_louis \/ load_ext \/ l_register_hook \/ SetHook

Ok == fault.cause = "none"

Next == /\ Ok
        /\ \/ MainStep
           \/ \E op \in {"load", "unload", "reload"} : Command(op)
           \/ \E m \in Messages : Receive(m)
           \/ \E t \in Threads : to_louis(t[1], t[2]) \/ exec_hook(t)
           \/ \E k \in Calls : call_periodic(k) \/ \E x \in Extensions : run_periodic(k, x)

Spec == Init /\ [][Next]_vars

\* Threads are scheduled, and functions of extensions return.
FairSpec == /\ Spec /\ WF_vars(Ok /\ MainStep)
            /\ \A t \in Threads : WF_vars(Ok /\ to_louis(t[1], t[2])) /\ WF_vars(Ok /\ exec_hook(t))
            /\ \A k \in Calls : WF_vars(Ok /\ call_periodic(k))

-----------------------------------------------------------------------------
(***************************************************************************)
(* louis.c:123, 240, periodic.c:162: the Lua state of an extension is used *)
(* by one thread at a time, whether for a message, for a periodic or to    *)
(* close it.                                                               *)
(***************************************************************************)
OneAtATime ==
    Ok => \A x \in Extensions :
              Cardinality({t \in Threads : thread[t].pc \in {"run", "asked"} /\ thread[t].hk.ext = x}
                              \cup {k \in Calls : call[k].pc = "run" /\ call[k].x = x}
                              \cup {y \in {Main} : main.pc = "hooks" /\ main.x = x}) <= 1

\* The hook the scripts register after fid others.
Registered(fid) ==
    LET p == CHOOSE p \in Places(dir) : Cardinality(Before(dir, p)) = fid
    IN dir[p[1]].hooks[p[2]]

Named(tail, cmds) ==
    \E p \in ToSet(cmd_prefix), c \in ToSet(cmds) :
        tail = p \o c \/ (tail # None /\ IsPrefix(p \o c \o <<" ">>, tail))

(***************************************************************************)
(* README:126-143: a function that runs is the one that was registered for *)
(* the command and, if it names any, one of the words of its message, and  *)
(* the message its extension has for it is that one, although others of    *)
(* the extension wait for their turn.                                      *)
(***************************************************************************)
SeesItsMessage ==
    Ok => \A t \in Threads :
              thread[t].pc \in {"run", "asked"} /\ t[1] \in calm =>
                  LET hk == thread[t].hk
                      said == Registered(t[2])
                  IN /\ S[hk.ext] = t
                     /\ hk.fname = said.fname /\ said.key = t[1].key
                     /\ said.cmds # <<>> => Named(t[1].tail, said.cmds)

(***************************************************************************)
(* louis.c:93-163: what a reload frees is used only by a thread of a       *)
(* message that came before it was over.                                   *)
(***************************************************************************)
FaultsNeedReload == fault.cause \in {"none", "closed"} \/ fault.by \notin calm

(***************************************************************************)
(* README:126-133: each function that is hooked to a message is run for it *)
(* in the end, unless louis is loaded anew or unloaded meanwhile.          *)
(***************************************************************************)
Due(t) == /\ t[2] < Cardinality(Places(dir)) /\ Registered(t[2]).key = t[1].key
          /\ LET cmds == Registered(t[2]).cmds IN cmds # <<>> => Named(t[1].tail, cmds)

EveryMessageRuns ==
    \A m \in Messages :
        m \in calm ~> \/ m \notin calm \/ ~Ok
                     \/ \A f \in Fids : Due(<<m, f>>) => thread[m, f].pc = "done"
=============================================================================
