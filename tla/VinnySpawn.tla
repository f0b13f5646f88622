----------------------------- MODULE VinnySpawn -----------------------------
(* The life of one struct ircmsg in vinny, from to_vinny in an IRC thread   *)
(* through the programs spawn_mod starts for it, the mod_watcher thread of  *)
(* each, and the SIGCHLD handler that cleans up after them.                 *)
(*                                                                          *)
(* Each p in Procs stands for one call of spawn_mod: the child process, its *)
(* watcher thread, its struct vinny_module and its mod_entry.  A use of     *)
(* freed memory is undefined behaviour: the program aborts or carries on    *)
(* with the stale contents.  Blocks are not reused, and neither are process *)
(* and thread identifiers.                                                  *)
EXTENDS FiniteSets, Naturals

CONSTANTS Handlers,    \* IRC threads, which run to_vinny
          Procs,       \* the calls of spawn_mod
          Messages,    \* the IRC messages received
          Cli,         \* the main thread, in read_cli
          SigThreads,  \* the threads the kernel may deliver SIGCHLD to
          NoThread, NoProc, NoMsg

Threads == Handlers \cup Procs \cup {Cli}

ASSUME ThreadsAssumption ==
         /\ Handlers \cap Procs = {} /\ Cli \notin Handlers \cup Procs
         /\ SigThreads \subseteq Threads
         /\ NoThread \notin Threads /\ NoProc \notin Procs
         /\ NoMsg \notin Messages
         /\ IsFiniteSet(Procs) /\ IsFiniteSet(Threads)

VARIABLES
  pc,       \* pc[t]: where thread t is
  cur,      \* cur[t]: the message t works on
  slot,     \* slot[h]: the call of spawn_mod that handler h is in
  mem,      \* mem[m]: the struct ircmsg of m
  done,     \* done[m]: its spawning_done
  holders,  \* holders[m]: its list of holders
  child,    \* child[p]: the process, "nofork" when fork() returned -1
  vmod,     \* vmod[p]: the struct vinny_module
  mhead,    \* the entries in the list of running modules
  owner,    \* the owner of mod_mtx
  pending,  \* a SIGCHLD waits for delivery (further ones coalesce with it)
  spc,      \* spc[t]: where t is in sigchld_handler, "none" when not in it
  spid,     \* spid[t]: the process t's wait() returned
  robbed,   \* history: the calls of spawn_mod whose mod_mtx the handler gave back
  crashed   \* undefined behaviour has stopped the program

msgVars  == <<mem, done, holders>>
modVars  == <<child, vmod, mhead, owner>>
sigVars  == <<pending, spc, spid, robbed>>
vars == <<pc, cur, slot, msgVars, modVars, sigVars, crashed>>

Holding    == {"locked", "forked", "created", "registered"}
InSpawnMod == {"locking"} \cup Holding
Spawning   == {"spawning"} \cup InSpawnMod
Watching   == {"start", "use"}

PC == Spawning \cup Watching
        \cup {"idle", "ftest", "ffree", "unborn", "unreg", "fcheck", "exit", "dead", "cli"}

TypeOK ==
  /\ pc \in [Threads -> PC]
  /\ cur \in [Threads -> Messages \cup {NoMsg}]
  /\ slot \in [Handlers -> Procs \cup {NoProc}]
  /\ mem \in [Messages -> {"none", "live", "freed"}]
  /\ done \in [Messages -> BOOLEAN]
  /\ holders \in [Messages -> SUBSET Procs]
  /\ child \in [Procs -> {"none", "running", "zombie", "reaped", "nofork"}]
  /\ vmod \in [Procs -> {"none", "live", "freed"}]
  /\ mhead \in SUBSET Procs
  /\ owner \in Threads \cup {NoThread}
  /\ pending \in BOOLEAN
  /\ spc \in [Threads -> {"none", "wait", "lock", "stuck"}]
  /\ spid \in [Threads -> Procs \cup {NoProc}]
  /\ robbed \in SUBSET Procs
  /\ crashed \in BOOLEAN

Init ==
  /\ pc = [t \in Threads |-> IF t \in Handlers THEN "idle"
                             ELSE IF t \in Procs THEN "unborn" ELSE "cli"]
  /\ cur = [t \in Threads |-> NoMsg]
  /\ slot = [h \in Handlers |-> NoProc]
  /\ mem = [m \in Messages |-> "none"]
  /\ done = [m \in Messages |-> FALSE]
  /\ holders = [m \in Messages |-> {}]
  /\ child = [p \in Procs |-> "none"]
  /\ vmod = [p \in Procs |-> "none"]
  /\ mhead = {}
  /\ owner = NoThread
  /\ pending = FALSE
  /\ spc = [t \in Threads |-> "none"]
  /\ spid = [t \in Threads |-> NoProc]
  /\ robbed = {}
  /\ crashed = FALSE

(* A thread runs its own code only while it is not in the signal handler.   *)
At(t, where) == ~crashed /\ spc[t] = "none" /\ pc[t] = where
Goto(t, where) == pc' = [pc EXCEPT ![t] = where]

(* An access to a block: undefined when the block has been freed.           *)
Touch(state) == crashed' \in IF state = "freed" THEN BOOLEAN ELSE {FALSE}

(* pthread_mutex_unlock by a thread that is not the owner has no effect.    *)
Unlock(t) == owner' = IF owner = t THEN NoThread ELSE owner
-----------------------------------------------------------------------------
(* to_vinny, lines 37-50: a private message or a hooked command arrives.    *)
ToVinny(h, m) ==
  /\ At(h, "idle") /\ mem[m] = "none"
  /\ mem' = [mem EXCEPT ![m] = "live"]
  /\ done' = [done EXCEPT ![m] = FALSE]
  /\ holders' = [holders EXCEPT ![m] = {}]
  /\ cur' = [cur EXCEPT ![h] = m]
  /\ Goto(h, "spawning")
  /\ UNCHANGED <<slot, modVars, sigVars, crashed>>

(* spawn_cmd, spawn_rgx or spawn_hook found a match and calls spawn_mod.    *)
SpawnMod(h, p) ==
  /\ At(h, "spawning")
  /\ vmod[p] = "none" /\ \A g \in Handlers : slot[g] # p
  /\ slot' = [slot EXCEPT ![h] = p]
  /\ Goto(h, "locking")
  /\ UNCHANGED <<cur, msgVars, modVars, sigVars, crashed>>

(* spawn_mod, lines 44-60.                                                  *)
LockMods(h) ==
  /\ At(h, "locking") /\ owner = NoThread
  /\ owner' = h
  /\ vmod' = [vmod EXCEPT ![slot[h]] = "live"]
  /\ Goto(h, "locked")
  /\ UNCHANGED <<cur, slot, msgVars, child, mhead, sigVars, crashed>>

(* Mutation: the failure path returns without unlocking mod_mtx.            *)
SpawnModFailLocked(h) ==
  /\ vmod' = [vmod EXCEPT ![slot[h]] = "freed"]
  /\ slot' = [slot EXCEPT ![h] = NoProc]
  /\ Goto(h, "spawning")
  /\ UNCHANGED <<cur, msgVars, child, mhead, owner, sigVars, crashed>>

(* The label spawn_mod_fail: the program starts nothing.                    *)
SpawnModFail(h) ==
  /\ vmod' = [vmod EXCEPT ![slot[h]] = "freed"]
  /\ slot' = [slot EXCEPT ![h] = NoProc]
  /\ Unlock(h)
  /\ Goto(h, "spawning")
  /\ UNCHANGED <<cur, msgVars, child, mhead, sigVars, crashed>>

(* access() finds no executable file.                                       *)
AccessFails(h) == At(h, "locked") /\ SpawnModFail(h)

(* fork(), whose result -1 the code does not tell from a child.             *)
Fork(h) ==
  /\ At(h, "locked")
  /\ \E result \in {"running", "nofork"} :
        child' = [child EXCEPT ![slot[h]] = result]
  /\ Goto(h, "forked")
  /\ UNCHANGED <<cur, slot, msgVars, vmod, mhead, owner, sigVars, crashed>>

(* pthread_create fails: the child stays behind, unwatched and unlisted.    *)
CreateFails(h) == At(h, "forked") /\ SpawnModFail(h)

(* Mutation: mod_mtx is given back once the watcher runs.                   *)
CreateWatcherUnlocked(h) ==
  /\ At(h, "forked")
  /\ pc' = [pc EXCEPT ![h] = "created", ![slot[h]] = "start"]
  /\ cur' = [cur EXCEPT ![slot[h]] = cur[h]]
  /\ Unlock(h)
  /\ UNCHANGED <<slot, msgVars, child, vmod, mhead, sigVars, crashed>>

(* pthread_create: the watcher exists, and nothing knows of it yet.         *)
CreateWatcher(h) ==
  /\ At(h, "forked")
  /\ pc' = [pc EXCEPT ![h] = "created", ![slot[h]] = "start"]
  /\ cur' = [cur EXCEPT ![slot[h]] = cur[h]]
  /\ UNCHANGED <<slot, msgVars, modVars, sigVars, crashed>>

(* Mutation: the new watcher is not registered as a holder.                 *)
RegisterNobody(h) ==
  /\ At(h, "created")
  /\ Touch(mem[cur[h]])
  /\ Goto(h, "registered")
  /\ UNCHANGED <<cur, slot, msgVars, modVars, sigVars>>

(* register_msg_holder, called by the spawner for the new watcher.          *)
RegisterMsgHolder(h) ==
  /\ At(h, "created")
  /\ holders' = [holders EXCEPT ![cur[h]] = @ \cup {slot[h]}]
  /\ Touch(mem[cur[h]])
  /\ Goto(h, "registered")
  /\ UNCHANGED <<cur, slot, mem, done, modVars, sigVars>>

(* Mutation: the entry is inserted before its process is filled in.         *)
InsertModUnset(h) ==
  /\ At(h, "registered")
  /\ slot' = [slot EXCEPT ![h] = NoProc]
  /\ mhead' = mhead \cup {slot'[h]}
  /\ Unlock(h)
  /\ Goto(h, "spawning")
  /\ UNCHANGED <<cur, msgVars, child, vmod, sigVars, crashed>>

(* insert_mod and the unlock at spawn_mod_success.                          *)
InsertMod(h) ==
  /\ At(h, "registered")
  /\ mhead' = mhead \cup {slot[h]}
  /\ slot' = [slot EXCEPT ![h] = NoProc]
  /\ Unlock(h)
  /\ Goto(h, "spawning")
  /\ UNCHANGED <<cur, msgVars, child, vmod, sigVars, crashed>>

(* Mutation: to_vinny leaves the message to the watchers.                   *)
SpawningDoneNoFree(h) ==
  /\ At(h, "spawning")
  /\ done' = [done EXCEPT ![cur[h]] = TRUE]
  /\ Touch(mem[cur[h]])
  /\ pc' = [pc EXCEPT ![h] = "idle"] /\ cur' = [cur EXCEPT ![h] = NoMsg]
  /\ UNCHANGED <<slot, mem, holders, modVars, sigVars>>

(* to_vinny, lines 72-73, and line 184 of free_msg_if_not_used.             *)
SpawningDone(h) ==
  /\ At(h, "spawning")
  /\ done' = [done EXCEPT ![cur[h]] = TRUE]
  /\ Touch(mem[cur[h]])
  /\ Goto(h, "ftest")
  /\ UNCHANGED <<cur, slot, mem, holders, modVars, sigVars>>

(* free_msg_if_not_used, lines 187-200: the list is read under holder_mtx   *)
(* and the mutex is given back before the message is freed.                 *)
Return(t) == /\ Goto(t, IF t \in Handlers THEN "idle" ELSE "exit")
             /\ cur' = [cur EXCEPT ![t] = NoMsg]

(* Mutation: the list of holders is not looked at.                          *)
TestNothing(t) ==
  /\ At(t, "ftest") /\ Goto(t, "ffree")
  /\ Touch(mem[cur[t]])
  /\ UNCHANGED <<cur, slot, msgVars, modVars, sigVars>>

TestHolders(t) ==
  /\ At(t, "ftest")
  /\ IF holders[cur[t]] = {} THEN Goto(t, "ffree") /\ UNCHANGED cur
                             ELSE Return(t)
  /\ Touch(mem[cur[t]])
  /\ UNCHANGED <<slot, msgVars, modVars, sigVars>>

FreeMsg(t) ==
  /\ At(t, "ffree")
  /\ mem' = [mem EXCEPT ![cur[t]] = "freed"]
  /\ Touch(mem[cur[t]])
  /\ Return(t)
  /\ UNCHANGED <<slot, done, holders, modVars, sigVars>>
-----------------------------------------------------------------------------
(* mod_watcher, lines 14-44: *vmodp is copied, the message is looked at.    *)
WatcherStart(p) ==
  /\ At(p, "start")
  /\ Touch(IF mem[cur[p]] = "freed" THEN "freed" ELSE vmod[p])
  /\ Goto(p, "use")
  /\ UNCHANGED <<cur, slot, msgVars, modVars, sigVars>>

(* The end of the loop, lines 48-82: the lines read were given to           *)
(* process_op together with the message.                                    *)
LeaveLoop(p) ==
  /\ At(p, "use") /\ Goto(p, "unreg")
  /\ UNCHANGED <<cur, slot, msgVars, modVars, sigVars, crashed>>

(* getc returns EOF once the child, which has the other end, is gone.       *)
WatcherEof(p) == child[p] \in {"zombie", "reaped", "nofork"} /\ LeaveLoop(p)

(* line 49: getc's result is kept in a char, and the byte 0xFF of a program *)
(* that is still at work is taken for EOF.                                  *)
WatcherTakesByteForEof(p) == child[p] = "running" /\ LeaveLoop(p)

(* unregister_msg_holder, lines 164-175.                                    *)
UnregisterMsgHolder(p) ==
  /\ At(p, "unreg")
  /\ holders' = [holders EXCEPT ![cur[p]] = @ \ {p}]
  /\ Touch(mem[cur[p]])
  /\ Goto(p, "fcheck")
  /\ UNCHANGED <<cur, slot, mem, done, modVars, sigVars>>

(* free_msg_if_not_used, lines 184-185: spawning_done is read unlocked.     *)
FreeCheck(p) ==
  /\ At(p, "fcheck")
  /\ IF done[cur[p]] THEN Goto(p, "ftest") /\ UNCHANGED cur ELSE Return(p)
  /\ Touch(mem[cur[p]])
  /\ UNCHANGED <<slot, msgVars, modVars, sigVars>>

(* mod_watcher, lines 86-90: the watcher frees the module it was given.     *)
WatcherExit(p) ==
  /\ At(p, "exit")
  /\ vmod' = [vmod EXCEPT ![p] = "freed"]
  /\ Touch(vmod[p])
  /\ Goto(p, "dead")
  /\ UNCHANGED <<cur, slot, msgVars, child, mhead, owner, sigVars>>
-----------------------------------------------------------------------------
(* A child exits, and the kernel raises SIGCHLD.                            *)
ChildExit(p) ==
  /\ ~crashed /\ child[p] = "running"
  /\ child' = [child EXCEPT ![p] = "zombie"]
  /\ pending' = TRUE
  /\ UNCHANGED <<pc, cur, slot, msgVars, vmod, mhead, owner, spc, spid, robbed, crashed>>

(* The signal interrupts a thread, anywhere in its own code.                *)
SigChld(t) ==
  /\ ~crashed /\ pending /\ spc[t] = "none" /\ pc[t] \notin {"unborn", "dead"}
  /\ pending' = FALSE
  /\ spc' = [spc EXCEPT ![t] = "wait"]
  /\ UNCHANGED <<pc, cur, slot, msgVars, modVars, spid, robbed, crashed>>

(* Mutation: the handler reaps every child that has exited.                 *)
SigWaitAll(t) ==
  /\ ~crashed /\ spc[t] = "wait"
  /\ \E p \in Procs :
        /\ child[p] = "zombie"
        /\ child' = [q \in Procs |-> IF child[q] = "zombie" THEN "reaped" ELSE child[q]]
        /\ spid' = [spid EXCEPT ![t] = p]
  /\ spc' = [spc EXCEPT ![t] = "lock"]
  /\ UNCHANGED <<pc, cur, slot, msgVars, vmod, mhead, owner, pending, robbed, crashed>>

(* wait() in sigchld_handler: one child per signal.  It blocks when no      *)
(* child has exited.                                                        *)
SigWait(t) ==
  /\ ~crashed /\ spc[t] = "wait"
  /\ \E p \in Procs :
        /\ child[p] = "zombie"
        /\ child' = [child EXCEPT ![p] = "reaped"]
        /\ spid' = [spid EXCEPT ![t] = p]
  /\ spc' = [spc EXCEPT ![t] = "lock"]
  /\ UNCHANGED <<pc, cur, slot, msgVars, vmod, mhead, owner, pending, robbed, crashed>>

(* Mutation: cleanup_mod walks the list without taking mod_mtx.             *)
CleanupModUnlocked(t) ==
  /\ ~crashed /\ spc[t] = "lock"
  /\ IF spid[t] \in mhead
       THEN /\ mhead' = mhead \ {spid[t]}
            /\ vmod' = [vmod EXCEPT ![spid[t]] = "freed"]
            /\ Touch(vmod[spid[t]])
       ELSE UNCHANGED <<mhead, vmod, crashed>>
  /\ spc' = [spc EXCEPT ![t] = "none"]
  /\ spid' = [spid EXCEPT ![t] = NoProc]
  /\ UNCHANGED <<pc, cur, slot, msgVars, child, owner, pending, robbed>>

(* cleanup_mod and remove_mod in the handler: the entries up to the one     *)
(* that matches are read, each with its struct vinny_module.  When the      *)
(* interrupted thread is the owner, the lock fails with EDEADLK (an         *)
(* error-checking mutex, the default type on FreeBSD), the code goes on,    *)
(* and its unlock is the one the interrupted spawn_mod was counting on.     *)
CleanupMod(t) ==
  /\ ~crashed /\ spc[t] = "lock" /\ owner \in {NoThread, t}
  /\ IF spid[t] \in mhead
       THEN /\ mhead' = mhead \ {spid[t]}
            /\ vmod' = [vmod EXCEPT ![spid[t]] = "freed"]
       ELSE UNCHANGED <<mhead, vmod>>
  /\ Touch(IF \E p \in mhead : vmod[p] = "freed" THEN "freed" ELSE "live")
  /\ owner' = NoThread
  /\ robbed' = IF owner = t THEN robbed \cup {slot[t]} ELSE robbed
  /\ spc' = [spc EXCEPT ![t] = "none"]
  /\ spid' = [spid EXCEPT ![t] = NoProc]
  /\ UNCHANGED <<pc, cur, slot, msgVars, child, pending>>

(* With a plain mutex the second lock never returns.                        *)
RelockForever(t) ==
  /\ ~crashed /\ spc[t] = "lock" /\ owner = t
  /\ spc' = [spc EXCEPT ![t] = "stuck"]
  /\ UNCHANGED <<pc, cur, slot, msgVars, modVars, pending, spid, robbed, crashed>>
-----------------------------------------------------------------------------
SpawnStep(h) == \/ \E p \in Procs : SpawnMod(h, p)
                \/ LockMods(h) \/ AccessFails(h) \/ Fork(h) \/ CreateFails(h)
                \/ CreateWatcher(h) \/ RegisterMsgHolder(h) \/ InsertMod(h)

HandlerStep(h) == \/ SpawnStep(h) \/ SpawningDone(h)
                  \/ TestHolders(h) \/ FreeMsg(h)

WatcherStep(p) == \/ WatcherStart(p) \/ WatcherEof(p)
                  \/ UnregisterMsgHolder(p) \/ FreeCheck(p)
                  \/ TestHolders(p) \/ FreeMsg(p) \/ WatcherExit(p)

SignalStep(t) == SigWait(t) \/ CleanupMod(t) \/ RelockForever(t)

Next == \/ \E h \in Handlers : HandlerStep(h) \/ \E m \in Messages : ToVinny(h, m)
        \/ \E p \in Procs : WatcherStep(p) \/ WatcherTakesByteForEof(p) \/ ChildExit(p)
        \/ \E t \in SigThreads : SigChld(t)
        \/ \E t \in Threads : SignalStep(t)

Spec == Init /\ [][Next]_vars

(* The scheduler runs every thread that can run, and a pending signal is    *)
(* delivered.  Nothing obliges the network to send, or a child to exit or   *)
(* to write the byte 0xFF.                                                  *)
Fairness == /\ \A h \in Handlers : WF_vars(HandlerStep(h))
            /\ \A p \in Procs : WF_vars(WatcherStep(p))
            /\ \A t \in Threads : WF_vars(SignalStep(t))
            /\ WF_vars(\E t \in SigThreads : SigChld(t))

FairSpec == Spec /\ Fairness
-----------------------------------------------------------------------------
UsersOf(m) == {t \in Handlers : cur[t] = m /\ pc[t] \in Spawning}
              \cup {p \in Procs : cur[p] = m /\ pc[p] \in Watching}

(* vinny.c:181: the message is not freed under the IRC thread that is       *)
(* still spawning for it, nor under a watcher that still hands it to        *)
(* process_op, although the watcher runs before it is registered.           *)
UsersHoldLiveMessage == \A m \in Messages : UsersOf(m) # {} => mem[m] = "live"

(* The whole of to_vinny, its watchers and free_msg_if_not_used implement   *)
(* the promise of MsgLife: a last user leaves, then the message is freed.   *)
Life == INSTANCE MsgLife WITH Users <- Handlers \cup Procs,
                              users <- [m \in Messages |-> UsersOf(m)]
LifeSpec == Life!Spec

(* vini.c:289: wait() has no WNOHANG, yet the handler never blocks in it:   *)
(* the signals on their way never outnumber the children to be reaped.      *)
WaitNeverBlocks ==
  Cardinality({t \in Threads : spc[t] = "wait"}) + (IF pending THEN 1 ELSE 0)
    <= Cardinality({p \in Procs : child[p] = "zombie"})

(* mods.c:44: a thread between its lock and its unlock in spawn_mod owns    *)
(* mod_mtx.  The handler can break this only by interrupting the owner      *)
(* itself, and only for that call of spawn_mod: whoever takes the mutex     *)
(* that the handler gave back keeps it, the unlock of the robbed call       *)
(* included.                                                                *)
SpawnerOwnsLock ==
  \A h \in Handlers : pc[h] \in Holding /\ slot[h] \notin robbed => owner = h

(* mods.c:190: a child may exit before its entry is inserted, and still no  *)
(* entry outlives the cleanup of its process: the handler waits for mod_mtx,*)
(* unless it interrupted the very call of spawn_mod that starts the child.  *)
ReapedIsUnlisted ==
  \A p \in Procs \ robbed :
     child[p] = "reaped" /\ (\A t \in Threads : spid[t] # p) => p \notin mhead

(* The handler of a thread waits for a mutex the thread itself holds.       *)
Deadlocked == \E t \in Threads : spc[t] = "stuck"

(* A watcher that was registered (mods.c:109) after it had unregistered is  *)
(* a holder for ever.                                                       *)
Leaked(m) == \E p \in holders[m] : pc[p] = "dead"

(* vinny.c:184-189: once the spawner has let go of a message, the message   *)
(* is freed unless a program that serves it runs on; two more outcomes of   *)
(* the code are named: the leak of mods.c:109, and the handler that locks   *)
(* mod_mtx in its owner.                                                    *)
NoLostFree ==
  \A m \in Messages :
    done[m] ~> \/ mem[m] = "freed" \/ Leaked(m) \/ Deadlocked \/ crashed
               \/ \E p \in holders[m] : child[p] = "running"

(* README:31: vinny is asynchronous, an IRC thread comes back from to_vinny *)
(* whatever the programs do that it started, on any thread the signal may   *)
(* interrupt; only a handler that relocks the mutex of its own thread       *)
(* (mods.c:192, where the mutex does not check for that) can keep it.       *)
ToVinnyReturns ==
  \A h \in Handlers :
    (pc[h] # "idle") ~> (pc[h] = "idle" \/ Deadlocked \/ crashed)

(* mods.c:186: "Cleanup mod watching pid.  Will be called on sigchld".      *)
ExitedModIsCleaned ==
  \A p \in Procs : (child[p] = "zombie" /\ p \in mhead)
                       ~> (p \notin mhead \/ crashed)
=============================================================================
