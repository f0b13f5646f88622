-------------------------- MODULE VinnySpawn_proofs --------------------------
(* Proofs about VinnySpawn: its type invariant, and that no message is      *)
(* freed under the threads that use it, for every set of threads, programs  *)
(* and messages, whichever threads the signal interrupts.                   *)
EXTENDS VinnySpawn, FiniteSetTheorems, TLAPS

USE ThreadsAssumption DEF Threads, Goto, Unlock, At

(* TypeOK is inductive once a handler inside spawn_mod has a process, a     *)
(* thread that works on a message has one, and the owner of mod_mtx is      *)
(* inside spawn_mod.                                                        *)
HasMsg == Spawning \cup Watching \cup {"ftest", "ffree", "unreg", "fcheck"}

WatcherPC == Watching \cup {"unborn", "unreg", "fcheck", "ftest", "ffree", "exit", "dead"}

Located ==
  /\ \A t \in Threads : pc[t] \in HasMsg => cur[t] \in Messages
  /\ \A h \in Handlers : pc[h] \in InSpawnMod => slot[h] \in Procs
  /\ \A t \in Threads : spc[t] = "lock" => spid[t] \in Procs
  /\ \A h \in Handlers : pc[h] \in Spawning \cup {"idle", "ftest", "ffree"}
  /\ \A p \in Procs : pc[p] \in WatcherPC
  /\ owner # NoThread => owner \in Handlers /\ pc[owner] \in Holding

TypeInv == TypeOK /\ Located

(* Every state of a run is well typed: the program counters, the lists and  *)
(* the heap blocks have the values the model gives them.                    *)
LEMMA InitTypeInv == Init => TypeInv
<1> USE DEF PC, HasMsg, WatcherPC, Spawning, Watching, InSpawnMod, Holding
<1> SUFFICES ASSUME Init PROVE TypeInv
    OBVIOUS
<1>1. /\ \A h \in Handlers : pc[h] = "idle"
      /\ \A p \in Procs : pc[p] = "unborn"
      /\ pc[Cli] = "cli"
      BY DEF Init
<1>2. pc \in [Threads -> PC]
      BY DEF Init
<1>3. TypeOK
      BY <1>2 DEF Init, TypeOK
<1>4. Located
      BY <1>1 DEF Init, Located
<1> QED BY <1>3, <1>4 DEF TypeInv

LEMMA TouchType ==
  ASSUME NEW s, Touch(s)
  PROVE  crashed' \in BOOLEAN
BY DEF Touch

LEMMA StepTypeInv == TypeInv /\ [Next]_vars => TypeInv'
<1> USE DEF TypeInv, TypeOK, Located, PC, HasMsg, WatcherPC, Spawning, Watching, InSpawnMod, Holding
<1> SUFFICES ASSUME TypeInv, [Next]_vars PROVE TypeInv'
    OBVIOUS
<1>1. ASSUME NEW h \in Handlers, NEW m \in Messages, ToVinny(h, m) PROVE TypeInv'
      BY <1>1 DEF ToVinny, modVars, sigVars
<1>2. ASSUME NEW h \in Handlers, LockMods(h) \/ \E p \in Procs : SpawnMod(h, p) PROVE TypeInv'
  <2> USE <1>2 DEF LockMods, SpawnMod, msgVars, modVars, sigVars
  <2>1. TypeOK' BY SMTT(60)
  <2>2. Located' OBVIOUS
  <2> QED BY <2>1, <2>2
<1>3. ASSUME NEW h \in Handlers, AccessFails(h) \/ CreateFails(h) PROVE TypeInv'
      BY <1>3, SMTT(60) DEF AccessFails, CreateFails, SpawnModFail, msgVars, sigVars
<1>4. ASSUME NEW h \in Handlers, Fork(h) PROVE TypeInv'
      BY <1>4 DEF Fork, msgVars, sigVars
<1>5. ASSUME NEW h \in Handlers, CreateWatcher(h) PROVE TypeInv'
  <2> USE <1>5 DEF CreateWatcher, msgVars, modVars, sigVars
  <2>1. h \in Threads /\ slot[h] \in Procs /\ slot[h] # h /\ cur[h] \in Messages
        OBVIOUS
  <2>2. TypeOK' BY <2>1
  <2>3. Located' BY <2>1, SMTT(60)
  <2> QED BY <2>2, <2>3
<1>6. ASSUME NEW h \in Handlers, RegisterMsgHolder(h) PROVE TypeInv'
  <2>1. crashed' \in BOOLEAN BY <1>6, TouchType DEF RegisterMsgHolder
  <2> QED BY <1>6, <2>1 DEF RegisterMsgHolder, modVars, sigVars
<1>7. ASSUME NEW h \in Handlers, InsertMod(h) PROVE TypeInv'
      BY <1>7 DEF InsertMod, msgVars, sigVars
<1>8. ASSUME NEW h \in Handlers, SpawningDone(h) PROVE TypeInv'
  <2>1. crashed' \in BOOLEAN BY <1>8, TouchType DEF SpawningDone
  <2> QED BY <1>8, <2>1 DEF SpawningDone, modVars, sigVars
<1>9. ASSUME NEW t \in Handlers \cup Procs, TestHolders(t) PROVE TypeInv'
  <2>1. crashed' \in BOOLEAN BY <1>9, TouchType DEF TestHolders
  <2>2. CASE holders[cur[t]] = {}
        BY <1>9, <2>1, <2>2 DEF TestHolders, msgVars, modVars, sigVars
  <2>3. CASE holders[cur[t]] # {}
        BY <1>9, <2>1, <2>3 DEF TestHolders, Return, msgVars, modVars, sigVars
  <2> QED BY <2>2, <2>3
<1>10. ASSUME NEW t \in Handlers \cup Procs, FreeMsg(t) PROVE TypeInv'
  <2>1. crashed' \in BOOLEAN BY <1>10, TouchType DEF FreeMsg
  <2> QED BY <1>10, <2>1 DEF FreeMsg, Return, modVars, sigVars
<1>11. ASSUME NEW p \in Procs, WatcherStart(p) PROVE TypeInv'
  <2>1. crashed' \in BOOLEAN BY <1>11, TouchType DEF WatcherStart
  <2> QED BY <1>11, <2>1 DEF WatcherStart, msgVars, modVars, sigVars
<1>12. ASSUME NEW p \in Procs, LeaveLoop(p) PROVE TypeInv'
       BY <1>12 DEF LeaveLoop, msgVars, modVars, sigVars
<1>13. ASSUME NEW p \in Procs, UnregisterMsgHolder(p) PROVE TypeInv'
  <2>1. crashed' \in BOOLEAN BY <1>13, TouchType DEF UnregisterMsgHolder
  <2> QED BY <1>13, <2>1 DEF UnregisterMsgHolder, modVars, sigVars
<1>14. ASSUME NEW p \in Procs, FreeCheck(p) PROVE TypeInv'
  <2>1. crashed' \in BOOLEAN BY <1>14, TouchType DEF FreeCheck
  <2> QED BY <1>14, <2>1 DEF FreeCheck, Return, msgVars, modVars, sigVars
<1>15. ASSUME NEW p \in Procs, WatcherExit(p) PROVE TypeInv'
  <2>1. crashed' \in BOOLEAN BY <1>15, TouchType DEF WatcherExit
  <2> QED BY <1>15, <2>1 DEF WatcherExit, msgVars, sigVars
<1>16. ASSUME NEW p \in Procs, ChildExit(p) PROVE TypeInv'
       BY <1>16 DEF ChildExit, msgVars
<1>17. ASSUME NEW t \in Threads, SigChld(t) PROVE TypeInv'
       BY <1>17 DEF SigChld, msgVars, modVars
<1>18. ASSUME NEW t \in Threads, SigWait(t) PROVE TypeInv'
       BY <1>18 DEF SigWait, msgVars
<1>19. ASSUME NEW t \in Threads, CleanupMod(t) PROVE TypeInv'
  <2>1. crashed' \in BOOLEAN BY <1>19, TouchType DEF CleanupMod
  <2> QED BY <1>19, <2>1 DEF CleanupMod, msgVars
<1>20. ASSUME NEW t \in Threads, RelockForever(t) PROVE TypeInv'
       BY <1>20 DEF RelockForever, msgVars, modVars
<1>21. CASE UNCHANGED vars
       BY <1>21 DEF vars, msgVars, modVars, sigVars
<1> QED
  BY <1>1, <1>2, <1>3, <1>4, <1>5, <1>6, <1>7, <1>8, <1>9, <1>10, <1>11, <1>12,
     <1>13, <1>14, <1>15, <1>16, <1>17, <1>18, <1>19, <1>20, <1>21
  DEF Next, HandlerStep, SpawnStep, WatcherStep, WatcherEof, WatcherTakesByteForEof,
      SignalStep

THEOREM TypeCorrect == Spec => []TypeOK
<1>1. TypeInv => TypeOK BY DEF TypeInv
<1> QED BY <1>1, InitTypeInv, StepTypeInv, PTL DEF Spec
-----------------------------------------------------------------------------
(* Why the message outlives its users.  While a thread spawns for m, the    *)
(* flag spawning_done is off and nobody gets to the test of the holders;    *)
(* a watcher at work is registered, or its spawner, in the step between     *)
(* pthread_create and register_msg_holder, keeps the message alive for it;  *)
(* a thread that is about to free m has seen the flag on and no holder, and *)
(* neither can change any more.                                             *)
Fresh(p) == \E h \in Handlers : pc[h] = "created" /\ slot[h] = p /\ cur[h] = cur[p]

SpawnerInv ==
  /\ \A h \in Handlers : pc[h] \in Spawning => mem[cur[h]] = "live" /\ ~done[cur[h]]
  /\ \A h, g \in Handlers :
       pc[h] \in Spawning /\ pc[g] \in Spawning /\ cur[h] = cur[g] => h = g

SlotInv ==
  /\ \A p \in Procs : pc[p] # "unborn" => vmod[p] # "none"
  /\ \A h \in Handlers : pc[h] \in Holding => vmod[slot[h]] # "none"
  /\ \A h \in Handlers : pc[h] \in {"locking", "locked", "forked"} => pc[slot[h]] = "unborn"
  /\ \A h, g \in Handlers :
       pc[h] \in InSpawnMod /\ pc[g] \in InSpawnMod /\ slot[h] = slot[g] => h = g

HolderInv ==
  /\ \A t \in Threads : pc[t] \in HasMsg => mem[cur[t]] # "none"
  /\ \A p \in Procs : pc[p] \in Watching => p \in holders[cur[p]] \/ Fresh(p)

FreeInv ==
  /\ \A t \in Threads : pc[t] \in {"ftest", "ffree"} => done[cur[t]]
  /\ \A t \in Threads : pc[t] = "ffree" => holders[cur[t]] = {}
  /\ \A m \in Messages : mem[m] = "freed" => done[m] /\ holders[m] = {}
  /\ \A m \in Messages : done[m] => mem[m] # "none"

LifeInv == SpawnerInv /\ SlotInv /\ HolderInv /\ FreeInv

LEMMA InitLifeInv == Init => LifeInv
<1> USE DEF HasMsg, Spawning, Watching, InSpawnMod, Holding
<1> SUFFICES ASSUME Init PROVE LifeInv
    OBVIOUS
<1>1. /\ \A h \in Handlers : pc[h] = "idle"
      /\ \A p \in Procs : pc[p] = "unborn"
      /\ pc[Cli] = "cli"
      /\ \A m \in Messages : mem[m] = "none" /\ done[m] = FALSE
      BY DEF Init
<1>2. SpawnerInv BY <1>1 DEF SpawnerInv
<1>3. SlotInv BY <1>1 DEF SlotInv
<1>4. HolderInv BY <1>1 DEF HolderInv
<1>5. FreeInv BY <1>1 DEF FreeInv
<1> QED BY <1>2, <1>3, <1>4, <1>5 DEF LifeInv

(* A step that leaves the threads and the messages alone, and brings no     *)
(* struct vinny_module back to the state before its malloc.                 *)
QuietStep == /\ UNCHANGED <<pc, cur, slot, mem, done, holders>>
             /\ \A p \in Procs : vmod[p] # "none" => vmod'[p] # "none"

LEMMA SignalsAreQuiet ==
  ASSUME TypeInv,
         \/ \E p \in Procs : ChildExit(p)
         \/ \E t \in Threads : SigChld(t) \/ SignalStep(t)
         \/ UNCHANGED vars
  PROVE  QuietStep
<1> USE DEF TypeInv, TypeOK, QuietStep, msgVars, modVars
<1>1. ASSUME NEW p \in Procs, ChildExit(p) PROVE QuietStep
      BY <1>1 DEF ChildExit
<1>2. ASSUME NEW t \in Threads, SigChld(t) \/ SigWait(t) \/ RelockForever(t) PROVE QuietStep
      BY <1>2 DEF SigChld, SigWait, RelockForever
<1>3. ASSUME NEW t \in Threads, CleanupMod(t) PROVE QuietStep
      BY <1>3 DEF CleanupMod
<1>4. CASE UNCHANGED vars
      BY <1>4 DEF vars
<1> QED BY <1>1, <1>2, <1>3, <1>4 DEF SignalStep

LEMMA QuietKeepsLife == TypeInv /\ LifeInv /\ QuietStep => LifeInv'
<1> SUFFICES ASSUME TypeInv, LifeInv, QuietStep PROVE LifeInv'
    OBVIOUS
<1> USE DEF TypeInv, TypeOK, Located, LifeInv, QuietStep
<1>1. SpawnerInv' BY DEF SpawnerInv
<1>2. SlotInv' BY DEF SlotInv, InSpawnMod
<1>3. HolderInv' BY DEF HolderInv, Fresh
<1>4. FreeInv' BY DEF FreeInv
<1> QED BY <1>1, <1>2, <1>3, <1>4

LEMMA StepLifeInv == TypeInv /\ LifeInv /\ [Next]_vars => LifeInv'
<1> USE DEF TypeInv, TypeOK, Located, LifeInv, HasMsg, Spawning, Watching, InSpawnMod, Holding, WatcherPC
<1> SUFFICES ASSUME TypeInv, LifeInv, [Next]_vars PROVE LifeInv'
    OBVIOUS
<1>1. ASSUME NEW h \in Handlers, NEW m \in Messages, ToVinny(h, m) PROVE LifeInv'
  <2> USE <1>1 DEF ToVinny, modVars
  <2>1. SpawnerInv' BY DEF SpawnerInv
  <2>2. SlotInv' BY DEF SlotInv
  <2>3. HolderInv' BY DEF SpawnerInv, SlotInv, HolderInv, Fresh, FreeInv
  <2>4. FreeInv' BY DEF SpawnerInv, FreeInv
  <2> QED BY <2>1, <2>2, <2>3, <2>4
<1>2. ASSUME NEW h \in Handlers, LockMods(h) \/ \E p \in Procs : SpawnMod(h, p) PROVE LifeInv'
  <2> USE <1>2 DEF LockMods, SpawnMod, msgVars, modVars
  <2>1. SpawnerInv' BY DEF SpawnerInv
  <2>2. SlotInv' BY DEF SlotInv
  <2>3. HolderInv' BY SMTT(60) DEF SpawnerInv, SlotInv, HolderInv, Fresh, FreeInv
  <2>4. FreeInv' BY DEF SpawnerInv, FreeInv
  <2> QED BY <2>1, <2>2, <2>3, <2>4
<1>3. ASSUME NEW h \in Handlers, AccessFails(h) \/ CreateFails(h) PROVE LifeInv'
  <2> USE <1>3 DEF AccessFails, CreateFails, SpawnModFail, msgVars
  <2>1. SpawnerInv' BY DEF SpawnerInv
  <2>2. SlotInv'
    <3>1. /\ slot[h] \in Procs /\ pc[h] \in Holding
          /\ pc' = [pc EXCEPT ![h] = "spawning"]
          /\ slot' = [slot EXCEPT ![h] = NoProc]
          /\ vmod' = [vmod EXCEPT ![slot[h]] = "freed"]
          OBVIOUS
    <3>2. \A p \in Procs : pc'[p] = pc[p] /\ (vmod[p] # "none" => vmod'[p] # "none")
          BY <3>1
    <3>3. \A g \in Handlers : pc'[g] \in InSpawnMod => g # h /\ pc'[g] = pc[g] /\ slot'[g] = slot[g]
          BY <3>1
    <3> QED BY <3>2, <3>3 DEF SlotInv
  <2>3. HolderInv'
    <3>1. /\ pc[h] \in Holding /\ pc[h] # "created" /\ mem' = mem /\ cur' = cur /\ holders' = holders
          /\ pc' = [pc EXCEPT ![h] = "spawning"]
          /\ slot' = [slot EXCEPT ![h] = NoProc]
          OBVIOUS
    <3>2. \A t \in Threads : pc'[t] \in HasMsg => pc[t] \in HasMsg
          BY <3>1
    <3>3. \A p \in Procs : pc'[p] = pc[p] /\ (Fresh(p) => Fresh(p)')
          BY <3>1 DEF Fresh
    <3> QED BY <3>1, <3>2, <3>3 DEF HolderInv
  <2>4. FreeInv' BY DEF SpawnerInv, FreeInv
  <2> QED BY <2>1, <2>2, <2>3, <2>4
<1>4. ASSUME NEW h \in Handlers, Fork(h) PROVE LifeInv'
  <2> USE <1>4 DEF Fork, msgVars
  <2>1. SpawnerInv' BY DEF SpawnerInv
  <2>2. SlotInv' BY DEF SlotInv
  <2>3. HolderInv' BY DEF SpawnerInv, SlotInv, HolderInv, Fresh, FreeInv
  <2>4. FreeInv' BY DEF SpawnerInv, FreeInv
  <2> QED BY <2>1, <2>2, <2>3, <2>4
<1>5. ASSUME NEW h \in Handlers, CreateWatcher(h) PROVE LifeInv'
  <2> USE <1>5 DEF CreateWatcher, msgVars, modVars
  <2>1. SpawnerInv' BY DEF SpawnerInv
  <2>2. SlotInv' BY DEF SlotInv
  <2>3. HolderInv' BY SMTT(60) DEF SpawnerInv, SlotInv, HolderInv, Fresh, FreeInv
  <2>4. FreeInv' BY DEF SpawnerInv, FreeInv
  <2> QED BY <2>1, <2>2, <2>3, <2>4
<1>6. ASSUME NEW h \in Handlers, RegisterMsgHolder(h) PROVE LifeInv'
  <2> USE <1>6 DEF RegisterMsgHolder, modVars
  <2>1. SpawnerInv' BY DEF SpawnerInv
  <2>2. SlotInv' BY DEF SlotInv
  <2>3. HolderInv' BY DEF SpawnerInv, SlotInv, HolderInv, Fresh, FreeInv
  <2>4. FreeInv' BY DEF SpawnerInv, FreeInv
  <2> QED BY <2>1, <2>2, <2>3, <2>4
<1>7. ASSUME NEW h \in Handlers, InsertMod(h) PROVE LifeInv'
  <2> USE <1>7 DEF InsertMod, msgVars
  <2>1. SpawnerInv' BY DEF SpawnerInv
  <2>2. SlotInv' BY DEF SlotInv
  <2>3. HolderInv' BY DEF SpawnerInv, SlotInv, HolderInv, Fresh, FreeInv
  <2>4. FreeInv' BY DEF SpawnerInv, FreeInv
  <2> QED BY <2>1, <2>2, <2>3, <2>4
<1>8. ASSUME NEW h \in Handlers, SpawningDone(h) PROVE LifeInv'
  <2> USE <1>8 DEF SpawningDone, modVars
  <2>1. SpawnerInv' BY DEF SpawnerInv
  <2>2. SlotInv' BY DEF SlotInv
  <2>3. HolderInv' BY DEF SpawnerInv, SlotInv, HolderInv, Fresh, FreeInv
  <2>4. FreeInv' BY DEF SpawnerInv, FreeInv
  <2> QED BY <2>1, <2>2, <2>3, <2>4
<1>9. ASSUME NEW t \in Handlers \cup Procs, TestHolders(t) PROVE LifeInv'
  <2> USE <1>9 DEF TestHolders, Return, msgVars, modVars
  <2>1. SpawnerInv' BY DEF SpawnerInv
  <2>2. SlotInv' BY DEF SlotInv
  <2>3. HolderInv' BY DEF SpawnerInv, SlotInv, HolderInv, Fresh, FreeInv
  <2>4. FreeInv' BY DEF SpawnerInv, FreeInv
  <2> QED BY <2>1, <2>2, <2>3, <2>4
<1>10. ASSUME NEW t \in Handlers \cup Procs, FreeMsg(t) PROVE LifeInv'
  <2> USE <1>10 DEF FreeMsg, Return, modVars
  <2>1. SpawnerInv' BY DEF SpawnerInv, FreeInv
  <2>2. SlotInv' BY DEF SlotInv
  <2>3. HolderInv' BY DEF SpawnerInv, SlotInv, HolderInv, Fresh, FreeInv
  <2>4. FreeInv' BY DEF SpawnerInv, FreeInv
  <2> QED BY <2>1, <2>2, <2>3, <2>4
<1>11. ASSUME NEW p \in Procs, WatcherStart(p) PROVE LifeInv'
  <2> USE <1>11 DEF WatcherStart, msgVars, modVars
  <2>1. SpawnerInv' BY DEF SpawnerInv
  <2>2. SlotInv' BY DEF SlotInv
  <2>3. HolderInv' BY DEF SpawnerInv, SlotInv, HolderInv, Fresh, FreeInv
  <2>4. FreeInv' BY DEF SpawnerInv, FreeInv
  <2> QED BY <2>1, <2>2, <2>3, <2>4
<1>12. ASSUME NEW p \in Procs, LeaveLoop(p) PROVE LifeInv'
  <2> USE <1>12 DEF LeaveLoop, msgVars, modVars
  <2>1. SpawnerInv' BY DEF SpawnerInv
  <2>2. SlotInv' BY DEF SlotInv
  <2>3. HolderInv' BY DEF SpawnerInv, SlotInv, HolderInv, Fresh, FreeInv
  <2>4. FreeInv' BY DEF SpawnerInv, FreeInv
  <2> QED BY <2>1, <2>2, <2>3, <2>4
<1>13. ASSUME NEW p \in Procs, UnregisterMsgHolder(p) PROVE LifeInv'
  <2> USE <1>13 DEF UnregisterMsgHolder, modVars
  <2>1. SpawnerInv' BY DEF SpawnerInv
  <2>2. SlotInv' BY DEF SlotInv
  <2>3. HolderInv' BY DEF SpawnerInv, SlotInv, HolderInv, Fresh, FreeInv
  <2>4. FreeInv' BY DEF SpawnerInv, FreeInv
  <2> QED BY <2>1, <2>2, <2>3, <2>4
<1>14. ASSUME NEW p \in Procs, FreeCheck(p) PROVE LifeInv'
  <2> USE <1>14 DEF FreeCheck, Return, msgVars, modVars
  <2>1. SpawnerInv' BY DEF SpawnerInv
  <2>2. SlotInv' BY DEF SlotInv
  <2>3. HolderInv' BY SMTT(60) DEF SpawnerInv, SlotInv, HolderInv, Fresh, FreeInv
  <2>4. FreeInv' BY DEF SpawnerInv, FreeInv
  <2> QED BY <2>1, <2>2, <2>3, <2>4
<1>15. ASSUME NEW p \in Procs, WatcherExit(p) PROVE LifeInv'
  <2> USE <1>15 DEF WatcherExit, msgVars
  <2>1. SpawnerInv' BY DEF SpawnerInv
  <2>2. SlotInv' BY DEF SlotInv
  <2>3. HolderInv' BY DEF SpawnerInv, SlotInv, HolderInv, Fresh, FreeInv
  <2>4. FreeInv' BY DEF SpawnerInv, FreeInv
  <2> QED BY <2>1, <2>2, <2>3, <2>4
<1>16. CASE \/ \E p \in Procs : ChildExit(p)
           \/ \E t \in Threads : SigChld(t) \/ SignalStep(t)
           \/ UNCHANGED vars
      BY <1>16, SignalsAreQuiet, QuietKeepsLife
<1> QED
  BY <1>1, <1>2, <1>3, <1>4, <1>5, <1>6, <1>7, <1>8, <1>9, <1>10, <1>11, <1>12, <1>13, <1>14, <1>15, <1>16
  DEF Next, HandlerStep, SpawnStep, WatcherStep, WatcherEof, WatcherTakesByteForEof
(* The theorem behind vinny's reference counting: no state of a run has a   *)
(* thread that spawns for a message, or hands it to process_op, when the    *)
(* message is not there (vinny.c:181, free_msg_if_not_used).                *)
LEMMA LifeInvImplies == TypeInv /\ LifeInv => UsersHoldLiveMessage
<1> USE DEF TypeInv, TypeOK, Located, LifeInv, HasMsg, Spawning, Watching, InSpawnMod, Holding
<1> SUFFICES ASSUME TypeInv, LifeInv, NEW m \in Messages, NEW t \in UsersOf(m)
             PROVE  mem[m] = "live"
    BY DEF UsersHoldLiveMessage
<1>1. CASE t \in Handlers /\ pc[t] \in Spawning /\ cur[t] = m
      BY <1>1 DEF SpawnerInv
<1>2. CASE t \in Procs /\ pc[t] \in Watching /\ cur[t] = m
  <2>1. mem[m] # "none" BY <1>2 DEF HolderInv
  <2>2. CASE t \in holders[m] BY <2>1, <2>2 DEF FreeInv
  <2>3. CASE Fresh(t) BY <1>2, <2>3 DEF Fresh, SpawnerInv
  <2> QED BY <1>2, <2>2, <2>3 DEF HolderInv
<1> QED BY <1>1, <1>2 DEF UsersOf

THEOREM MessageOutlivesUsers == Spec => []UsersHoldLiveMessage
<1>1. Init => TypeInv /\ LifeInv
      BY InitTypeInv, InitLifeInv
<1>2. TypeInv /\ LifeInv /\ [Next]_vars => (TypeInv /\ LifeInv)'
      BY StepTypeInv, StepLifeInv
<1> QED BY <1>1, <1>2, LifeInvImplies, PTL DEF Spec
-----------------------------------------------------------------------------
(* Why wait() finds a child.  The process of a call of spawn_mod is forked  *)
(* once: nothing before fork() has one, so that no child that waits to be   *)
(* reaped is replaced by another.                                           *)
Unforked == \A h \in Handlers :
              /\ pc[h] = "locking" => vmod[slot[h]] = "none"
              /\ pc[h] = "locked" => child[slot[h]] = "none"

ChildInv == /\ \A p \in Procs : vmod[p] = "none" => child[p] = "none" /\ p \notin mhead
            /\ Unforked

LEMMA InitChildInv == Init => ChildInv
BY DEF Init, ChildInv, Unforked

LEMMA StepChildInv == TypeInv /\ LifeInv /\ ChildInv /\ [Next]_vars => ChildInv'
<1> USE DEF TypeInv, TypeOK, Located, LifeInv, SlotInv, ChildInv, Unforked, InSpawnMod, Holding
<1> SUFFICES ASSUME TypeInv, LifeInv, ChildInv, [Next]_vars PROVE ChildInv'
    OBVIOUS
<1>1. ASSUME NEW h \in Handlers, \E p \in Procs : SpawnMod(h, p) PROVE ChildInv'
      BY <1>1 DEF SpawnMod, modVars
<1>2. ASSUME NEW h \in Handlers, LockMods(h) PROVE ChildInv'
      BY <1>2 DEF LockMods
<1>3. ASSUME NEW h \in Handlers, AccessFails(h) \/ CreateFails(h) PROVE ChildInv'
      BY <1>3 DEF AccessFails, CreateFails, SpawnModFail
<1>4. ASSUME NEW h \in Handlers, Fork(h) PROVE ChildInv'
      BY <1>4 DEF Fork
<1>5. ASSUME NEW h \in Handlers, CreateWatcher(h) PROVE ChildInv'
  <2>1. slot[h] \in Procs /\ slot[h] \notin Handlers
        BY <1>5 DEF CreateWatcher
  <2> QED BY <1>5, <2>1 DEF CreateWatcher, modVars
<1>6. ASSUME NEW h \in Handlers,
             \/ \E m \in Messages : ToVinny(h, m)
             \/ RegisterMsgHolder(h) \/ InsertMod(h) \/ SpawningDone(h)
      PROVE  ChildInv'
      BY <1>6 DEF ToVinny, RegisterMsgHolder, InsertMod, SpawningDone, modVars
<1>7. ASSUME NEW t \in Handlers \cup Procs, TestHolders(t) \/ FreeMsg(t) PROVE ChildInv'
      BY <1>7 DEF TestHolders, FreeMsg, Return, modVars
<1>8. ASSUME NEW p \in Procs,
             \/ WatcherStart(p) \/ LeaveLoop(p) \/ UnregisterMsgHolder(p)
             \/ FreeCheck(p)
      PROVE  ChildInv'
      BY <1>8 DEF WatcherStart, LeaveLoop, UnregisterMsgHolder, FreeCheck, Return, modVars
<1>9. ASSUME NEW p \in Procs, WatcherExit(p) PROVE ChildInv'
      BY <1>9 DEF WatcherExit, WatcherPC
<1>10. ASSUME NEW p \in Procs, ChildExit(p) PROVE ChildInv'
       BY <1>10 DEF ChildExit
<1>11. ASSUME NEW t \in Threads, SigChld(t) \/ RelockForever(t) PROVE ChildInv'
       BY <1>11 DEF SigChld, RelockForever, modVars
<1>12. ASSUME NEW t \in Threads, SigWait(t) PROVE ChildInv'
       BY <1>12 DEF SigWait
<1>13. ASSUME NEW t \in Threads, CleanupMod(t) PROVE ChildInv'
  <2>1. /\ pc' = pc /\ slot' = slot /\ child' = child /\ mhead' \subseteq mhead
        /\ \A p \in Procs : vmod'[p] = "none" => vmod[p] = "none"
        /\ \A p \in Procs : vmod[p] = "none" => vmod'[p] = "none" \/ p \in mhead
        BY <1>13 DEF CleanupMod
  <2> QED BY <2>1
<1>14. CASE UNCHANGED vars
       BY <1>14 DEF vars, modVars
<1> QED
  BY <1>1, <1>2, <1>3, <1>4, <1>5, <1>6, <1>7, <1>8, <1>9, <1>10, <1>11, <1>12, <1>13, <1>14
  DEF Next, HandlerStep, SpawnStep, WatcherStep, WatcherEof, WatcherTakesByteForEof,
      SignalStep

(* vini.c:289: a signal is on its way, or a thread is in wait(), only for a *)
(* child that has exited and was not yet reaped, for each its own.          *)
Waiting == {t \in Threads : spc[t] = "wait"}
Zombies == {p \in Procs : child[p] = "zombie"}

LEMMA WaitingFinite == /\ IsFiniteSet(Waiting) /\ IsFiniteSet(Waiting')
                       /\ IsFiniteSet(Zombies) /\ IsFiniteSet(Zombies')
                       /\ Cardinality(Waiting) \in Nat /\ Cardinality(Waiting') \in Nat
                       /\ Cardinality(Zombies) \in Nat /\ Cardinality(Zombies') \in Nat
<1>1. /\ IsFiniteSet(Waiting) /\ IsFiniteSet(Waiting')
      BY FS_Subset, IsFiniteSet(Threads) DEF Waiting
<1>2. IsFiniteSet(Zombies) /\ IsFiniteSet(Zombies')
      BY FS_Subset DEF Zombies
<1> QED BY <1>1, <1>2, FS_CardinalityType

LEMMA StepWait ==
  TypeInv /\ LifeInv /\ ChildInv /\ WaitNeverBlocks /\ [Next]_vars => WaitNeverBlocks'
<1> USE DEF TypeInv, TypeOK
<1> SUFFICES ASSUME TypeInv, LifeInv, ChildInv, WaitNeverBlocks, [Next]_vars PROVE WaitNeverBlocks'
    OBVIOUS
<1> DEFINE w == Cardinality(Waiting)
           z == Cardinality(Zombies)
           n == IF pending THEN 1 ELSE 0
<1>1. w + n <= z
      BY DEF WaitNeverBlocks, Waiting, Zombies
<1>2. SUFFICES w' + n' <= z'
      BY DEF WaitNeverBlocks, Waiting, Zombies
<1> USE WaitingFinite
<1> HIDE DEF w, z
<1>3. w \in Nat /\ w' \in Nat /\ z \in Nat /\ z' \in Nat /\ n \in Nat
      BY DEF w, z
<1>4. ASSUME Waiting' = Waiting, Zombies' = Zombies, pending' = pending PROVE w' + n' <= z'
      BY <1>1, <1>4 DEF w, z
<1>5. ASSUME NEW p \in Procs, ChildExit(p) PROVE w' + n' <= z'
  <2>1. Waiting' = Waiting
        BY <1>5 DEF ChildExit, Waiting
  <2>2. Zombies' = Zombies \cup {p} /\ p \notin Zombies
        BY <1>5 DEF ChildExit, Zombies
  <2>3. z' = z + 1
        BY <2>2, FS_AddElement DEF z
  <2>4. w' = w
        BY <2>1 DEF w
  <2> QED BY <1>1, <1>3, <2>3, <2>4
<1>6. ASSUME NEW t \in Threads, SigChld(t) PROVE w' + n' <= z'
  <2>1. Zombies' = Zombies
        BY <1>6 DEF SigChld, Zombies, modVars
  <2>2. Waiting' = Waiting \cup {t} /\ t \notin Waiting
        BY <1>6 DEF SigChld, Waiting
  <2>3. w' = w + 1
        BY <2>2, FS_AddElement DEF w
  <2>4. z' = z
        BY <2>1 DEF z
  <2>5. n = 1 /\ n' = 0
        BY <1>6 DEF SigChld
  <2> QED BY <1>1, <1>3, <2>3, <2>4, <2>5
<1>7. ASSUME NEW t \in Threads, SigWait(t) PROVE w' + n' <= z'
  <2>1. PICK p \in Procs : child[p] = "zombie" /\ child' = [child EXCEPT ![p] = "reaped"]
        BY <1>7 DEF SigWait
  <2>2. Zombies' = Zombies \ {p} /\ p \in Zombies
        BY <2>1 DEF Zombies
  <2>3. Waiting' = Waiting \ {t} /\ t \in Waiting
        BY <1>7 DEF SigWait, Waiting
  <2>4. z' = z - 1
        BY <2>2, FS_RemoveElement DEF z
  <2>5. w' = w - 1
        BY <2>3, FS_RemoveElement DEF w
  <2>6. n' = n
        BY <1>7 DEF SigWait
  <2> QED BY <1>1, <1>3, <2>4, <2>5, <2>6
<1>8. ASSUME NEW h \in Handlers, Fork(h) PROVE w' + n' <= z'
  <2>1. slot[h] \in Procs /\ child[slot[h]] = "none"
        BY <1>8 DEF Fork, ChildInv, Unforked, Located, InSpawnMod, Holding
  <2>2. Zombies' = Zombies
        BY <1>8, <2>1 DEF Fork, Zombies
  <2> QED BY <1>4, <1>8, <2>2 DEF Fork, Waiting, sigVars
<1>9. ASSUME NEW t \in Threads, CleanupMod(t) \/ RelockForever(t) PROVE w' + n' <= z'
      BY <1>4, <1>9 DEF CleanupMod, RelockForever, modVars, Waiting, Zombies
<1>10. ASSUME spc' = spc, child' = child, pending' = pending PROVE w' + n' <= z'
       BY <1>4, <1>10 DEF Waiting, Zombies
<1>11. ASSUME NEW h \in Handlers,
              \/ \E m \in Messages : ToVinny(h, m)
              \/ \E p \in Procs : SpawnMod(h, p)
              \/ LockMods(h) \/ AccessFails(h) \/ CreateFails(h) \/ CreateWatcher(h)
              \/ RegisterMsgHolder(h) \/ InsertMod(h) \/ SpawningDone(h)
       PROVE  w' + n' <= z'
  <2>1. spc' = spc /\ child' = child /\ pending' = pending
        BY <1>11 DEF ToVinny, SpawnMod, LockMods, AccessFails, CreateFails, SpawnModFail,
                     CreateWatcher, RegisterMsgHolder, InsertMod, SpawningDone, modVars, sigVars
  <2> QED BY <1>10, <2>1
<1>12. ASSUME NEW t \in Handlers \cup Procs, TestHolders(t) \/ FreeMsg(t) PROVE w' + n' <= z'
       BY <1>10, <1>12 DEF TestHolders, FreeMsg, modVars, sigVars
<1>13. ASSUME NEW p \in Procs,
              \/ WatcherStart(p) \/ LeaveLoop(p) \/ UnregisterMsgHolder(p)
              \/ FreeCheck(p) \/ WatcherExit(p)
       PROVE  w' + n' <= z'
       BY <1>10, <1>13 DEF WatcherStart, LeaveLoop, UnregisterMsgHolder, FreeCheck, WatcherExit,
                           modVars, sigVars
<1>14. CASE UNCHANGED vars
       BY <1>10, <1>14 DEF vars, modVars, sigVars
<1> QED
  BY <1>5, <1>6, <1>7, <1>8, <1>9, <1>11, <1>12, <1>13, <1>14
  DEF Next, HandlerStep, SpawnStep, WatcherStep, WatcherEof, WatcherTakesByteForEof,
      SignalStep

(* The wait() of the SIGCHLD handler returns at once, whichever threads the *)
(* signal interrupts and however many children exit (vini.c:289).           *)
THEOREM WaitFindsAChild == Spec => []WaitNeverBlocks
<1>1. Init => TypeInv /\ LifeInv /\ ChildInv /\ WaitNeverBlocks
  <2>1. Init => {t \in Threads : spc[t] = "wait"} = {} /\ ~pending
        BY DEF Init
  <2>2. Init => {p \in Procs : child[p] = "zombie"} = {}
        BY DEF Init
  <2> QED BY <2>1, <2>2, FS_EmptySet, InitTypeInv, InitLifeInv, InitChildInv DEF WaitNeverBlocks
<1>2. TypeInv /\ LifeInv /\ ChildInv /\ WaitNeverBlocks /\ [Next]_vars
        => (TypeInv /\ LifeInv /\ ChildInv /\ WaitNeverBlocks)'
      BY StepTypeInv, StepLifeInv, StepChildInv, StepWait
<1> QED BY <1>1, <1>2, PTL DEF Spec
-----------------------------------------------------------------------------
(* mod_mtx, whichever threads SIGCHLD interrupts.  The handler of a thread  *)
(* other than the owner waits while the owner is inside spawn_mod, so that  *)
(* the process it reaped is still its business when the entry is inserted;  *)
(* the handler of the owner itself marks that one call as robbed.           *)
Listed(p) == p \in mhead \/ \E h \in Handlers : pc[h] \in Holding /\ slot[h] = p

LockInv ==
  /\ SpawnerOwnsLock
  /\ \A t \in Threads : spc[t] \in {"none", "wait"} => spid[t] = NoProc

ReapInv ==
  \A p \in Procs \ robbed : child[p] = "reaped" /\ Listed(p) => \E t \in Threads : spid[t] = p

LEMMA StepLockInv == TypeInv /\ LockInv /\ [Next]_vars => LockInv'
<1> USE DEF TypeInv, TypeOK, Located, LockInv, SpawnerOwnsLock, Holding
<1> SUFFICES ASSUME TypeInv, LockInv, [Next]_vars PROVE LockInv'
    OBVIOUS
<1>1. ASSUME NEW h \in Handlers,
             \/ \E m \in Messages : ToVinny(h, m)
             \/ \E p \in Procs : SpawnMod(h, p)
             \/ LockMods(h) \/ Fork(h) \/ RegisterMsgHolder(h) \/ SpawningDone(h)
      PROVE  LockInv'
      BY <1>1 DEF ToVinny, SpawnMod, LockMods, Fork, RegisterMsgHolder, SpawningDone, modVars, sigVars
<1>2. ASSUME NEW h \in Handlers, AccessFails(h) \/ CreateFails(h) \/ InsertMod(h) PROVE LockInv'
      BY <1>2 DEF AccessFails, CreateFails, SpawnModFail, InsertMod, sigVars
<1>3. ASSUME NEW h \in Handlers, CreateWatcher(h) PROVE LockInv'
  <2>1. slot[h] \in Procs /\ slot[h] \notin Handlers
        BY <1>3 DEF CreateWatcher, InSpawnMod
  <2> QED BY <1>3, <2>1 DEF CreateWatcher, modVars, sigVars
<1>4. ASSUME NEW t \in Handlers \cup Procs, TestHolders(t) \/ FreeMsg(t) PROVE LockInv'
      BY <1>4 DEF TestHolders, FreeMsg, Return, modVars, sigVars
<1>5. ASSUME NEW p \in Procs,
             \/ WatcherStart(p) \/ LeaveLoop(p) \/ UnregisterMsgHolder(p)
             \/ FreeCheck(p) \/ WatcherExit(p) \/ ChildExit(p)
      PROVE  LockInv'
      BY <1>5 DEF WatcherStart, LeaveLoop, UnregisterMsgHolder, FreeCheck, WatcherExit, ChildExit,
                  Return, modVars, sigVars
<1>6. ASSUME NEW t \in SigThreads, SigChld(t) PROVE LockInv'
      BY <1>6 DEF SigChld, modVars
<1>7. ASSUME NEW t \in Threads, SigWait(t) PROVE LockInv'
      BY <1>7 DEF SigWait
<1>8. ASSUME NEW t \in Threads, CleanupMod(t) PROVE LockInv'
  <2>1. pc' = pc /\ slot' = slot /\ \A h \in Handlers : owner = h => h = t /\ slot[h] \in robbed'
        BY <1>8 DEF CleanupMod
  <2> QED BY <1>8, <2>1 DEF CleanupMod
<1>9. ASSUME NEW t \in Threads, RelockForever(t) PROVE LockInv'
      BY <1>9 DEF RelockForever, modVars
<1>10. CASE UNCHANGED vars
       BY <1>10 DEF vars, modVars, sigVars
<1> QED
  BY <1>1, <1>2, <1>3, <1>4, <1>5, <1>6, <1>7, <1>8, <1>9, <1>10
  DEF Next, HandlerStep, SpawnStep, WatcherStep, WatcherEof, WatcherTakesByteForEof,
      SignalStep

LEMMA InitLockInv == Init => LockInv /\ ReapInv
BY DEF Init, LockInv, SpawnerOwnsLock, ReapInv, Listed, Holding

(* mods.c:44: whatever the watchers and the children do and whichever       *)
(* thread the handler runs on, an IRC thread owns mod_mtx from its lock to  *)
(* its unlock in spawn_mod, except in a call that the handler interrupted   *)
(* between the two; no other call pays for that one.                        *)
THEOREM SpawnerKeepsLock == Spec => []SpawnerOwnsLock
<1>1. Init => TypeInv /\ LockInv
      BY InitTypeInv, InitLockInv
<1>2. TypeInv /\ LockInv /\ [Next]_vars => (TypeInv /\ LockInv)'
      BY StepTypeInv, StepLockInv
<1>3. LockInv => SpawnerOwnsLock
      BY DEF LockInv
<1> QED BY <1>1, <1>2, <1>3, PTL DEF Spec

(* A process that was reaped and is still listed is the one some thread is  *)
(* about to clean up.                                                       *)
LEMMA StepReapInv ==
  TypeInv /\ LifeInv /\ ChildInv /\ LockInv /\ ReapInv /\ [Next]_vars => ReapInv'
<1> USE DEF TypeInv, TypeOK, Located, LockInv, ReapInv, InSpawnMod, Holding
<1> SUFFICES ASSUME TypeInv, LifeInv, ChildInv, LockInv, ReapInv, [Next]_vars PROVE ReapInv'
    OBVIOUS
<1>1. ASSUME spid' = spid, robbed' = robbed,
             \A p \in Procs : child'[p] = "reaped" /\ Listed(p)' => child[p] = "reaped" /\ Listed(p)
      PROVE  ReapInv'
      BY <1>1
<1>2. ASSUME NEW h \in Handlers, LockMods(h) PROVE ReapInv'
  <2>1. slot[h] \in Procs /\ child[slot[h]] = "none" /\ child' = child
        BY <1>2 DEF LockMods, ChildInv, Unforked
  <2>2. \A p \in Procs : Listed(p)' => Listed(p) \/ p = slot[h]
        BY <1>2 DEF LockMods, Listed
  <2> QED BY <1>1, <1>2, <2>1, <2>2 DEF LockMods, sigVars
<1>3. ASSUME NEW h \in Handlers, Fork(h) PROVE ReapInv'
  <2>1. \A p \in Procs : Listed(p)' => Listed(p)
        BY <1>3 DEF Fork, Listed
  <2>2. \A p \in Procs : child'[p] = "reaped" => child[p] = "reaped"
        BY <1>3 DEF Fork
  <2> QED BY <1>1, <1>3, <2>1, <2>2 DEF Fork, sigVars
<1>4. ASSUME NEW h \in Handlers,
             \/ \E m \in Messages : ToVinny(h, m)
             \/ \E p \in Procs : SpawnMod(h, p)
             \/ RegisterMsgHolder(h) \/ SpawningDone(h)
      PROVE  ReapInv'
  <2>1. child' = child /\ spid' = spid /\ robbed' = robbed /\ mhead' = mhead
        BY <1>4 DEF ToVinny, SpawnMod, RegisterMsgHolder, SpawningDone, modVars, sigVars
  <2>2. \A p \in Procs : Listed(p)' => Listed(p)
        BY <1>4, <2>1 DEF ToVinny, SpawnMod, RegisterMsgHolder, SpawningDone, Listed
  <2> QED BY <1>1, <2>1, <2>2
<1>5. ASSUME NEW h \in Handlers, AccessFails(h) \/ CreateFails(h) \/ InsertMod(h) PROVE ReapInv'
  <2>1. child' = child /\ spid' = spid /\ robbed' = robbed /\ mhead' \subseteq mhead \cup {slot[h]} /\ pc[h] \in Holding
        BY <1>5 DEF AccessFails, CreateFails, SpawnModFail, InsertMod, sigVars
  <2>2. \A g \in Handlers : pc'[g] \in Holding => pc[g] \in Holding /\ slot'[g] = slot[g]
        BY <1>5 DEF AccessFails, CreateFails, SpawnModFail, InsertMod
  <2>3. \A p \in Procs : Listed(p)' => Listed(p)
        BY <2>1, <2>2 DEF Listed
  <2> QED BY <1>1, <2>1, <2>3
<1>6. ASSUME NEW h \in Handlers, CreateWatcher(h) PROVE ReapInv'
  <2>1. slot[h] \in Procs /\ slot[h] \notin Handlers
        BY <1>6 DEF CreateWatcher
  <2>2. \A p \in Procs : Listed(p)' => Listed(p)
        BY <1>6, <2>1 DEF CreateWatcher, modVars, Listed
  <2> QED BY <1>1, <1>6, <2>2 DEF CreateWatcher, modVars, sigVars
<1>7. ASSUME NEW t \in Handlers \cup Procs,
             \/ TestHolders(t) \/ FreeMsg(t)
             \/ /\ t \in Procs
                /\ \/ WatcherStart(t) \/ LeaveLoop(t) \/ UnregisterMsgHolder(t)
                   \/ FreeCheck(t) \/ WatcherExit(t)
      PROVE  ReapInv'
  <2>1. child' = child /\ spid' = spid /\ robbed' = robbed /\ mhead' = mhead /\ slot' = slot
        BY <1>7 DEF TestHolders, FreeMsg, WatcherStart, LeaveLoop, UnregisterMsgHolder, FreeCheck,
                    WatcherExit, modVars, sigVars
  <2>2. \A g \in Handlers : pc'[g] \in Holding => pc[g] \in Holding
        BY <1>7 DEF TestHolders, FreeMsg, WatcherStart, LeaveLoop, UnregisterMsgHolder, FreeCheck,
                    WatcherExit, Return
  <2>3. \A p \in Procs : Listed(p)' => Listed(p)
        BY <2>1, <2>2 DEF Listed
  <2> QED BY <1>1, <2>1, <2>3
<1>8. ASSUME NEW p \in Procs, ChildExit(p) PROVE ReapInv'
  <2>1. \A q \in Procs : (Listed(q)' => Listed(q)) /\ (child'[q] = "reaped" => child[q] = "reaped")
        BY <1>8 DEF ChildExit, Listed
  <2> QED BY <1>1, <1>8, <2>1 DEF ChildExit
<1>9. ASSUME NEW t \in Threads, SigChld(t) \/ RelockForever(t) PROVE ReapInv'
  <2>1. \A q \in Procs : Listed(q)' => Listed(q)
        BY <1>9 DEF SigChld, RelockForever, modVars, Listed
  <2> QED BY <1>1, <1>9, <2>1 DEF SigChld, RelockForever, modVars
<1>10. ASSUME NEW t \in Threads, SigWait(t) PROVE ReapInv'
  <2>1. PICK p \in Procs : /\ child' = [child EXCEPT ![p] = "reaped"]
                           /\ spid' = [spid EXCEPT ![t] = p]
        BY <1>10 DEF SigWait
  <2>2. robbed' = robbed /\ \A q \in Procs : Listed(q)' => Listed(q)
        BY <1>10 DEF SigWait, Listed
  <2>3. spid[t] = NoProc
        BY <1>10 DEF SigWait
  <2>4. \A q \in Procs, u \in Threads : spid[u] = q => spid'[u] = q
        BY <2>1, <2>3
  <2>5. spid'[t] = p
        BY <2>1
  <2> QED BY <2>1, <2>2, <2>4, <2>5
<1>11. ASSUME NEW t \in Threads, CleanupMod(t) PROVE ReapInv'
  <2>1. /\ spid[t] \in Procs /\ mhead \ {spid[t]} = mhead' /\ pc' = pc /\ slot' = slot
        /\ robbed \subseteq robbed'
        BY <1>11 DEF CleanupMod
  <2>2. ASSUME NEW h \in Handlers, pc[h] \in Holding, slot[h] \notin robbed'
        PROVE  FALSE
    <3>1. owner = h
          BY <2>1, <2>2 DEF SpawnerOwnsLock
    <3> QED BY <1>11, <2>2, <3>1 DEF CleanupMod
  <2>3. \A p \in Procs \ robbed' : Listed(p)' => Listed(p) /\ p # spid[t]
        BY <2>1, <2>2 DEF Listed
  <2>4. \A p \in Procs, u \in Threads : spid[u] = p /\ p # spid[t] => spid'[u] = p
        BY <1>11 DEF CleanupMod
  <2> QED BY <1>11, <2>1, <2>3, <2>4 DEF CleanupMod
<1>12. CASE UNCHANGED vars
  <2>1. \A p \in Procs : Listed(p)' => Listed(p)
        BY <1>12 DEF vars, modVars, Listed
  <2> QED BY <1>1, <1>12, <2>1 DEF vars, modVars, sigVars
<1> QED
  BY <1>2, <1>3, <1>4, <1>5, <1>6, <1>7, <1>8, <1>9, <1>10, <1>11, <1>12
  DEF Next, HandlerStep, SpawnStep, WatcherStep, WatcherEof, WatcherTakesByteForEof,
      SignalStep

(* mods.c:190: a child may exit at any time, before its entry is inserted   *)
(* too, and still no entry outlives the cleanup of its process, unless the  *)
(* handler interrupted the very call of spawn_mod that starts the process.  *)
THEOREM NoEntryOutlivesCleanup == Spec => []ReapedIsUnlisted
<1> DEFINE Inv == TypeInv /\ LifeInv /\ ChildInv /\ LockInv /\ ReapInv
<1>1. Init => Inv
      BY InitTypeInv, InitLifeInv, InitChildInv, InitLockInv
<1>2. Inv /\ [Next]_vars => Inv'
      BY StepTypeInv, StepLifeInv, StepChildInv, StepLockInv, StepReapInv
<1>3. Inv => ReapedIsUnlisted
      BY DEF ReapInv, Listed, ReapedIsUnlisted
<1> QED BY <1>1, <1>2, <1>3, PTL DEF Spec
-----------------------------------------------------------------------------
(* The code implements MsgLife: a step of the program is one step of the    *)
(* promise, or does not concern it.                                         *)
LEMMA InitRefines == Init => Life!Init
<1> SUFFICES ASSUME Init PROVE Life!Init
    OBVIOUS
<1>1. ASSUME NEW m \in Messages PROVE UsersOf(m) = {}
      BY DEF Init, UsersOf, Spawning, Watching, InSpawnMod, Holding
<1> QED BY <1>1 DEF Init, Life!Init

(* Steps that neither change the message blocks nor move a thread into or   *)
(* out of the phases in which it uses one.                                  *)
SameUsers ==
  /\ mem' = mem
  /\ \A t \in Handlers : (pc'[t] \in Spawning <=> pc[t] \in Spawning)
                          /\ (pc[t] \in Spawning => cur'[t] = cur[t])
  /\ \A t \in Procs : (pc'[t] \in Watching <=> pc[t] \in Watching)
                       /\ (pc[t] \in Watching => cur'[t] = cur[t])

LEMMA SameUsersStutters == SameUsers => UNCHANGED Life!vars
<1> SUFFICES ASSUME SameUsers PROVE UNCHANGED Life!vars
    OBVIOUS
<1>1. ASSUME NEW m \in Messages PROVE UsersOf(m)' = UsersOf(m)
      BY DEF UsersOf, SameUsers
<1> QED BY <1>1 DEF Life!vars, SameUsers

(* One step of the promise, or nothing it is about.                         *)
LifeStep == Life!Next \/ UNCHANGED Life!vars

LEMMA StepRefines == TypeInv /\ LifeInv /\ [Next]_vars => LifeStep
<1> USE DEF TypeInv, TypeOK, Located, HasMsg, Spawning, Watching, InSpawnMod, Holding, WatcherPC
<1> SUFFICES ASSUME TypeInv, LifeInv, [Next]_vars PROVE LifeStep
    OBVIOUS
<1>1. ASSUME NEW h \in Handlers, NEW m \in Messages, ToVinny(h, m)
      PROVE  Life!Receive(m, h)
  <2>1. UsersOf(m)' = {h}
        BY <1>1 DEF ToVinny, UsersOf, LifeInv, HolderInv
  <2>2. ASSUME NEW n \in Messages, n # m PROVE UsersOf(n)' = UsersOf(n)
        BY <1>1, <2>2 DEF ToVinny, UsersOf
  <2> QED BY <1>1, <2>1, <2>2 DEF ToVinny, Life!Receive
<1>2. ASSUME NEW h \in Handlers, CreateWatcher(h),
             NEW m \in Messages, m = cur[h], NEW p \in Procs, p = slot[h]
      PROVE  Life!Join(m, p)
  <2>1. p # h /\ pc[p] = "unborn" /\ mem' = mem
        BY <1>2 DEF CreateWatcher, msgVars, LifeInv, SlotInv
  <2>2. h \in UsersOf(m)
        BY <1>2 DEF CreateWatcher, UsersOf
  <2>3. UsersOf(m)' = UsersOf(m) \cup {p}
        BY <1>2, <2>1 DEF CreateWatcher, UsersOf
  <2>4. ASSUME NEW n \in Messages, n # m PROVE UsersOf(n)' = UsersOf(n)
        BY <1>2, <2>1, <2>4 DEF CreateWatcher, UsersOf
  <2>5. UsersOf(m) # {}
        BY <2>2
  <2>6. [n \in Messages |-> UsersOf(n)]'
          = [[n \in Messages |-> UsersOf(n)] EXCEPT ![m] = @ \cup {p}]
        BY <2>3, <2>4
  <2> QED BY <2>1, <2>5, <2>6 DEF Life!Join
<1>3. ASSUME NEW h \in Handlers, SpawningDone(h)
      PROVE  Life!Leave(cur[h], h)
  <2> USE <1>3 DEF SpawningDone
  <2>1. cur[h] \in Messages /\ h \in UsersOf(cur[h])
        BY DEF UsersOf
  <2>2. UsersOf(cur[h])' = UsersOf(cur[h]) \ {h}
        BY DEF UsersOf
  <2>3. ASSUME NEW n \in Messages, n # cur[h] PROVE UsersOf(n)' = UsersOf(n)
        BY <2>3 DEF UsersOf
  <2> QED BY <2>1, <2>2, <2>3, ZenonT(60) DEF Life!Leave
<1>4. ASSUME NEW p \in Procs, LeaveLoop(p)
      PROVE  Life!Leave(cur[p], p)
  <2> USE <1>4 DEF LeaveLoop, msgVars
  <2>1. cur[p] \in Messages /\ p \in UsersOf(cur[p])
        BY DEF UsersOf
  <2>2. UsersOf(cur[p])' = UsersOf(cur[p]) \ {p}
        BY DEF UsersOf
  <2>3. ASSUME NEW n \in Messages, n # cur[p] PROVE UsersOf(n)' = UsersOf(n)
        BY <2>3 DEF UsersOf
  <2> QED BY <2>1, <2>2, <2>3, ZenonT(60) DEF Life!Leave
<1>5. ASSUME NEW t \in Handlers \cup Procs, FreeMsg(t)
      PROVE  Life!Free(cur[t]) \/ UNCHANGED Life!vars
  <2> USE <1>5 DEF FreeMsg, Return
  <2>1. cur[t] \in Messages /\ mem[cur[t]] # "none"
        BY DEF LifeInv, HolderInv
  <2>2. UsersOf(cur[t]) = {}
    <3>1. done[cur[t]] /\ holders[cur[t]] = {}
          BY DEF LifeInv, FreeInv
    <3> QED BY <2>1, <3>1, SMTT(60) DEF UsersOf, LifeInv, SpawnerInv, HolderInv, Fresh
  <2>3. \A m \in Messages : UsersOf(m)' = UsersOf(m)
        BY DEF UsersOf
  <2>4. CASE mem[cur[t]] = "live"
        BY <2>1, <2>2, <2>3, <2>4 DEF Life!Free
  <2>5. CASE mem[cur[t]] = "freed"
    <3>1. mem' = mem BY <2>1, <2>5
    <3> QED BY <2>3, <3>1 DEF Life!vars
  <2> QED BY <2>1, <2>4, <2>5
<1>6. ASSUME NEW h \in Handlers,
             \/ \E p \in Procs : SpawnMod(h, p)
             \/ LockMods(h) \/ AccessFails(h) \/ Fork(h) \/ CreateFails(h)
             \/ RegisterMsgHolder(h) \/ InsertMod(h)
      PROVE  SameUsers
      BY <1>6 DEF SpawnMod, LockMods, AccessFails, CreateFails, SpawnModFail, Fork,
                  RegisterMsgHolder, InsertMod, msgVars, modVars, SameUsers
<1>7. ASSUME NEW t \in Handlers \cup Procs, TestHolders(t) PROVE SameUsers
      BY <1>7 DEF TestHolders, Return, msgVars, SameUsers
<1>8. ASSUME NEW p \in Procs,
             \/ WatcherStart(p) \/ UnregisterMsgHolder(p) \/ FreeCheck(p) \/ WatcherExit(p)
      PROVE  SameUsers
      BY <1>8 DEF WatcherStart, UnregisterMsgHolder, FreeCheck, WatcherExit,
                  Return, msgVars, SameUsers
<1>9. CASE \/ \E p \in Procs : ChildExit(p)
           \/ \E t \in Threads : SigChld(t) \/ SignalStep(t)
           \/ UNCHANGED vars
      BY <1>9, SignalsAreQuiet, SameUsersStutters DEF LifeStep, QuietStep, SameUsers
<1>10. ASSUME NEW h \in Handlers,
              \/ \E m \in Messages : ToVinny(h, m)
              \/ CreateWatcher(h) \/ SpawningDone(h)
       PROVE  Life!Next
       BY <1>1, <1>2, <1>3, <1>10 DEF CreateWatcher, SpawningDone, Life!Next
<1>11. ASSUME NEW p \in Procs, LeaveLoop(p) PROVE Life!Next
       BY <1>4, <1>11 DEF LeaveLoop, Life!Next
<1>12. ASSUME NEW t \in Handlers \cup Procs, FreeMsg(t) PROVE LifeStep
  <2>1. cur[t] \in Messages BY <1>12 DEF FreeMsg
  <2> QED BY <1>5, <1>12, <2>1 DEF LifeStep, Life!Next
<1>13. SameUsers => LifeStep
       BY SameUsersStutters DEF LifeStep
<1>14. Life!Next => LifeStep
       BY DEF LifeStep
<1>15. ASSUME NEW h \in Handlers, HandlerStep(h) \/ \E m \in Messages : ToVinny(h, m)
       PROVE  LifeStep
  <2>1. CASE \/ \E m \in Messages : ToVinny(h, m)
             \/ CreateWatcher(h) \/ SpawningDone(h)
        BY <1>10, <1>14, <2>1
  <2>2. CASE \/ \E p \in Procs : SpawnMod(h, p)
             \/ LockMods(h) \/ AccessFails(h) \/ Fork(h) \/ CreateFails(h)
             \/ RegisterMsgHolder(h) \/ InsertMod(h)
        BY <1>6, <1>13, <2>2
  <2>3. CASE TestHolders(h) \/ FreeMsg(h)
        BY <1>7, <1>12, <1>13, <2>3
  <2> QED BY <1>15, <2>1, <2>2, <2>3 DEF HandlerStep, SpawnStep
<1>16. ASSUME NEW p \in Procs, WatcherStep(p) PROVE LifeStep
       BY <1>7, <1>8, <1>11, <1>12, <1>16, <1>13, <1>14 DEF WatcherStep, WatcherEof
<1>17. ASSUME NEW p \in Procs, WatcherTakesByteForEof(p) \/ ChildExit(p) PROVE LifeStep
       BY <1>9, <1>11, <1>14, <1>17 DEF WatcherTakesByteForEof
<1>18. ASSUME NEW t \in Threads, SigChld(t) \/ SignalStep(t) PROVE LifeStep
       BY <1>9, <1>18
<1>19. CASE UNCHANGED vars
       BY <1>9, <1>19
<1> QED BY <1>15, <1>16, <1>17, <1>18, <1>19 DEF Next

(* The code implements MsgLife: every step of to_vinny, of a watcher and of *)
(* the signal handler is one step of the promise or does not concern it     *)
(* (vinny.c:34-75 and 148-204, watcher.c, mods.c:41-122).                   *)
THEOREM ImplementsMsgLife == Spec => LifeSpec
<1>1. Init => TypeInv /\ LifeInv
      BY InitTypeInv, InitLifeInv
<1>2. TypeInv /\ LifeInv /\ [Next]_vars => (TypeInv /\ LifeInv)'
      BY StepTypeInv, StepLifeInv
<1> QED BY <1>1, <1>2, InitRefines, StepRefines, PTL DEF Spec, LifeSpec, Life!Spec, LifeStep
=============================================================================
