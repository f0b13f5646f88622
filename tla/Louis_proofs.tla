---------------------------- MODULE Louis_proofs ----------------------------
(* Theorems about Louis, for any scripts, messages and calls of periodics   *)
(* and any number of loads: its type invariant, that an extension is used   *)
(* by one thread at a time, that a function sees the message it was run     *)
(* for, and that a reload only hurts messages that came before.             *)
EXTENDS Louis, InductionLemmas, FiniteSetTheorems, SequenceTheorems, TLAPS

(***************************************************************************)
(* The places of the hooks of a directory, and how many come before one.   *)
(***************************************************************************)
LEMMA DirType ==
  ASSUME NEW d \in Dirs
  PROVE  /\ d \in Seq(Scripts) /\ Len(d) \in Nat /\ DOMAIN d = 1..Len(d)
         /\ \A i \in DOMAIN d : /\ d[i] \in Scripts /\ d[i].timed \in BOOLEAN
                                /\ d[i].hooks \in Seq(Hooked) /\ Len(d[i].hooks) \in Nat
                                /\ DOMAIN d[i].hooks = 1..Len(d[i].hooks)
<1>1. d \in Seq(Scripts)
      BY DirsAssumption
<1>2. \A s \in Scripts : s.hooks \in Seq(Hooked) /\ s.timed \in BOOLEAN
      BY DirsAssumption
<1> QED BY <1>1, <1>2

LEMMA PlaceType ==
  ASSUME NEW d \in Dirs, NEW p \in Places(d)
  PROVE  /\ p = <<p[1], p[2]>> /\ p[1] \in Nat /\ p[2] \in Nat
         /\ p[1] \in DOMAIN d /\ p[2] \in DOMAIN d[p[1]].hooks
         /\ d[p[1]].hooks[p[2]] \in Hooked
<1>1. PICK i \in DOMAIN d : \E j \in DOMAIN d[i].hooks : p = <<i, j>>
      BY DEF Places
<1>2. PICK j \in DOMAIN d[i].hooks : p = <<i, j>>
      BY <1>1
<1>3. d[i].hooks[j] \in Hooked
      BY DirType
<1> QED BY <1>1, <1>2, <1>3, DirType

LEMMA PlacesFinite ==
  ASSUME NEW d \in Dirs
  PROVE  IsFiniteSet(Places(d))
<1> DEFINE I == 1..Len(d)
           f == [i \in I |-> {<<i, j>> : j \in DOMAIN d[i].hooks}]
           R == {f[i] : i \in I}
<1>1. IsFiniteSet(I)
      BY DirType, FS_Interval
<1>2. ASSUME NEW i \in I PROVE IsFiniteSet(f[i])
  <2> DEFINE J == 1..Len(d[i].hooks)
             g == [j \in J |-> <<i, j>>]
  <2>1. IsFiniteSet(J)
    <3>1. i \in DOMAIN d
          BY DirType
    <3>2. 1 \in Int /\ Len(d[i].hooks) \in Int
          BY <3>1, DirType
    <3> QED BY <3>2, FS_Interval, Zenon
  <2>2. f[i] = {<<i, j>> : j \in J}
        BY DirType
  <2>3. g \in Surjection(J, f[i])
        BY <2>2 DEF Surjection
  <2> QED BY <2>1, <2>3, FS_Surjection
<1>3. f \in Surjection(I, R)
      BY DEF Surjection
<1>4. IsFiniteSet(R)
      BY <1>1, <1>3, FS_Surjection
<1>5. Places(d) = UNION R
      BY DirType DEF Places
<1> QED BY <1>2, <1>4, <1>5, FS_UNION

LEMMA RankType ==
  ASSUME NEW d \in Dirs, NEW p
  PROVE  IsFiniteSet(Before(d, p)) /\ Cardinality(Before(d, p)) \in Nat
BY PlacesFinite, FS_Subset, FS_CardinalityType DEF Before

LEMMA RankGrows ==
  ASSUME NEW d \in Dirs, NEW c \in Nat \X Nat, NEW p \in Places(d), p \in Before(d, c)
  PROVE  Cardinality(Before(d, p)) < Cardinality(Before(d, c))
<1>1. Before(d, p) \subseteq Before(d, c)
      BY PlaceType DEF Before
<1>2. p \notin Before(d, p)
      BY PlaceType DEF Before
<1>3. /\ Cardinality(Before(d, p)) <= Cardinality(Before(d, c))
      /\ Cardinality(Before(d, p)) # Cardinality(Before(d, c))
      BY <1>1, <1>2, RankType, FS_Subset
<1> QED BY <1>3, RankType

LEMMA RankTells ==
  ASSUME NEW d \in Dirs, NEW p \in Places(d), NEW q \in Places(d),
         Cardinality(Before(d, p)) = Cardinality(Before(d, q))
  PROVE  p = q
<1>1. p \in Nat \X Nat /\ q \in Nat \X Nat
      BY PlaceType
<1>2. p \notin Before(d, q) /\ q \notin Before(d, p)
      BY <1>1, RankGrows, RankType
<1> QED BY <1>2, PlaceType DEF Before

LEMMA RankIsFid ==
  ASSUME NEW d \in Dirs, NEW p \in Places(d)
  PROVE  Cardinality(Before(d, p)) \in Fids
<1>1. Before(d, p) \subseteq Places(d) /\ p \notin Before(d, p)
      BY PlaceType DEF Before
<1>2. Cardinality(Before(d, p)) < Cardinality(Places(d)) /\ Cardinality(Places(d)) \in Nat
  <2>1. /\ Cardinality(Before(d, p)) <= Cardinality(Places(d))
        /\ Cardinality(Before(d, p)) # Cardinality(Places(d))
        BY <1>1, PlacesFinite, FS_Subset
  <2> QED BY <2>1, RankType, PlacesFinite, FS_CardinalityType
<1>3. Cardinality(Before(d, p)) \in 0..(Cardinality(Places(d)) - 1)
      BY <1>2, RankType
<1> QED BY <1>3, DirsAssumption

LEMMA BeforeFirst ==
  ASSUME NEW d \in Dirs
  PROVE  Before(d, <<1, 1>>) = {}
<1>1. ASSUME NEW p \in Before(d, <<1, 1>>) PROVE FALSE
  <2>1. p \in Places(d) /\ (p[1] < 1 \/ (p[1] = 1 /\ p[2] < 1))
        BY DEF Before
  <2>2. p[1] >= 1 /\ p[2] >= 1
        BY <2>1, PlaceType, DirType
  <2> QED BY <2>1, <2>2, PlaceType
<1> QED BY <1>1

LEMMA BeforeNext ==
  ASSUME NEW d \in Dirs, NEW i \in DOMAIN d, NEW j \in DOMAIN d[i].hooks
  PROVE  /\ <<i, j>> \in Places(d)
         /\ Before(d, <<i, j + 1>>) = Before(d, <<i, j>>) \cup {<<i, j>>}
         /\ Cardinality(Before(d, <<i, j + 1>>)) = Cardinality(Before(d, <<i, j>>)) + 1
<1>1. <<i, j>> \in Places(d) /\ i \in Nat /\ j \in Nat
      BY DirType DEF Places
<1>2. <<i, j>> \notin Before(d, <<i, j>>)
      BY <1>1 DEF Before
<1>3. ASSUME NEW p \in Places(d)
      PROVE  p \in Before(d, <<i, j + 1>>) <=> p \in Before(d, <<i, j>>) \/ p = <<i, j>>
      BY <1>1, PlaceType DEF Before
<1>4. Before(d, <<i, j + 1>>) = Before(d, <<i, j>>) \cup {<<i, j>>}
      BY <1>1, <1>3 DEF Before
<1> QED BY <1>1, <1>2, <1>4, RankType, FS_AddElement

LEMMA BeforeTurn ==
  ASSUME NEW d \in Dirs, NEW i \in DOMAIN d
  PROVE  Before(d, <<i, Len(d[i].hooks) + 1>>) = Before(d, <<i + 1, 1>>)
<1>1. ASSUME NEW p \in Places(d)
      PROVE  p \in Before(d, <<i, Len(d[i].hooks) + 1>>) <=> p \in Before(d, <<i + 1, 1>>)
  <2>1. p[1] \in Nat /\ p[2] \in Nat /\ p[2] >= 1 /\ i \in Nat
        BY PlaceType, DirType
  <2>2. p[1] = i => p[2] < Len(d[i].hooks) + 1
        BY PlaceType, DirType, SMTT(60)
  <2> QED BY <2>1, <2>2 DEF Before
<1> QED BY <1>1 DEF Before

(***************************************************************************)
(* The inductive invariant.  One part says how far the main thread is with *)
(* loading or freeing the extensions of the directory, the next what is in *)
(* the arrays at that point, then who has the mutex of an extension, and   *)
(* what a thread still knows of the hook it was started for.               *)
(***************************************************************************)
Loading == main.pc \in {"load", "reg", "set"}
Taken == main.pc \in {"lock", "hooks", "unlock", "free"}
Freeing == Taken \/ main.pc = "take"
Empty == ~loaded \/ main.pc = "init"

Current(i) == [e |-> i, n |-> loads]
Rank(p) == Cardinality(Before(dir, p))
Cursor == <<main.i, IF main.pc = "load" THEN 1 ELSE main.j>>

\* Where the main thread is in the directory.
MainInv ==
    /\ main.pc # "idle" => loaded
    /\ main.pc # "idle" /\ ~Loading /\ main.op # "unload" => loads < MaxLoads
    /\ main.pc = "init" => main.op # "unload"
    /\ main.pc = "periodics" => main.i = 1
    /\ Loading \/ Freeing => main.i \in 1..(Len(dir) + 1)
    /\ Taken \/ main.pc \in {"reg", "set"} => main.i \in DOMAIN dir /\ main.x = Current(main.i)
    /\ main.pc = "reg" => main.j \in 1..(Len(dir[main.i].hooks) + 1)
    /\ main.pc = "set" => main.j \in DOMAIN dir[main.i].hooks

\* exts has the scripts of the directory in their order, but for those that
\* are freed or not yet loaded.
Gone(k) == Freeing /\ (k < main.i \/ (k = main.i /\ Taken))

ExtsInv ==
    /\ Empty => exts = <<>>
    /\ ~Empty => /\ loads > 0
                 /\ Len(exts) = CASE main.pc = "load" -> main.i - 1
                                  [] main.pc \in {"reg", "set"} -> main.i
                                  [] OTHER -> Len(dir)
                 /\ \A k \in DOMAIN exts : exts[k] = IF Gone(k) THEN None ELSE Current(k)

\* The freed extensions are of earlier loads, or of this one, which ends.
DeadInv == \A x \in dead : /\ x.n <= loads
                           /\ x.n = loads => Empty \/ (Freeing /\ x.e < main.i)

\* The hook of a script in the array of hooks.
HookOf(p) == LET h == dir[p[1]].hooks[p[2]]
             IN [ext |-> Current(p[1]), key |-> h.key, fname |-> h.fname, cmds |-> h.cmds]

InArray(p) == /\ ~Empty
              /\ Loading => p \in Before(dir, Cursor)
              /\ Freeing => main.i <= p[1] /\ (main.pc \in {"unlock", "free"} => main.i < p[1])

ArrayInv == \A f \in Fids : hooks[f] # None =>
                \E p \in Places(dir) : InArray(p) /\ Rank(p) = f /\ hooks[f] = HookOf(p)

CountInv == /\ Empty => hookc = 0
            /\ main.pc \in {"load", "reg"} => hookc = Rank(Cursor)
            /\ main.pc = "set" => hookc = Rank(Cursor) + 1

\* The core knows of no other hooks, but for the one being registered.
Pending(h) == /\ main.pc = "set" /\ h.fid = hookc - 1
              /\ h.key = dir[main.i].hooks[main.j].key

TableInv == \A h \in table : Pending(h) \/ (hooks[h.fid] # None /\ hooks[h.fid].key = h.key)

\* The owners of the mutexes.
OwnInv ==
    /\ \A t \in Threads : thread[t].pc \in {"locked", "run", "asked"} => owner[thread[t].x] = t
    /\ \A k \in Calls : call[k].pc = "run" => owner[call[k].x] = k
    /\ main.pc \in {"hooks", "unlock"} => owner[main.x] = Main

\* The extension a thread found is its hook's for as long as it is there.
Hangs(t) == LET x == thread[t].x
                hk == hooks[t[2]]
            IN \/ x \in dead
               \/ hk # None /\ hk.ext = x
               \/ hk = None /\ main.pc \in {"unlock", "free"} /\ main.x = x

ThreadInv ==
    /\ \A k \in Calls : call[k].pc \in {"lock", "run"} => call[k].x \in Extensions
    /\ \A t \in Threads :
          /\ thread[t].pc \in {"lock", "locked", "run", "asked"} => thread[t].x \in Extensions /\ Hangs(t)
          /\ thread[t].pc \in {"run", "asked"} =>
                 /\ thread[t].hk \in Hook /\ thread[t].hk.ext = thread[t].x
                 /\ S[thread[t].x] = t

\* What is true of the messages that came after the last command.
CalmInv ==
    /\ \A t \in Threads : pending[t[1]] = None => thread[t].pc = "none"
    /\ calm # {} => main.pc = "idle" /\ loaded
    /\ \A m \in calm : pending[m] # None
    /\ \A t \in Threads : t[1] \in calm =>
          LET hk == hooks[t[2]]
              active == thread[t].pc \notin {"none", "done"}
          IN /\ active \/ t[2] \in pending[t[1]] => hk # None /\ hk.key = t[1].key
             /\ active /\ hk.cmds # <<>> => match_cmds(t[1].tail, hk.cmds)
             /\ thread[t].pc \in {"lock", "locked", "run", "asked"} => thread[t].x = hk.ext
             /\ thread[t].pc \in {"run", "asked"} => thread[t].hk = hk

Inv == /\ TypeOK /\ MainInv /\ ExtsInv /\ DeadInv /\ ArrayInv /\ CountInv /\ TableInv
       /\ OwnInv /\ ThreadInv /\ CalmInv
-----------------------------------------------------------------------------
(***************************************************************************)
(* The steps of the main thread change the arrays, those of the others the *)
(* threads; both take and give back mutexes.                               *)
(***************************************************************************)
MainDisjuncts == \/ DestroyPeriodics \/ TakeExt \/ LockExt \/ FreeHooks \/ UnlockExt \/ FreeExt
                 \/ init_louis \/ load_ext \/ l_register_hook \/ SetHook
                 \/ \E op \in {"load", "unload", "reload"} : Command(op)

ThreadStep == \/ \E m \in Messages : Receive(m)
              \/ \E t \in Threads : to_louis(t[1], t[2]) \/ exec_hook(t)
              \/ \E k \in Calls : call_periodic(k) \/ \E x \in Extensions : run_periodic(k, x)
LEMMA StepKinds == Next => MainDisjuncts \/ ThreadStep
BY DEF Next, MainStep, MainDisjuncts, ThreadStep

LEMMA ThreadsLeaveMain == ThreadStep => UNCHANGED mainVars
BY ZenonT(60) DEF ThreadStep, Receive, to_louis, exec_hook, Start, Lock, Enter, Ask, Unlock, Unmapped, At,
       call_periodic, run_periodic

LEMMA MainLeavesThreads == MainDisjuncts => UNCHANGED <<pending, thread, call>>
BY ZenonT(60) DEF MainDisjuncts, Command, DestroyPeriodics, TakeExt, LockExt, FreeHooks, UnlockExt, FreeExt,
       init_louis, load_ext, l_register_hook, SetHook, others

(***************************************************************************)
(* Types.                                                                  *)
(***************************************************************************)
Fault == [cause : {"none", "closed", "stale", "in use", "unmapped"}, by : Messages \cup {None}]

LEMMA FailType ==
  ASSUME NEW m \in Messages \cup {None}, NEW cause \in {"stale", "in use", "unmapped", "closed"}, Fail(cause, m)
  PROVE  fault' \in Fault
BY DEF Fail, Fault

LEMMA CurrentType ==
  ASSUME TypeOK, loads > 0, NEW i \in DOMAIN dir
  PROVE  Current(i) \in Extensions
<1>1. i \in UNION {DOMAIN d : d \in Dirs}
      BY DEF TypeOK
<1>2. loads \in 1..MaxLoads
  <2>1. loads \in 0..MaxLoads
        BY DEF TypeOK
  <2>2. MaxLoads \in Nat
        BY DirsAssumption
  <2> QED BY <2>1, <2>2
<1> QED BY <1>1, <1>2 DEF Current, Extensions

LEMMA MainType ==
  ASSUME NEW s \in MainState
  PROVE  /\ \A pc \in {"idle", "periodics", "take", "lock", "hooks", "unlock", "free", "init", "load", "reg", "set"} :
               [s EXCEPT !.pc = pc] \in MainState
         /\ \A op \in {"load", "unload", "reload"} : [s EXCEPT !.op = op] \in MainState
         /\ \A x \in Extensions \cup {None} : [s EXCEPT !.x = x] \in MainState
         /\ \A n \in Nat : [s EXCEPT !.i = n] \in MainState /\ [s EXCEPT !.j = n] \in MainState
         /\ s.i \in Nat /\ s.j \in Nat
BY DEF MainState

LEMMA IdleType == Idle \in MainState
BY DEF Idle, MainState

LEMMA MainKeepsTypes == Inv /\ MainDisjuncts => TypeOK'
<1> SUFFICES ASSUME Inv, MainDisjuncts PROVE TypeOK'
    OBVIOUS
<1>1. /\ TypeOK /\ MainInv /\ ExtsInv /\ CountInv
      /\ main \in MainState
      /\ exts \in Seq(Extensions \cup {None})
      /\ dir \in Dirs /\ DOMAIN dir = 1..Len(dir)
      /\ main.i \in Nat /\ main.j \in Nat
      BY DirType, MainType DEF Inv, TypeOK
<1>2. UNCHANGED <<pending, thread, call>>
      BY MainLeavesThreads
<1> USE <1>1, <1>2 DEF others
<1>3. CASE \E op \in {"load", "unload", "reload"} : Command(op)
  <2>1. PICK op \in {"load", "unload", "reload"} : Command(op)
        BY <1>3
  <2>2. main' \in MainState
    <3>1. [[main EXCEPT !.op = op] EXCEPT !.i = 1] \in MainState
          BY MainType
    <3> QED BY <2>1, <3>1, MainType DEF Command
  <2> QED BY <2>1, <2>2 DEF Command, TypeOK
<1>4. CASE DestroyPeriodics
  <2>1. main' \in MainState
        BY <1>4, MainType DEF DestroyPeriodics, Goto
  <2>2. fault' \in Fault
        BY <1>4, FailType DEF DestroyPeriodics, TypeOK, Fault
  <2> QED BY <1>4, <2>1, <2>2 DEF DestroyPeriodics, TypeOK, Fault
<1>5. CASE TakeExt
  <2>1. CASE main.i <= Len(exts)
    <3>1. main.i \in DOMAIN exts /\ exts[main.i] \in Extensions \cup {None}
          BY <1>5, <2>1 DEF TakeExt, MainInv, Freeing
    <3>2. main' \in MainState
      <4>1. [[main EXCEPT !.pc = "lock"] EXCEPT !.x = exts[main.i]] \in MainState
            BY <3>1, MainType
      <4> QED BY <1>5, <2>1, <4>1 DEF TakeExt
    <3>3. exts' \in Seq(Extensions \cup {None})
          BY <1>5, <2>1, <3>1 DEF TakeExt
    <3> QED BY <1>5, <2>1, <3>2, <3>3 DEF TakeExt, TypeOK
  <2>2. CASE ~(main.i <= Len(exts))
    <3>1. main' \in MainState
          BY <1>5, <2>2, MainType, IdleType DEF TakeExt
    <3>2. exts' \in Seq(Extensions \cup {None}) /\ hookc' \in Nat /\ loaded' \in BOOLEAN
          BY <1>5, <2>2 DEF TakeExt
    <3>3. UNCHANGED <<dir, pending, thread, call, hooks, table, loads, dead, owner, S, calm, fault>>
          BY <1>5 DEF TakeExt
    <3> QED BY <3>1, <3>2, <3>3 DEF TypeOK
  <2> QED BY <2>1, <2>2
<1>6. CASE LockExt \/ UnlockExt
  <2>1. main' \in MainState
    <3>1. \E pc \in {"hooks", "free"} : main' = [main EXCEPT !.pc = pc]
          BY <1>6 DEF LockExt, UnlockExt, Goto
    <3> QED BY <3>1, MainType
  <2> QED BY <1>6, <2>1 DEF LockExt, UnlockExt, TypeOK
<1>7. CASE FreeHooks
  <2>1. main' \in MainState
        BY <1>7, MainType DEF FreeHooks, Goto
  <2> QED BY <1>7, <2>1 DEF FreeHooks, TypeOK
<1>8. CASE FreeExt
  <2>1. main.x \in Extensions
        BY <1>8, CurrentType DEF FreeExt, MainInv, ExtsInv, Taken, Empty
  <2>2. main' \in MainState
    <3>1. [[main EXCEPT !.pc = "take"] EXCEPT !.x = None] \in MainState
          BY MainType
    <3>2. main.i + 1 \in Nat
          OBVIOUS
    <3> QED BY <1>8, <3>1, <3>2, MainType DEF FreeExt
  <2> QED BY <1>8, <2>1, <2>2 DEF FreeExt, TypeOK
<1>9. CASE init_louis
  <2>1. exts = <<>> /\ loads < MaxLoads /\ dir' \in Dirs
        BY <1>9 DEF init_louis, ExtsInv, MainInv, Empty, Loading
  <2>2. exts' = <<>>
        BY <1>9, <2>1 DEF init_louis
  <2>3. main' \in MainState
    <3>1. [main EXCEPT !.pc = "load"] \in MainState
          BY MainType
    <3> QED BY <1>9, <3>1, MainType DEF init_louis
  <2>4. loads' \in 0..MaxLoads
    <3>1. loads \in 0..MaxLoads /\ MaxLoads \in Nat
          BY DirsAssumption DEF TypeOK
    <3> QED BY <1>9, <2>1, <3>1 DEF init_louis
  <2>5. hooks' \in [Fids -> Hook \cup {None}]
        BY <1>9 DEF init_louis
  <2> QED BY <1>9, <2>1, <2>2, <2>3, <2>4, <2>5 DEF init_louis, TypeOK
<1>10. CASE load_ext
  <2>1. CASE main.i > Len(dir)
        BY <1>10, <2>1, IdleType DEF load_ext, TypeOK
  <2>2. CASE ~(main.i > Len(dir))
    <3>1. main.i \in DOMAIN dir /\ loads > 0
          BY <1>10, <2>2 DEF load_ext, MainInv, ExtsInv, Loading, Empty
    <3>2. Current(main.i) \in Extensions
          BY <3>1, CurrentType
    <3>3. main' \in MainState
      <4>1. [[main EXCEPT !.pc = "reg"] EXCEPT !.x = Current(main.i)] \in MainState
            BY <3>2, MainType
      <4>2. [[[main EXCEPT !.pc = "reg"] EXCEPT !.x = Current(main.i)] EXCEPT !.j = 1] \in MainState
            BY <4>1, MainType
      <4> QED BY <1>10, <2>2, <4>2 DEF load_ext, Current
    <3>4. exts' \in Seq(Extensions \cup {None})
          BY <1>10, <2>2, <3>2 DEF load_ext, Current
    <3> QED BY <1>10, <2>2, <3>3, <3>4 DEF load_ext, TypeOK
  <2> QED BY <2>1, <2>2
<1>11. CASE l_register_hook
  <2> DEFINE todo == dir[main.x.e].hooks
  <2>1. main.x.e = main.i /\ main.i \in DOMAIN dir /\ hookc = Rank(<<main.i, main.j>>)
        BY <1>11 DEF l_register_hook, MainInv, Current, CountInv, Cursor
  <2>2. CASE main.j > Len(todo)
    <3>1. [main EXCEPT !.pc = "load"] \in MainState
          BY MainType
    <3>2. main.i + 1 \in Nat
          OBVIOUS
    <3>3. main' \in MainState
          BY <1>11, <2>2, <3>1, <3>2, MainType, ZenonT(60) DEF l_register_hook
    <3> QED BY <1>11, <2>2, <3>3 DEF l_register_hook, TypeOK
  <2>3. CASE ~(main.j > Len(todo))
    <3>1. main.j \in DOMAIN dir[main.i].hooks
          BY <1>11, <2>1, <2>3, DirType DEF l_register_hook, MainInv
    <3>2. hookc \in Fids /\ todo[main.j] \in Hooked
      <4>1. <<main.i, main.j>> \in Places(dir)
            BY <2>1, <3>1, BeforeNext
      <4> QED BY <2>1, <4>1, RankIsFid, PlaceType DEF Rank
    <3>3. [key |-> todo[main.j].key, fid |-> hookc] \in [key : Keys, fid : Fids]
          BY <3>2 DEF Keys
    <3>4. main' \in MainState
          BY <1>11, <2>3, MainType DEF l_register_hook, Goto
    <3>5. hookc' \in Nat /\ table' \subseteq [key : Keys, fid : Fids]
      <4>1. hookc \in Nat /\ table \subseteq [key : Keys, fid : Fids]
            BY DEF TypeOK
      <4> QED BY <1>11, <2>3, <3>3, <4>1, SMTT(60) DEF l_register_hook
    <3> QED BY <1>11, <2>3, <3>4, <3>5 DEF l_register_hook, TypeOK
  <2> QED BY <2>2, <2>3
<1>12. CASE SetHook
  <2> DEFINE h == dir[main.x.e].hooks[main.j]
             new == [ext |-> main.x, key |-> h.key, fname |-> h.fname, cmds |-> h.cmds]
  <2>1. main.i \in DOMAIN dir /\ main.x = Current(main.i) /\ main.j \in DOMAIN dir[main.i].hooks
        BY <1>12 DEF SetHook, MainInv
  <2>2. h \in Hooked
    <3>1. <<main.i, main.j>> \in Places(dir)
          BY <2>1, BeforeNext
    <3> QED BY <2>1, <3>1, PlaceType DEF Current
  <2>3. main.x \in Extensions
        BY <1>12, <2>1, CurrentType DEF SetHook, ExtsInv, MainInv, Empty
  <2>4. new \in Hook
        BY <2>2, <2>3, SMTT(60) DEF Hook, Keys
  <2>5. main' \in MainState
    <3>1. [main EXCEPT !.pc = "reg"] \in MainState
          BY MainType
    <3>2. main.j + 1 \in Nat
          BY SMTT(60)
    <3> QED BY <1>12, <3>1, <3>2, MainType DEF SetHook
  <2>6. hooks' \in [Fids -> Hook \cup {None}]
    <3>1. hooks \in [Fids -> Hook \cup {None}]
          BY DEF TypeOK
    <3> QED BY <1>12, <2>4, <3>1 DEF SetHook
  <2> QED BY <1>12, <2>5, <2>6, ZenonT(60) DEF SetHook, TypeOK
<1> QED BY <1>3, <1>4, <1>5, <1>6, <1>7, <1>8, <1>9, <1>10, <1>11, <1>12 DEF MainDisjuncts

LEMMA ThreadsKeepTypes == Inv /\ ThreadStep => TypeOK'
<1> SUFFICES ASSUME Inv, ThreadStep PROVE TypeOK'
    OBVIOUS
<1>1. /\ owner \in [Extensions -> Threads \cup Calls \cup {Main, None}]
      /\ S \in [Extensions -> Threads \cup {None}]
      /\ pending \in [Messages -> (SUBSET Fids) \cup {None}]
      /\ thread \in [Threads -> ThreadState]
      /\ call \in [Calls -> CallState]
      /\ calm \subseteq Messages
      /\ fault \in Fault
      /\ hooks \in [Fids -> Hook \cup {None}]
      /\ table \subseteq [key : Keys, fid : Fids]
      BY DEF Inv, TypeOK, Fault
<1>2. /\ ThreadInv
      /\ \A t \in Threads : t[1] \in Messages /\ t[2] \in Fids /\ t = <<t[1], t[2]>>
      BY DEF Inv, Threads
<1> DEFINE Types == /\ owner \in [Extensions -> Threads \cup Calls \cup {Main, None}]
                    /\ S \in [Extensions -> Threads \cup {None}]
                    /\ pending \in [Messages -> (SUBSET Fids) \cup {None}]
                    /\ thread \in [Threads -> ThreadState]
                    /\ call \in [Calls -> CallState]
                    /\ calm \subseteq Messages
                    /\ fault \in Fault
<1>3. SUFFICES Types'
  <2>1. UNCHANGED mainVars
        BY ThreadsLeaveMain
  <2> QED BY <2>1 DEF mainVars, Inv, TypeOK, Fault
<1>4. ASSUME NEW m \in Messages, Receive(m) PROVE Types'
  <2>1. {h.fid : h \in {h \in table : h.key = m.key}} \in SUBSET Fids
        BY <1>1
  <2> QED BY <1>1, <1>4, <2>1 DEF Receive
<1>5. ASSUME NEW t \in Threads, to_louis(t[1], t[2]) PROVE Types'
  <2>1. fault' \in Fault
        BY <1>1, <1>2, <1>5, FailType DEF to_louis
  <2>2. [thread[t] EXCEPT !.pc = "start"] \in ThreadState
        BY <1>1 DEF ThreadState
  <2>3. thread' \in [Threads -> ThreadState]
        BY <1>1, <1>2, <1>5, <2>2 DEF to_louis
  <2>4. pending' \in [Messages -> (SUBSET Fids) \cup {None}]
    <3>1. pending[t[1]] \ {t[2]} \in SUBSET Fids
          BY <1>1, <1>2, <1>5 DEF to_louis
    <3> QED BY <1>1, <1>2, <1>5, <3>1 DEF to_louis
  <2> QED BY <1>1, <1>5, <2>1, <2>3, <2>4 DEF to_louis
<1>6. ASSUME NEW t \in Threads, Start(t) PROVE Types'
  <2>1. hooks[t[2]] # None => hooks[t[2]] \in Hook /\ hooks[t[2]].ext \in Extensions
        BY <1>1, <1>2 DEF Hook
  <2>2. thread' \in [Threads -> ThreadState]
        BY <1>1, <1>6, <2>1 DEF Start, At, ThreadState
  <2>3. fault' \in Fault
        BY <1>1, <1>2, <1>6, FailType DEF Start
  <2> QED BY <1>1, <1>6, <2>2, <2>3 DEF Start, At
<1>7. ASSUME NEW t \in Threads, Lock(t) PROVE Types'
  <2>1. thread' \in [Threads -> ThreadState]
        BY <1>1, <1>7 DEF Lock, ThreadState
  <2>2. owner' \in [Extensions -> Threads \cup Calls \cup {Main, None}]
        BY <1>1, <1>7 DEF Lock
  <2>3. fault' \in Fault
        BY <1>1, <1>2, <1>7, FailType DEF Lock
  <2> QED BY <1>1, <1>7, <2>1, <2>2, <2>3 DEF Lock, At
<1>8. ASSUME NEW t \in Threads, Enter(t) PROVE Types'
  <2>1. hooks[t[2]] \in Hook \cup {None}
        BY <1>1, <1>2
  <2>2. thread' \in [Threads -> ThreadState]
    <3>1. [[thread[t] EXCEPT !.pc = "run"] EXCEPT !.hk = hooks[t[2]]] \in ThreadState
          BY <1>1, <2>1, ZenonT(60) DEF ThreadState
    <3> QED BY <1>1, <1>8, <3>1 DEF Enter
  <2>3. S' \in [Extensions -> Threads \cup {None}]
        BY <1>1, <1>8 DEF Enter
  <2>4. fault' \in Fault
        BY <1>1, <1>2, <1>8, FailType DEF Enter
  <2> QED BY <1>1, <1>8, <2>2, <2>3, <2>4 DEF Enter, At
<1>9. ASSUME NEW t \in Threads, Ask(t) PROVE Types'
  <2>1. thread' \in [Threads -> ThreadState]
        BY <1>1, <1>9, SMTT(60) DEF Ask, ThreadState
  <2>2. fault' \in Fault
        BY <1>1, <1>2, <1>9, FailType DEF Ask
  <2> QED BY <1>1, <1>9, <2>1, <2>2 DEF Ask, At
<1>10. ASSUME NEW t \in Threads, Unlock(t) PROVE Types'
  <2>1. thread' \in [Threads -> ThreadState]
    <3>1. [[[thread[t] EXCEPT !.pc = "done"] EXCEPT !.x = None] EXCEPT !.hk = None] \in ThreadState
          BY <1>1, ZenonT(60) DEF ThreadState
    <3> QED BY <1>1, <1>10, <3>1 DEF Unlock
  <2>2. owner' \in [Extensions -> Threads \cup Calls \cup {Main, None}]
        BY <1>1, <1>10 DEF Unlock
  <2>3. fault' \in Fault
        BY <1>1, <1>2, <1>10, FailType DEF Unlock
  <2> QED BY <1>1, <1>10, <2>1, <2>2, <2>3 DEF Unlock, At
<1>11. ASSUME NEW t \in Threads, Unmapped(t) PROVE Types'
  <2>1. fault' \in Fault
        BY <1>2, <1>11, FailType DEF Unmapped
  <2> QED BY <1>1, <1>11, <2>1 DEF Unmapped
<1>12. ASSUME NEW k \in Calls, call_periodic(k) PROVE Types'
  <2>1. call' \in [Calls -> CallState]
        BY <1>1, <1>12, SMTT(60) DEF call_periodic, CallState
  <2>2. owner' \in [Extensions -> Threads \cup Calls \cup {Main, None}]
        BY <1>1, <1>12 DEF call_periodic
  <2> QED BY <1>1, <1>12, <2>1, <2>2 DEF call_periodic
<1>13. ASSUME NEW k \in Calls, NEW x \in Extensions, run_periodic(k, x) PROVE Types'
  <2>1. call' \in [Calls -> CallState]
        BY <1>1, <1>13 DEF run_periodic, CallState
  <2> QED BY <1>1, <1>13, <2>1 DEF run_periodic
<1> HIDE DEF Types
<1> QED
  BY <1>4, <1>5, <1>6, <1>7, <1>8, <1>9, <1>10, <1>11, <1>12, <1>13 DEF ThreadStep, exec_hook

LEMMA InitInv == Init => Inv
<1> SUFFICES ASSUME Init PROVE Inv
    OBVIOUS
<1> USE DEF Init
<1>1. main = Idle /\ Idle \in MainState /\ main.pc = "idle"
      BY IdleType DEF Idle
<1>2. TypeOK
  <2>1. \A t \in Threads : thread[t] \in ThreadState
        BY DEF ThreadState
  <2>2. \A k \in Calls : call[k] \in CallState
        BY DEF CallState
  <2>3. loads \in 0..MaxLoads
        BY DirsAssumption
  <2>4. fault \in Fault
        BY DEF Fault
  <2>5. /\ thread \in [Threads -> ThreadState] /\ call \in [Calls -> CallState]
        /\ exts \in Seq(Extensions \cup {None})
        BY <2>1, <2>2
  <2> QED BY <1>1, <2>3, <2>4, <2>5 DEF TypeOK, Fault
<1>3. MainInv /\ ExtsInv /\ DeadInv /\ ArrayInv /\ CountInv /\ TableInv
      BY <1>1 DEF MainInv, ExtsInv, DeadInv, ArrayInv, CountInv, TableInv, Loading, Freeing, Taken, Empty
<1>4. OwnInv /\ ThreadInv /\ CalmInv
  <2>1. \A t \in Threads : thread[t].pc = "none"
        OBVIOUS
  <2>2. \A k \in Calls : call[k].pc = "none"
        OBVIOUS
  <2>3. calm = {}
        OBVIOUS
  <2> QED BY <1>1, <2>1, <2>2, <2>3 DEF OwnInv, ThreadInv, CalmInv
<1> QED BY <1>2, <1>3, <1>4 DEF Inv

(***************************************************************************)
(* The directory and the arrays.                                           *)
(***************************************************************************)
LEMMA MainFields ==
  ASSUME Inv
  PROVE  /\ dir \in Dirs /\ Len(dir) \in Nat /\ DOMAIN dir = 1..Len(dir)
         /\ main \in MainState /\ main.i \in Nat /\ main.j \in Nat /\ loads \in Nat
         /\ exts \in Seq(Extensions \cup {None}) /\ DOMAIN exts = 1..Len(exts)
         /\ hooks \in [Fids -> Hook \cup {None}] /\ table \subseteq [key : Keys, fid : Fids]
<1>1. TypeOK
      BY DEF Inv
<1>2. dir \in Dirs /\ main \in MainState /\ loads \in 0..MaxLoads /\ exts \in Seq(Extensions \cup {None})
      BY <1>1 DEF TypeOK
<1>3. hooks \in [Fids -> Hook \cup {None}] /\ table \subseteq [key : Keys, fid : Fids]
      BY <1>1 DEF TypeOK
<1>4. Len(dir) \in Nat /\ DOMAIN dir = 1..Len(dir)
      BY <1>2, DirType
<1>5. main.i \in Nat /\ main.j \in Nat
      BY <1>2, MainType
<1>6. loads \in Nat
  <2>1. MaxLoads \in Nat
        BY DirsAssumption
  <2> QED BY <1>2, <2>1
<1>7. DOMAIN exts = 1..Len(exts)
      BY <1>2
<1> QED BY <1>2, <1>3, <1>4, <1>5, <1>6, <1>7, Zenon

LEMMA SetFields ==
  ASSUME NEW s \in MainState, NEW pc, NEW x, NEW n
  PROVE  /\ LET r == [s EXCEPT !.pc = pc]
            IN r.pc = pc /\ r.op = s.op /\ r.x = s.x /\ r.i = s.i /\ r.j = s.j
         /\ LET r == [s EXCEPT !.pc = pc, !.x = x]
            IN r.pc = pc /\ r.op = s.op /\ r.x = x /\ r.i = s.i /\ r.j = s.j
         /\ LET r == [s EXCEPT !.pc = pc, !.x = x, !.i = n]
            IN r.pc = pc /\ r.op = s.op /\ r.x = x /\ r.i = n /\ r.j = s.j
         /\ LET r == [s EXCEPT !.pc = pc, !.i = n]
            IN r.pc = pc /\ r.op = s.op /\ r.x = s.x /\ r.i = n /\ r.j = s.j
         /\ LET r == [s EXCEPT !.pc = pc, !.j = n]
            IN r.pc = pc /\ r.op = s.op /\ r.x = s.x /\ r.i = s.i /\ r.j = n
         /\ LET r == [s EXCEPT !.pc = pc, !.x = x, !.j = n]
            IN r.pc = pc /\ r.op = s.op /\ r.x = x /\ r.i = s.i /\ r.j = n
         /\ LET r == [s EXCEPT !.op = x, !.i = n, !.pc = pc]
            IN r.pc = pc /\ r.op = x /\ r.x = s.x /\ r.i = n /\ r.j = s.j
BY DEF MainState

\* An empty directory has no hooks, and neither has one that was freed.
LEMMA NoHooks ==
  ASSUME Inv, Empty \/ (main.pc = "take" /\ main.i > Len(exts))
  PROVE  (\A f \in Fids : hooks[f] = None) /\ table = {}
<1> USE MainFields DEF Inv
<1>1. ASSUME NEW f \in Fids, hooks[f] # None PROVE FALSE
  <2>1. PICK p \in Places(dir) : InArray(p)
        BY <1>1 DEF ArrayInv
  <2>2. main.pc = "take" /\ main.i <= p[1] /\ p[1] \in DOMAIN dir /\ Len(exts) = Len(dir) /\ p[1] \in Nat
        BY <2>1, PlaceType DEF InArray, ExtsInv, Freeing
  <2> QED BY <2>1, <2>2 DEF InArray
<1>2. ASSUME NEW h \in table PROVE FALSE
  <2>1. h.fid \in Fids
        OBVIOUS
  <2>2. main.pc # "set"
        BY DEF Empty, MainInv
  <2> QED BY <1>1, <2>1, <2>2 DEF TableInv, Pending
<1> QED BY <1>1, <1>2

\* What l_register_hook has just counted is not in the array yet.
LEMMA NextFid ==
  ASSUME Inv, main.pc = "set"
  PROVE  /\ <<main.i, main.j>> \in Places(dir) /\ Cursor = <<main.i, main.j>>
         /\ Rank(Cursor) = hookc - 1 /\ hookc - 1 \in Fids /\ hooks[hookc - 1] = None
<1> USE MainFields DEF Inv
<1>1. main.i \in DOMAIN dir /\ main.j \in DOMAIN dir[main.i].hooks
      BY DEF MainInv
<1>2. <<main.i, main.j>> \in Places(dir) /\ Cursor = <<main.i, main.j>>
      BY <1>1, BeforeNext DEF Cursor
<1>3. Rank(Cursor) = hookc - 1
      BY <1>2, RankType DEF CountInv, Rank
<1>4. Rank(Cursor) \in Fids
      BY <1>2, RankIsFid DEF Rank
<1>5. ASSUME hooks[hookc - 1] # None PROVE FALSE
  <2>1. PICK p \in Places(dir) : InArray(p) /\ Rank(p) = hookc - 1
        BY <1>3, <1>4, <1>5 DEF ArrayInv
  <2>2. p \in Before(dir, Cursor)
        BY <2>1 DEF InArray, Loading
  <2>3. Rank(p) < Rank(Cursor)
        BY <1>2, <2>2, RankGrows DEF Rank
  <2> QED BY <1>2, <1>3, <2>1, <2>3, RankType DEF Rank
<1> QED BY <1>2, <1>3, <1>4, <1>5

DirInv == MainInv /\ ExtsInv /\ DeadInv /\ ArrayInv /\ CountInv /\ TableInv

\* The parts of the invariant about the arrays, when a step leaves these.
LEMMA ArraysKept ==
  ASSUME Inv, UNCHANGED <<dir, hooks, hookc, table, loads>>, main.pc # "set", main'.pc # "set",
         \A p \in Places(dir) : InArray(p) => InArray(p)'
  PROVE  ArrayInv' /\ TableInv'
<1>1. ArrayInv'
      BY DEF Inv, ArrayInv, HookOf, Current, Rank
<1>2. TableInv'
      BY DEF Inv, TableInv, Pending
<1> QED BY <1>1, <1>2

LEMMA CommandKeepsDir == ASSUME Inv, NEW op \in {"load", "unload", "reload"}, Command(op) PROVE DirInv'
<1> USE MainFields DEF Inv
<1>1. /\ main.pc = "idle" /\ loaded = (op # "load") /\ loaded' = TRUE
      /\ main'.pc = (IF op = "load" THEN "init" ELSE "periodics")
      /\ main'.i = 1 /\ main'.op = op /\ (op # "unload" => loads < MaxLoads)
      /\ UNCHANGED <<dir, exts, hooks, hookc, table, loads, dead>>
      BY SetFields DEF Command, others
<1>2. Empty' = Empty /\ ~Freeing /\ ~Freeing' /\ ~Loading /\ ~Loading' /\ ~Taken'
      BY <1>1 DEF Empty, Freeing, Loading, Taken
<1>3. MainInv'
      BY <1>1, <1>2 DEF MainInv
<1>4. ExtsInv'
      BY <1>1, <1>2 DEF ExtsInv, Gone, Current
<1>5. DeadInv'
      BY <1>1, <1>2 DEF DeadInv
<1>6. ArrayInv' /\ TableInv'
  <2>1. \A p \in Places(dir) : InArray(p) => InArray(p)'
        BY <1>1, <1>2 DEF InArray
  <2> QED BY <1>1, <2>1, ArraysKept
<1>7. CountInv'
      BY <1>1, <1>2 DEF CountInv
<1> QED BY <1>3, <1>4, <1>5, <1>6, <1>7 DEF DirInv

LEMMA TakeKeepsDir == ASSUME Inv, TakeExt PROVE DirInv'
<1> USE MainFields DEF Inv
<1>0. /\ main.pc = "take" /\ loaded /\ ~Empty /\ Freeing /\ ~Taken /\ ~Loading
      /\ UNCHANGED <<dir, hooks, table, loads, dead>>
      BY DEF TakeExt, MainInv, Empty, Freeing, Taken, Loading, others
<1>1. CASE main.i <= Len(exts)
  <2>1. /\ main'.pc = "lock" /\ main'.x = exts[main.i] /\ main'.i = main.i /\ main'.op = main.op
        /\ exts' = [exts EXCEPT ![main.i] = None] /\ hookc' = hookc /\ loaded' = loaded
    <3>1. main' = [main EXCEPT !.pc = "lock", !.x = exts[main.i]]
          BY <1>1 DEF TakeExt
    <3>2. exts' = [exts EXCEPT ![main.i] = None] /\ hookc' = hookc /\ loaded' = loaded
          BY <1>1 DEF TakeExt
    <3>3. LET r == [main EXCEPT !.pc = "lock", !.x = exts[main.i]]
          IN r.pc = "lock" /\ r.op = main.op /\ r.x = exts[main.i] /\ r.i = main.i /\ r.j = main.j
          BY SetFields
    <3> QED BY <3>1, <3>2, <3>3
  <2>2. ~Empty' /\ Freeing' /\ Taken' /\ ~Loading'
        BY <1>0, <2>1 DEF Empty, Freeing, Taken, Loading
  <2>3. main.i \in DOMAIN exts /\ Len(exts) = Len(dir) /\ exts[main.i] = Current(main.i) /\ loads > 0
        BY <1>0, <1>1 DEF ExtsInv, Gone, MainInv
  <2>4. MainInv'
        BY <1>0, <2>1, <2>2, <2>3 DEF MainInv, Current
  <2>5. ExtsInv'
    <3>1. Len(exts') = Len(dir) /\ DOMAIN exts' = DOMAIN exts
          BY <2>1, <2>3
    <3>2. \A k \in DOMAIN exts : exts'[k] = IF Gone(k)' THEN None ELSE Current(k)'
          BY <1>0, <2>1, <2>2, <2>3 DEF ExtsInv, Gone, Current
    <3> QED BY <1>0, <2>1, <2>2, <2>3, <3>1, <3>2 DEF ExtsInv
  <2>6. DeadInv'
        BY <1>0, <2>1, <2>2 DEF DeadInv
  <2>7. ArrayInv' /\ TableInv'
    <3>1. \A p \in Places(dir) : InArray(p) => InArray(p)'
          BY <1>0, <2>1, <2>2 DEF InArray
    <3> QED BY <1>0, <2>1, <3>1, ArraysKept
  <2>8. CountInv'
        BY <2>1, <2>2 DEF CountInv
  <2> QED BY <2>4, <2>5, <2>6, <2>7, <2>8 DEF DirInv
<1>2. CASE ~(main.i <= Len(exts))
  <2>1. /\ main'.pc = (IF main.op = "unload" THEN "idle" ELSE "init") /\ main'.op = (IF main.op = "unload" THEN "load" ELSE main.op)
        /\ exts' = <<>> /\ hookc' = 0 /\ loaded' = (main.op # "unload")
    <3>1. main' = (IF main.op = "unload" THEN Idle ELSE [main EXCEPT !.pc = "init"])
          BY <1>2 DEF TakeExt
    <3>2. exts' = <<>> /\ hookc' = 0 /\ loaded' = (main.op # "unload")
          BY <1>2 DEF TakeExt
    <3>3. Idle.pc = "idle" /\ Idle.op = "load"
          BY DEF Idle
    <3>4. LET r == [main EXCEPT !.pc = "init"] IN r.pc = "init" /\ r.op = main.op
          BY SetFields
    <3> QED BY <3>1, <3>2, <3>3, <3>4
  <2>2. Empty' /\ ~Freeing' /\ ~Taken' /\ ~Loading'
        BY <1>0, <2>1 DEF Empty, Freeing, Taken, Loading
  <2>3. (\A f \in Fids : hooks'[f] = None) /\ table' = {}
        BY <1>0, <1>2, NoHooks
  <2>4. MainInv'
        BY <1>0, <2>1, <2>2 DEF MainInv
  <2>5. ExtsInv'
        BY <2>1, <2>2 DEF ExtsInv
  <2>6. DeadInv'
        BY <1>0, <2>2 DEF DeadInv
  <2>7. ArrayInv' /\ TableInv'
        BY <2>3 DEF ArrayInv, TableInv
  <2>8. CountInv'
        BY <2>1, <2>2 DEF CountInv
  <2> QED BY <2>4, <2>5, <2>6, <2>7, <2>8 DEF DirInv
<1> QED BY <1>1, <1>2

LEMMA DestroyKeepsDir == ASSUME Inv, DestroyPeriodics PROVE DirInv'
<1> USE MainFields DEF Inv
<1>1. /\ main.pc = "periodics" /\ main.i = 1 /\ loaded
      /\ main'.pc = "take" /\ main'.i = 1 /\ main'.op = main.op
      /\ UNCHANGED <<dir, exts, hooks, hookc, table, loads, loaded, dead>>
      BY SetFields DEF DestroyPeriodics, Goto, others, MainInv
<1>2. ~Empty /\ ~Empty' /\ ~Freeing /\ Freeing' /\ ~Loading /\ ~Loading' /\ ~Taken'
      BY <1>1 DEF Empty, Freeing, Loading, Taken
<1>3. MainInv'
      BY <1>1, <1>2 DEF MainInv
<1>4. ExtsInv'
  <2>1. \A k \in DOMAIN exts : ~Gone(k) /\ ~Gone(k)'
        BY <1>1, <1>2 DEF Gone
  <2> QED BY <1>1, <1>2, <2>1 DEF ExtsInv, Current
<1>5. DeadInv'
      BY <1>1, <1>2 DEF DeadInv
<1>6. ArrayInv' /\ TableInv'
  <2>1. \A p \in Places(dir) : InArray(p) => InArray(p)'
        BY <1>1, <1>2, PlaceType DEF InArray
  <2> QED BY <1>1, <2>1, ArraysKept
<1>7. CountInv'
      BY <1>1, <1>2 DEF CountInv
<1> QED BY <1>3, <1>4, <1>5, <1>6, <1>7 DEF DirInv

LEMMA LocksKeepDir == ASSUME Inv, LockExt \/ UnlockExt PROVE DirInv'
<1> USE MainFields DEF Inv
<1>1. /\ \/ main.pc = "lock" /\ main'.pc = "hooks"
         \/ main.pc = "unlock" /\ main'.pc = "free"
      /\ main'.i = main.i /\ main'.op = main.op /\ main'.x = main.x
      /\ UNCHANGED <<dir, exts, hooks, hookc, table, loads, loaded, dead>>
  <2>1. CASE LockExt
        BY <2>1, SetFields DEF LockExt, Goto, others
  <2>2. CASE UnlockExt
        BY <2>2, SetFields DEF UnlockExt, Goto, others
  <2> QED BY <2>1, <2>2
<1>2. /\ Empty' = Empty /\ Freeing /\ Freeing' /\ ~Loading /\ ~Loading' /\ Taken /\ Taken'
      BY <1>1 DEF Empty, Freeing, Loading, Taken
<1>3. MainInv'
      BY <1>1, <1>2 DEF MainInv, Current
<1>4. ExtsInv'
      BY <1>1, <1>2 DEF ExtsInv, Gone, Current
<1>5. DeadInv'
      BY <1>1, <1>2 DEF DeadInv
<1>6. ArrayInv' /\ TableInv'
  <2>1. \A p \in Places(dir) : InArray(p) => InArray(p)'
        BY <1>1, <1>2 DEF InArray
  <2> QED BY <1>1, <2>1, ArraysKept
<1>7. CountInv'
      BY <1>1, <1>2 DEF CountInv
<1> QED BY <1>3, <1>4, <1>5, <1>6, <1>7 DEF DirInv

LEMMA FreeHooksKeepsDir == ASSUME Inv, FreeHooks PROVE DirInv'
<1> USE MainFields DEF Inv
<1>1. /\ main.pc = "hooks" /\ main'.pc = "unlock"
      /\ main'.i = main.i /\ main'.op = main.op /\ main'.x = main.x
      /\ UNCHANGED <<dir, exts, hookc, loads, loaded, dead>>
      BY SetFields DEF FreeHooks, Goto, others
<1>2. /\ Empty' = Empty /\ Freeing /\ Freeing' /\ ~Loading /\ ~Loading' /\ Taken /\ Taken'
      BY <1>1 DEF Empty, Freeing, Loading, Taken
<1>3. MainInv'
      BY <1>1, <1>2 DEF MainInv, Current
<1>4. ExtsInv'
      BY <1>1, <1>2 DEF ExtsInv, Gone, Current
<1>5. DeadInv'
      BY <1>1, <1>2 DEF DeadInv
<1>6. /\ \A f \in Fids : hooks'[f] # None => hooks'[f] = hooks[f] /\ hooks[f].ext # main.x
      /\ \A h \in table' : h \in table /\ hooks'[h.fid] = hooks[h.fid]
  <2>1. \A h \in table : h.fid \in Fids
        OBVIOUS
  <2> QED BY <2>1 DEF FreeHooks
<1>7. ArrayInv'
  <2> SUFFICES ASSUME NEW f \in Fids, hooks'[f] # None
               PROVE  \E p \in Places(dir) : InArray(p)' /\ Rank(p)' = f /\ hooks'[f] = HookOf(p)'
      BY <1>1 DEF ArrayInv
  <2>1. hooks'[f] = hooks[f] /\ hooks[f].ext # main.x
        BY <1>6
  <2>2. PICK p \in Places(dir) : InArray(p) /\ Rank(p) = f /\ hooks[f] = HookOf(p)
        BY <2>1 DEF ArrayInv
  <2>3. main.i # p[1]
        BY <1>2, <2>1, <2>2 DEF HookOf, MainInv
  <2>4. InArray(p)'
        BY <1>1, <1>2, <2>2, <2>3, PlaceType DEF InArray
  <2>5. Rank(p)' = Rank(p) /\ HookOf(p)' = HookOf(p)
        BY <1>1 DEF Rank, HookOf, Current
  <2> QED BY <2>1, <2>2, <2>4, <2>5
<1>8. TableInv'
      BY <1>1, <1>6 DEF TableInv, Pending
<1>9. CountInv'
      BY <1>1, <1>2 DEF CountInv
<1> QED BY <1>3, <1>4, <1>5, <1>7, <1>8, <1>9 DEF DirInv

LEMMA FreeExtKeepsDir == ASSUME Inv, FreeExt PROVE DirInv'
<1> USE MainFields DEF Inv
<1>0. main' = [main EXCEPT !.pc = "take", !.x = None, !.i = main.i + 1]
      BY DEF FreeExt
<1>1. /\ main.pc = "free" /\ main'.pc = "take" /\ main'.i = main.i + 1 /\ main'.op = main.op
      /\ UNCHANGED <<dir, exts, hooks, hookc, table, loads, loaded>>
      /\ dead' = dead \cup {main.x}
  <2>1. LET r == [main EXCEPT !.pc = "take", !.x = None, !.i = main.i + 1]
        IN r.pc = "take" /\ r.op = main.op /\ r.i = main.i + 1
        BY SetFields
  <2> QED BY <1>0, <2>1 DEF FreeExt, others
<1>2. /\ loaded /\ ~Empty /\ ~Empty' /\ Freeing /\ Freeing' /\ ~Loading /\ ~Loading' /\ Taken /\ ~Taken'
      BY <1>1 DEF Empty, Freeing, Loading, Taken, MainInv
<1>3. main.i \in DOMAIN dir /\ main.x = Current(main.i)
      BY <1>2 DEF MainInv
<1>4. MainInv'
      BY <1>1, <1>2, <1>3 DEF MainInv
<1>5. ExtsInv'
  <2>1. \A k \in DOMAIN exts : Gone(k)' = Gone(k)
        BY <1>1, <1>2 DEF Gone
  <2> QED BY <1>1, <1>2, <2>1 DEF ExtsInv, Current
<1>6. DeadInv'
  <2> SUFFICES ASSUME NEW x \in dead'
               PROVE  x.n <= loads /\ (x.n = loads => x.e < main.i + 1)
      BY <1>1, <1>2 DEF DeadInv
  <2>1. CASE x = main.x
        BY <1>3, <2>1 DEF Current
  <2>2. CASE x \in dead
    <3>1. x.n <= loads /\ (x.n = loads => x.e < main.i)
          BY <1>2, <2>2 DEF DeadInv
    <3>2. x \in Extensions
          BY <2>2 DEF TypeOK
    <3>3. x.e \in Nat
      <4>1. x.e \in UNION {DOMAIN d : d \in Dirs}
            BY <3>2 DEF Extensions
      <4> QED BY <4>1, DirType
    <3> QED BY <3>1, <3>3
  <2> QED BY <1>1, <2>1, <2>2
<1>7. ArrayInv' /\ TableInv'
  <2>1. \A p \in Places(dir) : InArray(p) => InArray(p)'
        BY <1>1, <1>2, PlaceType DEF InArray
  <2> QED BY <1>1, <2>1, ArraysKept
<1>8. CountInv'
      BY <1>1, <1>2 DEF CountInv
<1> QED BY <1>4, <1>5, <1>6, <1>7, <1>8 DEF DirInv

LEMMA InitLouisKeepsDir == ASSUME Inv, init_louis PROVE DirInv'
<1> USE MainFields DEF Inv
<1>1. /\ main.pc = "init" /\ main'.pc = "load" /\ main'.i = 1 /\ main'.op = main.op
      /\ dir' \in Dirs /\ loads' = loads + 1
      /\ UNCHANGED <<hookc, table, loaded, dead>>
      BY SetFields DEF init_louis
<1>2. Empty /\ ~Empty' /\ ~Freeing /\ ~Freeing' /\ ~Loading /\ Loading' /\ ~Taken' /\ loaded
      BY <1>1 DEF Empty, Freeing, Loading, Taken, MainInv
<1>3. exts = <<>> /\ exts' = <<>> /\ hookc = 0
      BY <1>2 DEF init_louis, ExtsInv, CountInv
<1>4. MainInv'
  <2>1. Len(dir') \in Nat
        BY <1>1, DirType
  <2>2. 1 \in 1..(Len(dir') + 1)
        BY <2>1
  <2> QED BY <1>1, <1>2, <2>2 DEF MainInv
<1>5. ExtsInv'
      BY <1>1, <1>2, <1>3 DEF ExtsInv
<1>6. DeadInv'
  <2> SUFFICES ASSUME NEW x \in dead PROVE x.n <= loads' /\ x.n # loads'
      BY <1>1 DEF DeadInv
  <2>1. x.n <= loads /\ x \in Extensions
        BY DEF DeadInv, TypeOK
  <2>2. x.n \in Nat
    <3>1. x.n \in 1..MaxLoads /\ MaxLoads \in Nat
          BY <2>1, DirsAssumption DEF Extensions
    <3> QED BY <3>1
  <2> QED BY <1>1, <2>1, <2>2
<1>7. ArrayInv' /\ TableInv'
  <2>1. \A f \in Fids : hooks'[f] = None
        BY DEF init_louis
  <2>2. table' = {}
        BY <1>1, <1>2, NoHooks
  <2> QED BY <2>1, <2>2 DEF ArrayInv, TableInv
<1>8. CountInv'
  <2>1. Cursor' = <<1, 1>>
        BY <1>1 DEF Cursor
  <2>2. Before(dir', <<1, 1>>) = {}
        BY <1>1, BeforeFirst
  <2>3. Rank(Cursor)' = 0
        BY <2>1, <2>2, FS_EmptySet DEF Rank
  <2> QED BY <1>1, <1>2, <1>3, <2>3 DEF CountInv
<1> QED BY <1>4, <1>5, <1>6, <1>7, <1>8 DEF DirInv

LEMMA LoadExtKeepsDir == ASSUME Inv, load_ext PROVE DirInv'
<1> USE MainFields DEF Inv
<1>1. /\ main.pc = "load" /\ loaded /\ main.i \in 1..(Len(dir) + 1)
      /\ UNCHANGED <<dir, hooks, hookc, table, loads, loaded, dead>>
      BY DEF load_ext, others, MainInv, Loading
<1>2. /\ ~Empty /\ ~Freeing /\ Loading /\ loads > 0 /\ Len(exts) = main.i - 1
      /\ \A k \in DOMAIN exts : exts[k] = Current(k)
      BY <1>1 DEF Empty, Freeing, Loading, Taken, ExtsInv, Gone
<1>3. CASE main.i > Len(dir)
  <2>1. main' = Idle /\ exts' = exts /\ main'.pc = "idle"
        BY <1>3 DEF load_ext, Idle
  <2>2. ~Empty' /\ ~Freeing' /\ ~Loading' /\ ~Taken'
        BY <1>1, <2>1 DEF Empty, Freeing, Loading, Taken
  <2>3. MainInv'
        BY <1>1, <2>1, <2>2 DEF MainInv
  <2>4. ExtsInv'
    <3>1. Len(exts) = Len(dir)
          BY <1>1, <1>2, <1>3
    <3>2. \A k \in DOMAIN exts' : exts'[k] = IF Gone(k)' THEN None ELSE Current(k)'
          BY <1>1, <1>2, <2>1, <2>2 DEF Gone, Current
    <3> QED BY <1>1, <1>2, <2>1, <2>2, <3>1, <3>2 DEF ExtsInv
  <2>5. DeadInv'
        BY <1>1, <1>2 DEF DeadInv
  <2>6. ArrayInv' /\ TableInv'
    <3>1. \A p \in Places(dir) : InArray(p) => InArray(p)'
          BY <1>1, <2>2 DEF InArray
    <3> QED BY <1>1, <2>1, <3>1, ArraysKept
  <2>7. CountInv'
        BY <2>1, <2>2 DEF CountInv
  <2> QED BY <2>3, <2>4, <2>5, <2>6, <2>7 DEF DirInv
<1>4. CASE ~(main.i > Len(dir))
  <2>1. /\ main'.pc = "reg" /\ main'.i = main.i /\ main'.op = main.op
        /\ main'.x = Current(main.i) /\ main'.j = 1
        /\ exts' = Append(exts, Current(main.i))
    <3>1. /\ main' = [main EXCEPT !.pc = "reg", !.x = Current(main.i), !.j = 1]
          /\ exts' = Append(exts, Current(main.i))
          BY <1>4 DEF load_ext, Current
    <3>2. LET r == [main EXCEPT !.pc = "reg", !.x = Current(main.i), !.j = 1]
          IN r.pc = "reg" /\ r.op = main.op /\ r.x = Current(main.i) /\ r.i = main.i /\ r.j = 1
          BY SetFields
    <3> QED BY <3>1, <3>2
  <2>2. ~Empty' /\ ~Freeing' /\ Loading' /\ ~Taken' /\ main.i \in DOMAIN dir
        BY <1>1, <1>4, <2>1 DEF Empty, Freeing, Loading, Taken
  <2>3. MainInv'
    <3>1. Len(dir[main.i].hooks) \in Nat
          BY <2>2, DirType
    <3>2. 1 \in 1..(Len(dir[main.i].hooks) + 1)
          BY <3>1
    <3> QED BY <1>1, <2>1, <2>2, <3>2 DEF MainInv, Current
  <2>4. ExtsInv'
    <3>1. Current(main.i) \in Extensions
          BY <1>2, <2>2, CurrentType
    <3>2. /\ Len(exts') = main.i /\ DOMAIN exts' = 1..main.i
          /\ \A k \in DOMAIN exts' : exts'[k] = Current(k)
          BY <1>2, <2>1, <2>2, <3>1
    <3>3. \A k \in DOMAIN exts' : exts'[k] = IF Gone(k)' THEN None ELSE Current(k)'
          BY <1>1, <2>2, <3>2 DEF Gone, Current
    <3> QED BY <1>1, <1>2, <2>1, <2>2, <3>2, <3>3 DEF ExtsInv
  <2>5. DeadInv'
        BY <1>1, <1>2 DEF DeadInv
  <2>6. Cursor' = Cursor
        BY <1>1, <2>1 DEF Cursor
  <2>7. ArrayInv' /\ TableInv'
    <3>1. \A p \in Places(dir) : InArray(p) => InArray(p)'
          BY <1>1, <1>2, <2>2, <2>6 DEF InArray
    <3> QED BY <1>1, <2>1, <3>1, ArraysKept
  <2>8. CountInv'
    <3>1. hookc = Rank(Cursor)
          BY <1>1 DEF CountInv
    <3>2. Rank(Cursor)' = Rank(Cursor)
          BY <1>1, <2>6 DEF Rank
    <3> QED BY <1>1, <2>1, <2>2, <3>1, <3>2 DEF CountInv
  <2> QED BY <2>3, <2>4, <2>5, <2>7, <2>8 DEF DirInv
<1> QED BY <1>3, <1>4

LEMMA RegisterKeepsDir == ASSUME Inv, l_register_hook PROVE DirInv'
<1> USE MainFields DEF Inv
<1>1. /\ main.pc = "reg" /\ loaded /\ main.i \in DOMAIN dir /\ main.x = Current(main.i)
      /\ main.j \in 1..(Len(dir[main.i].hooks) + 1) /\ hookc = Rank(<<main.i, main.j>>)
      /\ main.i \in 1..(Len(dir) + 1)
      /\ UNCHANGED <<dir, exts, hooks, loads, loaded, dead>>
      BY DEF l_register_hook, others, MainInv, Loading, CountInv, Cursor
<1>2. /\ ~Empty /\ ~Freeing /\ Loading /\ loads > 0 /\ Len(exts) = main.i
      /\ \A k \in DOMAIN exts : exts[k] = Current(k)
      BY <1>1 DEF Empty, Freeing, Loading, Taken, ExtsInv, Gone
<1>3. dir[main.x.e].hooks = dir[main.i].hooks /\ Len(dir[main.i].hooks) \in Nat
      BY <1>1, DirType DEF Current
<1>4. DeadInv'
      BY <1>1, <1>2 DEF DeadInv
<1>5. CASE main.j > Len(dir[main.i].hooks)
  <2>1. /\ main'.pc = "load" /\ main'.i = main.i + 1 /\ main'.op = main.op
        /\ UNCHANGED <<hookc, table>>
    <3>1. main' = [main EXCEPT !.pc = "load", !.i = main.i + 1] /\ UNCHANGED <<hookc, table>>
          BY <1>3, <1>5 DEF l_register_hook
    <3>2. LET r == [main EXCEPT !.pc = "load", !.i = main.i + 1]
          IN r.pc = "load" /\ r.op = main.op /\ r.i = main.i + 1
          BY SetFields
    <3> QED BY <3>1, <3>2
  <2>2. ~Empty' /\ ~Freeing' /\ Loading' /\ ~Taken'
        BY <1>1, <2>1 DEF Empty, Freeing, Loading, Taken
  <2>3. MainInv'
        BY <1>1, <2>1, <2>2 DEF MainInv
  <2>4. ExtsInv'
    <3>1. \A k \in DOMAIN exts' : exts'[k] = IF Gone(k)' THEN None ELSE Current(k)'
          BY <1>1, <1>2, <2>2 DEF Gone, Current
    <3>2. Len(exts') = main'.i - 1
          BY <1>1, <1>2, <2>1
    <3> QED BY <1>1, <1>2, <2>1, <2>2, <3>1, <3>2 DEF ExtsInv
  <2>5. Cursor = <<main.i, main.j>> /\ Cursor' = <<main.i + 1, 1>> /\ main.j = Len(dir[main.i].hooks) + 1
    <3>1. main.j = Len(dir[main.i].hooks) + 1
          BY <1>1, <1>3, <1>5, SMTT(60)
    <3> QED BY <1>1, <2>1, <3>1 DEF Cursor
  <2>6. Before(dir, Cursor') = Before(dir, Cursor)
        BY <1>1, <2>5, BeforeTurn
  <2>7. ArrayInv' /\ TableInv'
    <3>1. \A p \in Places(dir) : InArray(p) => InArray(p)'
          BY <1>1, <1>2, <2>2, <2>6 DEF InArray
    <3> QED BY <1>1, <2>1, <3>1, ArraysKept
  <2>8. CountInv'
    <3>1. Rank(Cursor)' = hookc
          BY <1>1, <2>5, <2>6 DEF Rank
    <3> QED BY <2>1, <2>2, <3>1 DEF CountInv
  <2> QED BY <1>4, <2>3, <2>4, <2>7, <2>8 DEF DirInv
<1>6. CASE ~(main.j > Len(dir[main.i].hooks))
  <2> DEFINE new == [key |-> dir[main.i].hooks[main.j].key, fid |-> hookc]
  <2>1. /\ main'.pc = "set" /\ main'.i = main.i /\ main'.j = main.j /\ main'.op = main.op /\ main'.x = main.x
        /\ hookc' = hookc + 1 /\ table' = table \cup {new}
    <3>1. /\ main' = [main EXCEPT !.pc = "set"]
          /\ hookc' = hookc + 1 /\ table' = table \cup {new}
          BY <1>3, <1>6 DEF l_register_hook, Goto
    <3>2. LET r == [main EXCEPT !.pc = "set"]
          IN r.pc = "set" /\ r.op = main.op /\ r.x = main.x /\ r.i = main.i /\ r.j = main.j
          BY SetFields
    <3> QED BY <3>1, <3>2
  <2>2. ~Empty' /\ ~Freeing' /\ Loading' /\ ~Taken' /\ Cursor' = Cursor /\ Cursor = <<main.i, main.j>>
        BY <1>1, <2>1 DEF Empty, Freeing, Loading, Taken, Cursor
  <2>3. MainInv'
    <3>1. main.j \in DOMAIN dir[main.i].hooks
          BY <1>1, <1>3, <1>6, DirType, SMTT(60)
    <3> QED BY <1>1, <2>1, <2>2, <3>1 DEF MainInv, Current
  <2>4. ExtsInv'
    <3>1. \A k \in DOMAIN exts' : exts'[k] = IF Gone(k)' THEN None ELSE Current(k)'
          BY <1>1, <1>2, <2>2, SMTT(60) DEF Gone, Current
    <3> QED BY <1>1, <1>2, <2>1, <2>2, <3>1 DEF ExtsInv
  <2>5. ArrayInv'
    <3>1. \A p \in Places(dir) : InArray(p) => InArray(p)'
          BY <1>1, <1>2, <2>2 DEF InArray
    <3> QED BY <1>1, <3>1 DEF ArrayInv, HookOf, Current, Rank
  <2>6. TableInv'
    <3>1. ASSUME NEW h, h = new PROVE Pending(h)'
      <4>1. hookc \in Nat
            BY DEF TypeOK
      <4>2. hookc' - 1 = hookc
            BY <2>1, <4>1
      <4> QED BY <1>1, <2>1, <3>1, <4>2 DEF Pending
    <3>2. \A h \in table : hooks[h.fid] # None /\ hooks[h.fid].key = h.key
          BY <1>1 DEF TableInv, Pending
    <3>3. \A h \in table' : h \in table \/ h = new
          BY <2>1
    <3> QED BY <1>1, <3>1, <3>2, <3>3 DEF TableInv
  <2>7. CountInv'
    <3>1. Rank(Cursor)' = hookc
          BY <1>1, <2>2 DEF Rank
    <3> QED BY <2>1, <2>2, <3>1 DEF CountInv
  <2> QED BY <1>4, <2>3, <2>4, <2>5, <2>6, <2>7 DEF DirInv
<1> QED BY <1>5, <1>6

LEMMA SetHookKeepsDir == ASSUME Inv, SetHook PROVE DirInv'
<1> USE MainFields DEF Inv
<1> DEFINE p0 == <<main.i, main.j>>
<1>1. /\ main.pc = "set" /\ loaded /\ main.i \in DOMAIN dir /\ main.x = Current(main.i)
      /\ main.j \in DOMAIN dir[main.i].hooks /\ main.i \in 1..(Len(dir) + 1)
      /\ UNCHANGED <<dir, exts, hookc, table, loads, loaded, dead>>
      BY DEF SetHook, others, MainInv, Loading
<1>2. /\ ~Empty /\ ~Freeing /\ Loading /\ loads > 0 /\ Len(exts) = main.i
      /\ \A k \in DOMAIN exts : exts[k] = Current(k)
      BY <1>1 DEF Empty, Freeing, Loading, Taken, ExtsInv, Gone
<1>3. /\ main'.pc = "reg" /\ main'.i = main.i /\ main'.j = main.j + 1 /\ main'.op = main.op /\ main'.x = main.x
  <2>1. main' = [main EXCEPT !.pc = "reg", !.j = main.j + 1]
        BY DEF SetHook
  <2>2. LET r == [main EXCEPT !.pc = "reg", !.j = main.j + 1]
        IN r.pc = "reg" /\ r.op = main.op /\ r.x = main.x /\ r.i = main.i /\ r.j = main.j + 1
        BY SetFields
  <2> QED BY <2>1, <2>2
<1>4. p0 \in Places(dir) /\ Cursor = p0 /\ Rank(p0) = hookc - 1 /\ hookc - 1 \in Fids /\ hooks[hookc - 1] = None
      BY <1>1, NextFid
<1>5. hooks' = [hooks EXCEPT ![hookc - 1] = HookOf(p0)]
      BY <1>1 DEF SetHook, HookOf, Current
<1>6. /\ Cursor' = <<main.i, main.j + 1>>
      /\ Before(dir, Cursor') = Before(dir, Cursor) \cup {p0} /\ Rank(Cursor)' = hookc
  <2>1. Cursor' = <<main.i, main.j + 1>>
        BY <1>3 DEF Cursor
  <2>2. hookc \in Nat
        BY DEF TypeOK
  <2>3. /\ Before(dir, <<main.i, main.j + 1>>) = Before(dir, p0) \cup {p0}
        /\ Cardinality(Before(dir, <<main.i, main.j + 1>>)) = Cardinality(Before(dir, p0)) + 1
        BY <1>1, BeforeNext
  <2>4. Rank(Cursor)' = Rank(p0) + 1
        BY <1>1, <2>1, <2>3 DEF Rank
  <2>5. hookc - 1 + 1 = hookc
        BY <2>2
  <2> QED BY <1>4, <2>1, <2>3, <2>4, <2>5
<1>7. ~Empty' /\ ~Freeing' /\ Loading' /\ ~Taken'
      BY <1>1, <1>3 DEF Empty, Freeing, Loading, Taken
<1>8. MainInv'
  <2>1. main.j + 1 \in 1..(Len(dir[main.i].hooks) + 1)
    <3>1. Len(dir[main.i].hooks) \in Nat /\ main.j \in 1..Len(dir[main.i].hooks)
          BY <1>1, DirType
    <3> QED BY <3>1, SMTT(60)
  <2> QED BY <1>1, <1>3, <1>7, <2>1 DEF MainInv, Current
<1>9. ExtsInv'
  <2>1. \A k \in DOMAIN exts' : exts'[k] = IF Gone(k)' THEN None ELSE Current(k)'
        BY <1>1, <1>2, <1>7 DEF Gone, Current
  <2> QED BY <1>1, <1>2, <1>3, <1>7, <2>1 DEF ExtsInv
<1>10. DeadInv'
      BY <1>1, <1>2 DEF DeadInv
<1>11. ArrayInv'
  <2> SUFFICES ASSUME NEW f \in Fids, hooks'[f] # None
               PROVE  \E p \in Places(dir) : InArray(p)' /\ Rank(p)' = f /\ hooks'[f] = HookOf(p)'
      BY <1>1 DEF ArrayInv
  <2>1. PICK p \in Places(dir) : p \in Before(dir, Cursor') /\ Rank(p) = f /\ hooks'[f] = HookOf(p)
    <3>1. CASE f = hookc - 1
          BY <1>4, <1>5, <1>6, <3>1
    <3>2. CASE f # hookc - 1
      <4>1. hooks'[f] = hooks[f]
            BY <1>5, <3>2
      <4>2. PICK p \in Places(dir) : InArray(p) /\ Rank(p) = f /\ hooks[f] = HookOf(p)
            BY <4>1 DEF ArrayInv
      <4> QED BY <1>2, <1>6, <4>1, <4>2 DEF InArray
    <3> QED BY <3>1, <3>2
  <2>2. InArray(p)'
        BY <1>1, <1>7, <2>1 DEF InArray
  <2>3. Rank(p)' = Rank(p) /\ HookOf(p)' = HookOf(p)
        BY <1>1 DEF Rank, HookOf, Current
  <2> QED BY <2>1, <2>2, <2>3
<1>12. TableInv'
  <2> SUFFICES ASSUME NEW h \in table PROVE hooks'[h.fid] # None /\ hooks'[h.fid].key = h.key
      BY <1>1 DEF TableInv
  <2>1. h.fid \in Fids
        BY SMTT(60)
  <2>2. CASE h.fid = hookc - 1
    <3>1. h.key = dir[main.i].hooks[main.j].key
          BY <1>4, <2>2 DEF TableInv, Pending
    <3>2. hooks'[h.fid] = HookOf(p0)
          BY <1>4, <1>5, <2>2
    <3>3. hooks'[h.fid] \in Hook \cup {None} /\ HookOf(p0) # None
      <4>1. HookOf(p0) \in Hook
        <5>1. dir[main.i].hooks[main.j] \in Hooked
              BY <1>4, PlaceType
        <5>2. Current(main.i) \in Extensions
              BY <1>1, <1>2, CurrentType
        <5> QED BY <5>1, <5>2 DEF HookOf, Hook, Keys
      <4> QED BY <3>2, <4>1, ThreadsAssumption
    <3> QED BY <3>1, <3>2, <3>3 DEF HookOf
  <2>3. CASE h.fid # hookc - 1
    <3>1. hooks'[h.fid] = hooks[h.fid]
          BY <1>5, <2>1, <2>3
    <3> QED BY <2>3, <3>1 DEF TableInv, Pending
  <2> QED BY <2>2, <2>3
<1>13. CountInv'
      BY <1>1, <1>3, <1>6, <1>7 DEF CountInv
<1> QED BY <1>8, <1>9, <1>10, <1>11, <1>12, <1>13 DEF DirInv

LEMMA StepKeepsDir == Inv /\ (MainDisjuncts \/ ThreadStep) => DirInv'
<1>1. ASSUME Inv, ThreadStep PROVE DirInv'
  <2>1. UNCHANGED mainVars
        BY <1>1, ThreadsLeaveMain
  <2>2. Loading' = Loading /\ Taken' = Taken /\ Freeing' = Freeing /\ Empty' = Empty /\ Cursor' = Cursor
        BY <2>1 DEF mainVars, Loading, Taken, Freeing, Empty, Cursor
  <2>3. MainInv' /\ ExtsInv' /\ DeadInv'
        BY <1>1, <2>1, <2>2 DEF mainVars, Inv, MainInv, ExtsInv, DeadInv, Current, Gone
  <2>4. ArrayInv' /\ CountInv' /\ TableInv'
        BY <1>1, <2>1, <2>2 DEF mainVars, Inv, ArrayInv, CountInv, TableInv, Current, Rank, HookOf, InArray, Pending
  <2> QED BY <2>3, <2>4 DEF DirInv
<1> QED BY <1>1, CommandKeepsDir, DestroyKeepsDir, TakeKeepsDir, LocksKeepDir, FreeHooksKeepsDir,
           FreeExtKeepsDir, InitLouisKeepsDir, LoadExtKeepsDir, RegisterKeepsDir, SetHookKeepsDir
           DEF MainDisjuncts

(***************************************************************************)
(* The mutexes and what the threads know.                                  *)
(***************************************************************************)
LEMMA ThreadFields ==
  ASSUME Inv
  PROVE  /\ owner \in [Extensions -> Threads \cup Calls \cup {Main, None}]
         /\ S \in [Extensions -> Threads \cup {None}]
         /\ thread \in [Threads -> ThreadState] /\ call \in [Calls -> CallState]
         /\ pending \in [Messages -> (SUBSET Fids) \cup {None}]
         /\ hooks \in [Fids -> Hook \cup {None}]
         /\ \A t \in Threads : t[1] \in Messages /\ t[2] \in Fids /\ t = <<t[1], t[2]>>
<1>1. TypeOK
      BY DEF Inv
<1>2. \A t \in Threads : t[1] \in Messages /\ t[2] \in Fids /\ t = <<t[1], t[2]>>
      BY DEF Threads
<1> QED BY <1>1, <1>2 DEF TypeOK

\* The steps of the main thread but for those that lock or free hooks.
LEMMA MainOthers ==
  ASSUME Inv, MainDisjuncts, ~(LockExt \/ FreeHooks \/ UnlockExt)
  PROVE  /\ UNCHANGED <<owner, S>> /\ main'.pc \notin {"hooks", "unlock", "free"}
         /\ main.pc \notin {"hooks", "unlock"}
         /\ FreeExt \/ (dead' = dead /\ main.pc # "free")
         /\ init_louis \/ SetHook \/ hooks' = hooks
<1>0. main \in MainState
      BY MainFields
<1>1. ASSUME NEW op \in {"load", "unload", "reload"}, Command(op)
      PROVE  UNCHANGED <<owner, S, dead, hooks>> /\ main.pc = "idle" /\ main'.pc \in {"init", "periodics"}
      BY <1>0, <1>1, SetFields DEF Command
<1>2. CASE DestroyPeriodics
      BY <1>0, <1>2, SetFields DEF DestroyPeriodics, Goto
<1>3. CASE TakeExt
  <2>1. main.pc = "take" /\ UNCHANGED <<hooks, dead, owner, S>>
        BY <1>3 DEF TakeExt
  <2>2. main'.pc \in {"lock", "idle", "init"}
    <3>1. /\ Idle.pc = "idle" /\ [main EXCEPT !.pc = "init"].pc = "init"
          /\ [main EXCEPT !.pc = "lock", !.x = exts[main.i]].pc = "lock"
          BY <1>0, SetFields DEF Idle
    <3> QED BY <1>3, <3>1 DEF TakeExt
  <2> QED BY <2>1, <2>2
<1>4. CASE FreeExt
  <2>1. main'.pc = "take"
        BY <1>0, <1>4 DEF FreeExt, MainState
  <2> QED BY <1>4, <2>1 DEF FreeExt
<1>5. CASE init_louis
      BY <1>0, <1>5, SetFields DEF init_louis
<1>6. CASE load_ext
  <2>1. main.pc = "load" /\ UNCHANGED <<hooks, dead, owner, S>>
        BY <1>6 DEF load_ext
  <2>2. main'.pc \in {"idle", "reg"}
    <3>1. /\ Idle.pc = "idle"
          /\ [main EXCEPT !.pc = "reg", !.x = [e |-> main.i, n |-> loads], !.j = 1].pc = "reg"
          BY <1>0, SetFields DEF Idle
    <3> QED BY <1>6, <3>1 DEF load_ext
  <2> QED BY <2>1, <2>2
<1>7. CASE l_register_hook
  <2>1. main.pc = "reg" /\ UNCHANGED <<hooks, dead, owner, S>>
        BY <1>7 DEF l_register_hook
  <2>2. main'.pc \in {"load", "set"}
        BY <1>0, <1>7 DEF l_register_hook, Goto, MainState
  <2> QED BY <2>1, <2>2
<1>8. CASE SetHook
  <2>1. main'.pc = "reg"
        BY <1>0, <1>8 DEF SetHook, MainState
  <2> QED BY <1>8, <2>1 DEF SetHook
<1> QED BY <1>1, <1>2, <1>3, <1>4, <1>5, <1>6, <1>7, <1>8 DEF MainDisjuncts

LEMMA MainKeepsOwners == Inv /\ MainDisjuncts => OwnInv'
<1> SUFFICES ASSUME Inv, MainDisjuncts PROVE OwnInv'
    OBVIOUS
<1> USE ThreadFields, MainFields
<1>1. UNCHANGED <<thread, call>>
      BY MainLeavesThreads
<1>2. OwnInv /\ ThreadInv
      BY DEF Inv
<1>3. \A t \in Threads : thread[t].pc \in {"locked", "run", "asked"} =>
          thread[t].x \in Extensions /\ owner[thread[t].x] = t /\ t # None /\ t # Main
      BY <1>2, ThreadsAssumption DEF OwnInv, ThreadInv
<1>4. \A k \in Calls : call[k].pc = "run" =>
          call[k].x \in Extensions /\ owner[call[k].x] = k /\ k # None /\ k # Main
      BY <1>2, ThreadsAssumption DEF OwnInv, ThreadInv
<1>5. CASE LockExt
  <2>1. owner[main.x] = None /\ owner' = [owner EXCEPT ![main.x] = Main] /\ main'.x = main.x
        BY <1>5, SetFields DEF LockExt, Goto
  <2>2. main.x \in Extensions
        BY <1>5, CurrentType DEF LockExt, Inv, MainInv, ExtsInv, Taken, Empty
  <2> QED BY <1>1, <1>3, <1>4, <2>1, <2>2 DEF OwnInv
<1>6. CASE UnlockExt
  <2>1. /\ owner[main.x] = Main /\ owner' = [owner EXCEPT ![main.x] = None]
        /\ main'.pc = "free"
        BY <1>2, <1>6, SetFields DEF UnlockExt, Goto, OwnInv
  <2> QED BY <1>1, <1>3, <1>4, <2>1 DEF OwnInv
<1>7. CASE FreeHooks
  <2>1. main.pc = "hooks" /\ main'.x = main.x /\ owner' = owner
        BY <1>7, SetFields DEF FreeHooks, Goto
  <2> QED BY <1>1, <1>2, <2>1 DEF OwnInv
<1>8. CASE ~(LockExt \/ FreeHooks \/ UnlockExt)
      BY <1>1, <1>2, <1>8, MainOthers DEF OwnInv
<1> QED BY <1>5, <1>6, <1>7, <1>8

LEMMA MainKeepsHangs == Inv /\ MainDisjuncts => ThreadInv'
<1> SUFFICES ASSUME Inv, MainDisjuncts PROVE ThreadInv'
    OBVIOUS
<1> USE ThreadFields, MainFields
<1>1. UNCHANGED <<thread, call>> /\ OwnInv /\ ThreadInv
      BY MainLeavesThreads DEF Inv
<1>2. ASSUME NEW t \in Threads, thread[t].pc \in {"run", "asked"}
      PROVE  S'[thread[t].x] = t
  <2>1. S[thread[t].x] = t /\ owner[thread[t].x] = t /\ thread[t].x \in Extensions /\ t # Main
        BY <1>1, <1>2, ThreadsAssumption DEF OwnInv, ThreadInv
  <2>2. CASE FreeHooks
    <3>1. S' = [S EXCEPT ![main.x] = None] /\ owner[main.x] = Main
          BY <1>1, <2>2 DEF FreeHooks, OwnInv
    <3> QED BY <2>1, <3>1
  <2>3. CASE LockExt \/ UnlockExt
        BY <2>1, <2>3 DEF LockExt, UnlockExt
  <2> QED BY <2>1, <2>2, <2>3, MainOthers
<1>3. ASSUME NEW t \in Threads, Hangs(t)
      PROVE  Hangs(t)'
  <2> DEFINE x == thread[t].x
             hk == hooks[t[2]]
  <2>1. /\ hk \in Hook \cup {None} /\ t[2] \in Fids /\ x' = x
        /\ x \in dead \/ (hk # None /\ hk.ext = x) \/ (hk = None /\ main.pc \in {"unlock", "free"} /\ main.x = x)
        BY <1>1, <1>3 DEF Hangs
  <2>2. CASE LockExt \/ UnlockExt
    <3>1. /\ main'.x = main.x /\ UNCHANGED <<dead, hooks>>
          /\ main.pc = "lock" \/ main'.pc = "free"
      <4>1. CASE LockExt
            BY <4>1, SetFields DEF LockExt, Goto
      <4>2. CASE UnlockExt
            BY <4>2, SetFields DEF UnlockExt, Goto
      <4> QED BY <2>2, <4>1, <4>2
    <3> QED BY <2>1, <3>1 DEF Hangs
  <2>3. CASE FreeHooks
    <3>1. /\ main.pc = "hooks" /\ main'.pc = "unlock" /\ main'.x = main.x /\ dead' = dead
          /\ hk' = IF hk # None /\ hk.ext = main.x THEN None ELSE hk
          BY <2>1, <2>3, SetFields DEF FreeHooks, Goto
    <3> QED BY <2>1, <3>1 DEF Hangs
  <2>4. CASE FreeExt
    <3>1. dead' = dead \cup {main.x} /\ hooks' = hooks
          BY <2>4 DEF FreeExt
    <3> QED BY <2>1, <3>1 DEF Hangs
  <2>5. CASE init_louis
    <3>1. main.pc = "init" /\ dead' = dead
          BY <2>5 DEF init_louis
    <3>2. hk = None
          BY <2>1, <3>1, NoHooks DEF Empty
    <3> QED BY <2>1, <3>1, <3>2 DEF Hangs
  <2>6. CASE SetHook
    <3>1. main.pc = "set" /\ dead' = dead
          BY <2>6 DEF SetHook
    <3>2. t[2] = hookc - 1 => hk = None
          BY <3>1, NextFid
    <3>3. t[2] # hookc - 1 => hk' = hk
          BY <2>1, <2>6 DEF SetHook
    <3> QED BY <2>1, <3>1, <3>2, <3>3 DEF Hangs
  <2>7. CASE ~(LockExt \/ FreeHooks \/ UnlockExt) /\ ~FreeExt /\ ~init_louis /\ ~SetHook
    <3>1. main.pc \notin {"unlock", "free"} /\ UNCHANGED <<hooks, dead>>
          BY <2>7, MainOthers
    <3> QED BY <2>1, <3>1 DEF Hangs
  <2> QED BY <2>2, <2>3, <2>4, <2>5, <2>6, <2>7
<1> QED BY <1>1, <1>2, <1>3 DEF ThreadInv

LEMMA MainEndsCalm == Inv /\ MainDisjuncts => calm' = {} /\ CalmInv'
<1> SUFFICES ASSUME Inv, MainDisjuncts PROVE calm' = {} /\ CalmInv'
    OBVIOUS
<1>1. UNCHANGED <<pending, thread>> /\ CalmInv
      BY MainLeavesThreads DEF Inv
<1>2. calm' = {}
  <2>1. CASE \E op \in {"load", "unload", "reload"} : Command(op)
        BY <2>1, SMTT(60) DEF Command
  <2>2. CASE ~\E op \in {"load", "unload", "reload"} : Command(op)
        BY <1>1, <2>2, ZenonT(60) DEF MainDisjuncts, CalmInv, DestroyPeriodics, TakeExt, LockExt, FreeHooks,
           UnlockExt, FreeExt, init_louis, load_ext, l_register_hook, SetHook
  <2> QED BY <2>1, <2>2
<1> QED BY <1>1, <1>2 DEF CalmInv

LEMMA ThreadsKeepOwners == Inv /\ ThreadStep => OwnInv' /\ ThreadInv'
<1> SUFFICES ASSUME Inv, ThreadStep PROVE OwnInv' /\ ThreadInv'
    OBVIOUS
<1> USE ThreadFields, ThreadsAssumption
<1>1. UNCHANGED mainVars /\ OwnInv /\ ThreadInv
      BY ThreadsLeaveMain DEF Inv
<1>2. UNCHANGED <<main, hooks, dead>>
      BY <1>1 DEF mainVars
<1> DEFINE Holds(t) == thread[t].pc \in {"locked", "run", "asked"}
           Knows(t) == thread[t].pc \in {"lock", "locked", "run", "asked"} => thread[t].x \in Extensions /\ Hangs(t)
           Sees(t) == thread[t].pc \in {"run", "asked"} =>
                          /\ thread[t].hk \in Hook /\ thread[t].hk.ext = thread[t].x
                          /\ S[thread[t].x] = t
           Owns(t) == Holds(t) => owner[thread[t].x] = t
           Calling(k) == /\ call[k].pc \in {"lock", "run"} => call[k].x \in Extensions
                         /\ call[k].pc = "run" => owner[call[k].x] = k
           Main1 == main.pc \in {"hooks", "unlock"} => owner[main.x] = Main
           All == (\A t \in Threads : Knows(t) /\ Sees(t) /\ Owns(t)) /\ (\A k \in Calls : Calling(k)) /\ Main1
<1>3. All
      BY <1>1 DEF OwnInv, ThreadInv
<1>4. SUFFICES All'
      BY DEF OwnInv, ThreadInv
<1>5. ASSUME NEW u \in Threads, thread'[u] = thread[u] PROVE Hangs(u)' = Hangs(u)
      BY <1>2, <1>5 DEF Hangs
<1>6. ASSUME UNCHANGED <<thread, call, owner, S>> PROVE All'
  <2>1. \A u \in Threads : Hangs(u)' = Hangs(u)
        BY <1>5, <1>6
  <2> QED BY <1>2, <1>3, <1>6, <2>1
<1>7. ASSUME NEW m \in Messages, Receive(m) PROVE All'
      BY <1>6, <1>7 DEF Receive
<1>8. ASSUME NEW t \in Threads, to_louis(t[1], t[2]) PROVE All'
  <2>1. CASE thread' = thread
        BY <1>6, <1>8, <2>1 DEF to_louis
  <2>2. CASE thread' # thread
    <3>1. /\ UNCHANGED <<call, owner, S>>
          /\ thread' = [thread EXCEPT ![t].pc = "start"]
          BY <1>8, <2>2 DEF to_louis
    <3>2. thread'[t].pc = "start"
          BY <3>1 DEF ThreadState
    <3>3. \A u \in Threads : u # t => thread'[u] = thread[u] /\ Hangs(u)' = Hangs(u)
          BY <1>5, <3>1
    <3> QED BY <1>2, <1>3, <3>1, <3>2, <3>3
  <2> QED BY <2>1, <2>2, SMTT(60)
<1>9. ASSUME NEW t \in Threads, exec_hook(t) PROVE All'
  <2>1. CASE thread' = thread
    <3>1. UNCHANGED <<call, owner, S>>
      <4>1. thread[t] \in ThreadState /\ thread'[t] = thread[t]
            BY <2>1
      <4>2. CASE Lock(t)
            BY <2>1, <4>1, <4>2 DEF Lock, At, ThreadState
      <4>3. CASE Enter(t)
        <5>1. [thread[t] EXCEPT !.pc = "run", !.hk = hooks[t[2]]].pc = "run"
              BY <4>1 DEF ThreadState
        <5>2. thread[t].pc = "locked" /\ UNCHANGED <<call, owner>>
              BY <4>3 DEF Enter, At
        <5>3. S' = S \/ thread' = [thread EXCEPT ![t] = [@ EXCEPT !.pc = "run", !.hk = hooks[t[2]]]]
              BY <4>3 DEF Enter
        <5>4. S' = S \/ thread'[t].pc = "run"
              BY <5>1, <5>3
        <5> QED BY <4>1, <5>2, <5>4
      <4>4. CASE Unlock(t)
        <5>1. [thread[t] EXCEPT !.pc = "done", !.x = None, !.hk = None].pc = "done"
              BY <4>1 DEF ThreadState
        <5>2. thread[t].pc = "asked" /\ UNCHANGED <<call, S>>
              BY <4>4 DEF Unlock, At
        <5>3. owner' = owner \/ thread' = [thread EXCEPT ![t] = [@ EXCEPT !.pc = "done", !.x = None, !.hk = None]]
              BY <4>4 DEF Unlock
        <5>4. owner' = owner \/ thread'[t].pc = "done"
              BY <5>1, <5>3
        <5> QED BY <4>1, <5>2, <5>4
      <4>5. CASE Start(t) \/ Ask(t) \/ Unmapped(t)
            BY <2>1, <4>5 DEF Start, Ask, Unmapped, At
      <4> QED BY <1>9, <4>2, <4>3, <4>4, <4>5 DEF exec_hook
    <3> QED BY <1>6, <2>1, <3>1
  <2>2. CASE thread' # thread /\ Start(t)
    <3>1. /\ UNCHANGED <<call, owner, S>> /\ hooks[t[2]] \in Hook
          /\ thread' = [thread EXCEPT ![t] = [pc |-> "lock", x |-> hooks[t[2]].ext, hk |-> None]]
          BY <2>2 DEF Start, At
    <3>2. thread'[t].pc = "lock" /\ thread'[t].x = hooks[t[2]].ext /\ hooks[t[2]].ext \in Extensions
          BY <3>1 DEF Hook
    <3>3. Hangs(t)'
          BY <1>2, <3>1, <3>2 DEF Hangs
    <3>4. \A u \in Threads : u # t => thread'[u] = thread[u] /\ Hangs(u)' = Hangs(u)
          BY <1>5, <3>1
    <3> QED BY <1>2, <1>3, <3>1, <3>2, <3>3, <3>4
  <2>3. CASE thread' # thread /\ Lock(t)
    <3> DEFINE x == thread[t].x
    <3>1. /\ UNCHANGED <<call, S>> /\ thread[t].pc = "lock" /\ owner[x] = None
          /\ owner' = [owner EXCEPT ![x] = t]
          /\ thread' = [thread EXCEPT ![t].pc = "locked"]
          BY <2>3 DEF Lock, At
    <3>2. thread'[t].pc = "locked" /\ thread'[t].x = x /\ x \in Extensions /\ Hangs(t)
          BY <1>3, <3>1 DEF ThreadState
    <3>3. Hangs(t)'
          BY <1>2, <3>2 DEF Hangs
    <3>4. \A u \in Threads : u # t => thread'[u] = thread[u] /\ Hangs(u)' = Hangs(u)
          BY <1>5, <3>1
    <3>5. \A u \in Threads : u # t => Owns(u)'
          BY <1>3, <3>1, <3>2, <3>4
    <3>6. (\A k \in Calls : Calling(k)') /\ Main1'
          BY <1>2, <1>3, <3>1
    <3> QED BY <1>3, <3>1, <3>2, <3>3, <3>4, <3>5, <3>6
  <2>4. CASE thread' # thread /\ Enter(t)
    <3> DEFINE x == thread[t].x
    <3>1. /\ UNCHANGED <<call, owner>> /\ thread[t].pc = "locked" /\ x \notin dead /\ hooks[t[2]] \in Hook
          /\ S' = [S EXCEPT ![x] = t]
          /\ thread' = [thread EXCEPT ![t].pc = "run", ![t].hk = hooks[t[2]]]
          BY <2>4 DEF Enter, At
    <3>2. /\ thread'[t].pc = "run" /\ thread'[t].x = x /\ thread'[t].hk = hooks[t[2]]
          /\ x \in Extensions /\ Hangs(t) /\ owner[x] = t
          BY <1>3, <3>1 DEF ThreadState
    <3>3. hooks[t[2]].ext = x /\ Hangs(t)'
          BY <1>2, <3>1, <3>2 DEF Hangs
    <3>4. \A u \in Threads : u # t => thread'[u] = thread[u] /\ Hangs(u)' = Hangs(u)
          BY <1>5, <3>1
    <3>5. \A u \in Threads : u # t => Sees(u)'
          BY <1>3, <3>1, <3>2, <3>4
    <3>6. Sees(t)'
          BY <3>1, <3>2, <3>3
    <3> QED BY <1>2, <1>3, <3>1, <3>2, <3>3, <3>4, <3>5, <3>6
  <2>5. CASE thread' # thread /\ Ask(t)
    <3>1. /\ UNCHANGED <<call, owner, S>> /\ thread[t].pc = "run"
          /\ thread' = [thread EXCEPT ![t].pc = "asked"]
          BY <2>5 DEF Ask, At
    <3>2. thread'[t].pc = "asked" /\ thread'[t].x = thread[t].x /\ thread'[t].hk = thread[t].hk
          BY <3>1 DEF ThreadState
    <3>3. Hangs(t)' = Hangs(t)
          BY <1>2, <3>2 DEF Hangs
    <3>4. \A u \in Threads : u # t => thread'[u] = thread[u] /\ Hangs(u)' = Hangs(u)
          BY <1>5, <3>1
    <3> QED BY <1>2, <1>3, <3>1, <3>2, <3>3, <3>4
  <2>6. CASE thread' # thread /\ Unlock(t)
    <3> DEFINE x == thread[t].x
    <3>1. /\ UNCHANGED <<call, S>> /\ thread[t].pc = "asked" /\ thread[t].hk.ext = x /\ owner[x] = t
          /\ owner' = [owner EXCEPT ![x] = None] /\ x \in Extensions
          /\ thread' = [thread EXCEPT ![t] = [@ EXCEPT !.pc = "done", !.x = None, !.hk = None]]
          BY <1>3, <2>6 DEF Unlock, At
    <3>2. thread'[t].pc = "done"
          BY <3>1 DEF ThreadState
    <3>3. \A u \in Threads : u # t => thread'[u] = thread[u] /\ Hangs(u)' = Hangs(u)
          BY <1>5, <3>1
    <3>4. \A u \in Threads : u # t => Owns(u)'
          BY <1>3, <3>1, <3>3
    <3>5. (\A k \in Calls : Calling(k)') /\ Main1'
          BY <1>2, <1>3, <3>1
    <3> QED BY <1>3, <3>1, <3>2, <3>3, <3>4, <3>5
  <2> QED BY <1>9, <2>1, <2>2, <2>3, <2>4, <2>5, <2>6 DEF exec_hook, Unmapped
<1>10. ASSUME NEW k \in Calls, call_periodic(k) PROVE All'
  <2> DEFINE x == call[k].x
  <2>1. UNCHANGED <<thread, S>> /\ x \in Extensions
        BY <1>3, <1>10 DEF call_periodic
  <2>2. \A u \in Threads : Hangs(u)' = Hangs(u)
        BY <1>5, <2>1
  <2>3. CASE call[k].pc = "lock"
    <3>1. owner[x] = None /\ owner' = [owner EXCEPT ![x] = k] /\ call' = [call EXCEPT ![k].pc = "run"]
          BY <1>10, <2>3 DEF call_periodic
    <3>2. call'[k].pc = "run" /\ call'[k].x = x /\ \A l \in Calls : l # k => call'[l] = call[l]
          BY <3>1 DEF CallState
    <3>3. \A u \in Threads : Owns(u)'
          BY <1>3, <2>1, <3>1
    <3>4. (\A l \in Calls : Calling(l)') /\ Main1'
          BY <1>2, <1>3, <2>1, <3>1, <3>2
    <3> QED BY <1>3, <2>1, <2>2, <3>3, <3>4
  <2>4. CASE call[k].pc = "run"
    <3>1. owner[x] = k /\ owner' = [owner EXCEPT ![x] = None] /\ call' = [call EXCEPT ![k].pc = "done"]
          BY <1>3, <1>10, <2>4 DEF call_periodic
    <3>2. call'[k].pc = "done" /\ \A l \in Calls : l # k => call'[l] = call[l]
          BY <3>1 DEF CallState
    <3>3. \A u \in Threads : Owns(u)'
          BY <1>3, <2>1, <3>1
    <3>4. (\A l \in Calls : Calling(l)') /\ Main1'
          BY <1>2, <1>3, <2>1, <3>1, <3>2
    <3> QED BY <1>3, <2>1, <2>2, <3>3, <3>4
  <2> QED BY <1>10, <2>3, <2>4 DEF call_periodic
<1>11. ASSUME NEW k \in Calls, NEW x \in Extensions, run_periodic(k, x) PROVE All'
  <2>1. UNCHANGED <<thread, S, owner>> /\ call' = [call EXCEPT ![k] = [pc |-> "lock", x |-> x]]
        BY <1>11 DEF run_periodic
  <2>2. \A u \in Threads : Hangs(u)' = Hangs(u)
        BY <1>5, <2>1
  <2>3. \A l \in Calls : Calling(l)'
        BY <1>3, <2>1
  <2> QED BY <1>2, <1>3, <2>1, <2>2, <2>3
<1> HIDE DEF All
<1> QED BY <1>7, <1>8, <1>9, <1>10, <1>11 DEF ThreadStep

LEMMA ThreadsKeepCalm == Inv /\ ThreadStep => CalmInv'
<1> SUFFICES ASSUME Inv, ThreadStep PROVE CalmInv'
    OBVIOUS
<1> USE ThreadFields, ThreadsAssumption
<1>1. UNCHANGED <<main, hooks, loaded, table>> /\ CalmInv /\ TableInv
      BY ThreadsLeaveMain DEF Inv, mainVars
<1> DEFINE Active(t) == thread[t].pc \notin {"none", "done"}
           Awaits(t) == pending[t[1]] = None => thread[t].pc = "none"
           Knows(t) == /\ Active(t) \/ t[2] \in pending[t[1]] => hooks[t[2]] # None /\ hooks[t[2]].key = t[1].key
                       /\ Active(t) /\ hooks[t[2]].cmds # <<>> => match_cmds(t[1].tail, hooks[t[2]].cmds)
                       /\ thread[t].pc \in {"lock", "locked", "run", "asked"} => thread[t].x = hooks[t[2]].ext
                       /\ thread[t].pc \in {"run", "asked"} => thread[t].hk = hooks[t[2]]
           Calm == /\ calm # {} => main.pc = "idle" /\ loaded
                   /\ \A m \in calm : pending[m] # None
           All == Calm /\ \A t \in Threads : Awaits(t) /\ (t[1] \in calm => Knows(t))
<1>2. All
      BY <1>1 DEF CalmInv
<1>3. SUFFICES All'
      BY DEF CalmInv
<1>4. ASSUME UNCHANGED <<thread, pending, calm>> PROVE All'
      BY <1>1, <1>2, <1>4
<1>5. ASSUME NEW m \in Messages, Receive(m) PROVE All'
  <2> DEFINE fids == {h.fid : h \in {h \in table : h.key = m.key}}
  <2>1. /\ pending[m] = None /\ pending' = [pending EXCEPT ![m] = fids] /\ thread' = thread
        /\ calm' = calm \/ (calm' = calm \cup {m} /\ main.pc = "idle" /\ loaded)
        BY <1>5 DEF Receive
  <2>2. fids \subseteq Fids
        BY MainFields
  <2>3. pending'[m] = fids /\ fids # None /\ \A n \in Messages : n # m => pending'[n] = pending[n]
        BY <2>1, <2>2
  <2>4. Calm'
        BY <1>1, <1>2, <2>1, <2>3
  <2>5. ASSUME NEW t \in Threads, t[1] = m, t[1] \in calm' PROVE Knows(t)'
    <3>1. thread'[t].pc = "none" /\ main.pc = "idle"
          BY <1>2, <2>1, <2>5
    <3>2. ASSUME t[2] \in fids PROVE hooks[t[2]] # None /\ hooks[t[2]].key = t[1].key
          BY <1>1, <2>5, <3>1, <3>2 DEF TableInv, Pending
    <3> QED BY <1>1, <2>3, <2>5, <3>1, <3>2
  <2>6. ASSUME NEW t \in Threads, t[1] # m, t[1] \in calm' PROVE Knows(t)'
        BY <1>1, <1>2, <2>1, <2>3, <2>6
  <2>7. \A t \in Threads : Awaits(t)'
        BY <1>2, <2>1, <2>3
  <2> QED BY <2>4, <2>5, <2>6, <2>7
<1>6. ASSUME NEW t \in Threads, to_louis(t[1], t[2]) PROVE All'
  <2>1. /\ pending[t[1]] # None /\ t[2] \in pending[t[1]] /\ calm' = calm
        /\ pending' = [pending EXCEPT ![t[1]] = @ \ {t[2]}]
        BY <1>6 DEF to_louis
  <2>2. pending[t[1]] \in SUBSET Fids
        BY <2>1
  <2>3. /\ pending'[t[1]] = pending[t[1]] \ {t[2]} /\ pending'[t[1]] \in SUBSET Fids
        /\ \A n \in Messages : n # t[1] => pending'[n] = pending[n]
        BY <2>1, <2>2
  <2>4. \A n \in Messages : pending'[n] = None <=> pending[n] = None
        BY <2>1, <2>3
  <2>5. \/ thread' = thread
        \/ /\ hooks[t[2]] # None /\ (hooks[t[2]].cmds # <<>> => match_cmds(t[1].tail, hooks[t[2]].cmds))
           /\ thread' = [thread EXCEPT ![t].pc = "start"]
        BY <1>6 DEF to_louis
  <2>6. CASE thread' = thread
    <3>1. \A u \in Threads : u[2] \in pending'[u[1]] => u[2] \in pending[u[1]]
          BY <2>3
    <3> QED BY <1>1, <1>2, <2>1, <2>4, <2>6, <3>1
  <2>7. CASE thread' # thread
    <3>1. thread'[t].pc = "start" /\ \A u \in Threads : u # t => thread'[u] = thread[u]
          BY <2>5, <2>7 DEF ThreadState
    <3>2. \A u \in Threads : u[2] \in pending'[u[1]] => u[2] \in pending[u[1]]
          BY <2>3
    <3>3. \A u \in Threads : Awaits(u)'
          BY <1>2, <2>1, <2>4, <3>1, ZenonT(60)
    <3>4. t[1] \in calm' => Knows(t)'
          BY <1>1, <1>2, <2>1, <2>5, <2>7, <3>1
    <3>5. \A u \in Threads : u # t /\ u[1] \in calm' => Knows(u)'
          BY <1>1, <1>2, <2>1, <3>1, <3>2
    <3>6. Calm'
          BY <1>1, <1>2, <2>1, <2>4
    <3> QED BY <3>3, <3>4, <3>5, <3>6
  <2> QED BY <2>6, <2>7
<1>7. ASSUME NEW t \in Threads, exec_hook(t) PROVE All'
  <2>1. UNCHANGED <<pending, calm>>
        BY <1>7 DEF exec_hook, Start, Lock, Enter, Ask, Unlock, Unmapped, At
  <2>2. CASE thread' = thread
        BY <1>4, <2>1, <2>2
  <2>3. CASE thread' # thread
    <3>1. thread[t].pc \notin {"none", "done"}
          BY <1>7 DEF exec_hook, Start, Lock, Enter, Ask, Unlock, Unmapped, At
    <3>2. \A u \in Threads : u # t => thread'[u] = thread[u]
          BY <1>7, ZenonT(60) DEF exec_hook, Start, Lock, Enter, Ask, Unlock, Unmapped
    <3>3. pending[t[1]] # None
          BY <1>2, <3>1
    <3>4. t[1] \in calm => Knows(t)'
      <4>1. CASE Start(t)
        <5>1. thread'[t].pc = "lock" /\ thread'[t].x = hooks[t[2]].ext
              BY <2>3, <4>1 DEF Start
        <5> QED BY <1>1, <1>2, <2>1, <3>1, <5>1
      <4>2. CASE Lock(t)
        <5>1. thread[t].pc = "lock" /\ thread'[t].pc = "locked" /\ thread'[t].x = thread[t].x
              BY <2>3, <4>2 DEF Lock, At, ThreadState
        <5> QED BY <1>1, <1>2, <2>1, <3>1, <5>1
      <4>3. CASE Enter(t)
        <5>1. thread[t].pc = "locked" /\ thread' = [thread EXCEPT ![t].pc = "run", ![t].hk = hooks[t[2]]]
              BY <2>3, <4>3 DEF Enter, At
        <5>2. thread'[t].pc = "run" /\ thread'[t].x = thread[t].x /\ thread'[t].hk = hooks[t[2]]
              BY <5>1 DEF ThreadState
        <5> QED BY <1>1, <1>2, <2>1, <3>1, <5>1, <5>2
      <4>4. CASE Ask(t)
        <5>1. /\ thread[t].pc = "run" /\ thread'[t].pc = "asked"
              /\ thread'[t].x = thread[t].x /\ thread'[t].hk = thread[t].hk
              BY <2>3, <4>4 DEF Ask, At, ThreadState
        <5> QED BY <1>1, <1>2, <2>1, <3>1, <5>1
      <4>5. CASE Unlock(t)
        <5>1. thread[t].pc = "asked" /\ thread'[t] = [thread[t] EXCEPT !.pc = "done", !.x = None, !.hk = None]
              BY <2>3, <4>5 DEF Unlock, At
        <5>2. thread'[t].pc = "done"
              BY <5>1 DEF ThreadState
        <5> QED BY <1>1, <1>2, <2>1, <3>1, <5>1, <5>2
      <4> QED BY <1>7, <2>3, <4>1, <4>2, <4>3, <4>4, <4>5 DEF exec_hook, Unmapped
    <3> QED BY <1>1, <1>2, <2>1, <3>2, <3>3, <3>4
  <2> QED BY <2>2, <2>3
<1>8. ASSUME NEW k \in Calls, call_periodic(k) \/ \E x \in Extensions : run_periodic(k, x) PROVE All'
  <2>1. UNCHANGED <<thread, pending, calm>>
        BY <1>8 DEF call_periodic, run_periodic
  <2> QED BY <1>4, <2>1
<1> HIDE DEF All
<1> QED BY <1>5, <1>6, <1>7, <1>8 DEF ThreadStep

LEMMA StepInv == Inv /\ [Next]_vars => Inv'
<1>1. ASSUME Inv, MainDisjuncts PROVE Inv'
      BY <1>1, MainKeepsTypes, StepKeepsDir, MainKeepsOwners, MainKeepsHangs, MainEndsCalm DEF Inv, DirInv
<1>2. ASSUME Inv, ThreadStep PROVE Inv'
      BY <1>2, ThreadsKeepTypes, StepKeepsDir, ThreadsKeepOwners, ThreadsKeepCalm DEF Inv, DirInv
<1>3. ASSUME Inv, UNCHANGED vars PROVE Inv'
  <2>0. TypeOK'
        BY <1>3 DEF vars, Inv, TypeOK
  <2>1. MainInv' /\ ExtsInv' /\ DeadInv'
        BY <1>3, SMTT(60) DEF vars, Inv, MainInv, ExtsInv, DeadInv, Loading, Taken, Freeing, Empty, Current, Gone
  <2>2. ArrayInv' /\ CountInv' /\ TableInv'
        BY <1>3, ZenonT(60) DEF vars, Inv, ArrayInv, CountInv, TableInv, Loading, Taken, Freeing, Empty, Current, Rank,
           Cursor, HookOf, InArray, Pending
  <2>3. OwnInv' /\ ThreadInv' /\ CalmInv'
        BY <1>3 DEF vars, Inv, OwnInv, ThreadInv, CalmInv, Hangs
  <2> QED BY <2>0, <2>1, <2>2, <2>3 DEF Inv
<1> QED BY <1>1, <1>2, <1>3, StepKinds

(***************************************************************************)
(* The arrays of extensions and hooks, the mutexes and what the threads    *)
(* have in hand agree in every state.                                      *)
(***************************************************************************)
THEOREM Agreed == Spec => []Inv
BY InitInv, StepInv, PTL DEF Spec

(***************************************************************************)
(* Every variable has its type.                                            *)
(***************************************************************************)
THEOREM TypeCorrect == Spec => []TypeOK
<1>1. Inv => TypeOK
      BY DEF Inv
<1> QED BY <1>1, Agreed, PTL

(***************************************************************************)
(* The Lua state of an extension is used by one thread at a time: whoever  *)
(* uses it has its mutex, and a mutex has one owner.                       *)
(***************************************************************************)
THEOREM AloneInExtension == Spec => []OneAtATime
<1>1. ASSUME Inv PROVE OneAtATime
  <2> SUFFICES ASSUME NEW x \in Extensions
               PROVE  Cardinality({t \in Threads : thread[t].pc \in {"run", "asked"} /\ thread[t].hk.ext = x}
                                      \cup {k \in Calls : call[k].pc = "run" /\ call[k].x = x}
                                      \cup {y \in {Main} : main.pc = "hooks" /\ main.x = x}) <= 1
      BY DEF OneAtATime
  <2> DEFINE Users == {t \in Threads : thread[t].pc \in {"run", "asked"} /\ thread[t].hk.ext = x}
                          \cup {k \in Calls : call[k].pc = "run" /\ call[k].x = x}
                          \cup {y \in {Main} : main.pc = "hooks" /\ main.x = x}
  <2>1. \A u \in Users : owner[x] = u
        BY <1>1 DEF Inv, OwnInv, ThreadInv
  <2>2. Users = {} \/ Users = {owner[x]}
        BY <2>1
  <2>3. Cardinality({}) = 0 /\ Cardinality({owner[x]}) = 1
        BY FS_EmptySet, FS_Singleton
  <2> HIDE DEF Users
  <2>4. Cardinality(Users) <= 1
        BY <2>2, <2>3
  <2> QED BY <2>4 DEF Users
<1> QED BY <1>1, Agreed, PTL

(***************************************************************************)
(* The words match_cmds accepts are named after a prefix.                  *)
(***************************************************************************)
LEMMA MatchNames ==
  ASSUME NEW tail, NEW cmds, match_cmds(tail, cmds)
  PROVE  Named(tail, cmds)
<1> DEFINE fits == {i \in DOMAIN cmd_prefix : tail # None /\ IsPrefix(cmd_prefix[i], tail)}
           least == CHOOSE i \in fits : \A j \in fits : i <= j
           prefix == cmd_prefix[least]
<1>1. fits # {} /\ \E c \in ToSet(cmds) : tail = prefix \o c \/ IsPrefix(prefix \o c \o <<" ">>, tail)
      BY DEF match_cmds
<1>2. DOMAIN cmd_prefix \subseteq Nat
      BY PrefixAssumption
<1>3. fits \in SUBSET Nat /\ tail # None
      BY <1>1, <1>2
<1>4. least \in fits
  <2> HIDE DEF fits
  <2>1. \E i \in fits : \A j \in fits : i <= j
        BY <1>1, <1>3, LeastNat
  <2> QED BY <2>1
<1>5. prefix \in ToSet(cmd_prefix)
      BY <1>4 DEF ToSet
<1> HIDE DEF least
<1> QED BY <1>1, <1>3, <1>5 DEF Named

(***************************************************************************)
(* The function that runs for a message that came after the last command   *)
(* is the one its fid was given to, and sees this message.                 *)
(***************************************************************************)
THEOREM FunctionSeesItsMessage == Spec => []SeesItsMessage
<1>1. ASSUME Inv PROVE SeesItsMessage
  <2> SUFFICES ASSUME NEW t \in Threads, thread[t].pc \in {"run", "asked"}, t[1] \in calm
               PROVE  LET hk == thread[t].hk
                          said == Registered(t[2])
                      IN /\ S[hk.ext] = t
                         /\ hk.fname = said.fname /\ said.key = t[1].key
                         /\ said.cmds # <<>> => Named(t[1].tail, said.cmds)
      BY DEF SeesItsMessage
  <2> DEFINE hk == thread[t].hk
             said == Registered(t[2])
  <2>1. S[hk.ext] = t
        BY <1>1 DEF Inv, ThreadInv
  <2>2. /\ hk = hooks[t[2]] /\ hk # None /\ hk.key = t[1].key
        /\ hk.cmds # <<>> => match_cmds(t[1].tail, hk.cmds)
        BY <1>1 DEF Inv, CalmInv
  <2>3. t[2] \in Fids /\ dir \in Dirs
        BY <1>1, ThreadFields, MainFields
  <2>4. PICK p \in Places(dir) : Rank(p) = t[2] /\ hk = HookOf(p)
        BY <1>1, <2>2, <2>3 DEF Inv, ArrayInv
  <2>5. \A q \in Places(dir) : Cardinality(Before(dir, q)) = t[2] => q = p
        BY <2>3, <2>4, RankTells DEF Rank
  <2>6. p = CHOOSE q \in Places(dir) : Cardinality(Before(dir, q)) = t[2]
        BY <2>4, <2>5 DEF Rank
  <2>7. said = dir[p[1]].hooks[p[2]]
        BY <2>6 DEF Registered
  <2>8. hk.fname = said.fname /\ hk.key = said.key /\ hk.cmds = said.cmds
        BY <2>4, <2>7 DEF HookOf
  <2>9. said.cmds # <<>> => Named(t[1].tail, said.cmds)
        BY <2>2, <2>8, MatchNames
  <2> QED BY <2>1, <2>2, <2>8, <2>9
<1> QED BY <1>1, Agreed, PTL

(***************************************************************************)
(* What a reload frees is used only by threads of messages that came       *)
(* before it was over.                                                     *)
(***************************************************************************)
\* The thread of a later message finds its hook, and its extension alive.
LEMMA CalmFinds ==
  ASSUME Inv, NEW t \in Threads, t[1] \in calm, thread[t].pc \notin {"none", "done"}
  PROVE  /\ loaded /\ main.pc = "idle" /\ hooks[t[2]] # None
         /\ hooks[t[2]].ext \notin dead
         /\ \E i \in DOMAIN exts : exts[i] = hooks[t[2]].ext /\ \A j \in 1..i : exts[j] # None
<1> USE MainFields, ThreadFields
<1>1. loaded /\ main.pc = "idle" /\ hooks[t[2]] # None
      BY DEF Inv, CalmInv
<1>2. ~Empty /\ ~Freeing /\ ~Loading
      BY <1>1 DEF Empty, Freeing, Taken, Loading
<1>3. PICK p \in Places(dir) : hooks[t[2]] = HookOf(p)
      BY <1>1 DEF Inv, ArrayInv
<1>4. hooks[t[2]].ext = Current(p[1]) /\ p[1] \in DOMAIN dir
      BY <1>3, PlaceType DEF HookOf
<1>5. Current(p[1]) \notin dead
      BY <1>2 DEF Inv, DeadInv, Current
<1>6. Len(exts) = Len(dir) /\ \A k \in DOMAIN exts : exts[k] = Current(k) /\ loads > 0
      BY <1>1, <1>2 DEF Inv, ExtsInv, Gone
<1>7. \A k \in DOMAIN exts : exts[k] # None
  <2>1. TypeOK
        BY DEF Inv
  <2>2. \A k \in DOMAIN dir : Current(k) \in Extensions
        BY <1>6, <2>1, CurrentType
  <2> QED BY <1>6, <2>2, ThreadsAssumption
<1>8. \A j \in 1..p[1] : j \in DOMAIN exts
      BY <1>4, <1>6
<1> QED BY <1>1, <1>4, <1>5, <1>6, <1>7, <1>8

LEMMA StepFaults == Inv /\ FaultsNeedReload /\ [Next]_vars => FaultsNeedReload'
<1> SUFFICES ASSUME Inv, FaultsNeedReload, [Next]_vars PROVE FaultsNeedReload'
    OBVIOUS
<1>1. CASE UNCHANGED vars
      BY <1>1 DEF vars, FaultsNeedReload
<1>2. ASSUME fault' = fault, Next PROVE FaultsNeedReload'
      BY <1>2 DEF FaultsNeedReload, Next, Ok
<1>3. CASE Next /\ MainDisjuncts
  <2>1. fault' = fault \/ Fail("closed", None)
        BY <1>3 DEF MainDisjuncts, Command, DestroyPeriodics, TakeExt, LockExt, FreeHooks, UnlockExt, FreeExt,
           init_louis, load_ext, l_register_hook, SetHook
  <2> QED BY <1>2, <1>3, <2>1, SMTT(60) DEF Fail, FaultsNeedReload
<1>4. ASSUME Next, NEW t \in Threads, to_louis(t[1], t[2]) \/ exec_hook(t) PROVE FaultsNeedReload'
  <2> USE ThreadFields
  <2>1. calm' = calm
        BY <1>4 DEF to_louis, exec_hook, Start, Lock, Enter, Ask, Unlock, Unmapped, At
  <2>2. CASE t[1] \notin calm
    <3>1. fault' = fault \/ fault'.by = t[1]
      <4>1. CASE to_louis(t[1], t[2])
            BY <4>1 DEF to_louis, Fail
      <4>2. CASE Start(t) \/ Lock(t)
            BY <4>2 DEF Start, Lock, Fail
      <4>3. CASE Enter(t)
        <5>1. Fail("stale", t[1]) \/ Fail("in use", t[1]) \/ fault' = fault
              BY <4>3 DEF Enter
        <5>2. \A cause : Fail(cause, t[1]) => fault'.by = t[1]
              BY DEF Fail
        <5> QED BY <5>1, <5>2, Zenon
      <4>4. CASE Ask(t) \/ Unlock(t) \/ Unmapped(t)
            BY <4>4 DEF Ask, Unlock, Unmapped, Fail
      <4> QED BY <1>4, <4>1, <4>2, <4>3, <4>4 DEF exec_hook
    <3> QED BY <1>2, <1>4, <2>1, <2>2, <3>1 DEF FaultsNeedReload
  <2>3. CASE t[1] \in calm
    <3>1. loaded
          BY <2>3 DEF Inv, CalmInv
    <3>2. thread[t].pc \notin {"none", "done"} =>
             /\ main.pc = "idle" /\ hooks[t[2]] # None /\ hooks[t[2]].ext \notin dead
             /\ \E i \in DOMAIN exts : exts[i] = hooks[t[2]].ext /\ \A j \in 1..i : exts[j] # None
          BY <2>3, CalmFinds
    <3>3. /\ thread[t].pc \in {"lock", "locked", "run", "asked"} => thread[t].x = hooks[t[2]].ext
          /\ thread[t].pc \in {"run", "asked"} => thread[t].hk = hooks[t[2]]
          BY <2>3 DEF Inv, CalmInv
    <3>4. fault' = fault
      <4>1. CASE to_louis(t[1], t[2])
            BY <3>1, <4>1 DEF to_louis
      <4>2. CASE Start(t)
            BY <3>2, <4>2 DEF Start, At
      <4>3. CASE Lock(t)
            BY <3>2, <3>3, <4>3 DEF Lock, At
      <4>4. CASE Enter(t)
            BY <3>2, <3>3, <4>4 DEF Enter, At
      <4>5. CASE Ask(t)
            BY <3>2, <3>3, <4>5 DEF Ask, At
      <4>6. CASE Unlock(t)
            BY <3>2, <3>3, <4>6 DEF Unlock, At
      <4> QED BY <1>4, <3>1, <4>1, <4>2, <4>3, <4>4, <4>5, <4>6 DEF exec_hook, Unmapped
    <3> QED BY <1>2, <1>4, <3>4
  <2> QED BY <2>2, <2>3
<1>5. ASSUME Next, \/ \E m \in Messages : Receive(m)
                  \/ \E k \in Calls : call_periodic(k) \/ \E x \in Extensions : run_periodic(k, x)
      PROVE  FaultsNeedReload'
  <2>1. fault' = fault
        BY <1>5 DEF Receive, call_periodic, run_periodic
  <2> QED BY <1>2, <1>5, <2>1
<1> QED BY <1>1, <1>3, <1>4, <1>5, StepKinds DEF ThreadStep

(***************************************************************************)
(* louis.c:117-163: what free_louis takes away is met by a thread only if  *)
(* its message came before the command that did so was over.               *)
(***************************************************************************)
THEOREM LaterMessagesAreSafe == Spec => []FaultsNeedReload
<1>1. Init => FaultsNeedReload
      BY DEF Init, FaultsNeedReload
<1> QED BY <1>1, StepFaults, Agreed, PTL DEF Spec
=============================================================================
