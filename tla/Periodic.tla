------------------------------ MODULE Periodic ------------------------------
(* louis's periodics: Lua functions that periodic_main calls every so many  *)
(* seconds, kept in a list by deadline.  Time is whole seconds, as          *)
(* gettimeofday's tv_sec, and passes between any two steps.                 *)
(*                                                                          *)
(* Nothing locks the list.  Extensions register periodics while louis is    *)
(* set up, before periodic_main starts, but a hook may do so at any time,   *)
(* from a thread of its own: if that meets periodic_main at the list, or    *)
(* another such thread, the outcome is undefined, and "fault" ends the      *)
(* behaviour.  So an operation on the list that is not raced is one step.   *)
(* Each call of a periodic is a thread too; it does not touch the list, and *)
(* only its start is modelled.                                              *)
EXTENDS Naturals, Sequences, SequencesExt

CONSTANTS Periodics,
          Period,     \* Period[p]: the seconds between two calls of p
          Late,       \* those a hook registers, after periodic_main started
          Idle,       \* the seconds an empty list is left alone, 10
          MaxTime,    \* bounds the seconds that pass
          None        \* NULL

ASSUME PeriodicAssumption ==
         /\ Period \in [Periodics -> Nat \ {0}]
         /\ Late \subseteq Periodics
         /\ Idle \in Nat \ {0} /\ MaxTime \in Nat
         /\ None \notin Periodics

VARIABLES
  now,        \* the time
  head,       \* the list of periodics
  deadline,   \* deadline[p]: the second p is due in
  born,       \* born[p]: the second p was registered in
  runs,       \* runs[p]: how often p was called
  entering,   \* the periodics that threads of hooks are putting into the list
  registered, \* those register_periodic was called for
  pc,         \* where periodic_main is, see PC
  tv,         \* the time it read last
  tp,         \* the periodic it looks at, None past the end of the list
  wake,       \* the time its sleep ends
  seen,       \* history: the entries of the list when it looked at its head last
  fault       \* "raced" or "closed" once the program is in undefined territory

pVars == <<head, deadline, born, runs, entering, registered>>
mainVars == <<pc, tv, tp, wake, seen>>
vars == <<now, pVars, mainVars, fault>>

PC == {"unborn", "check", "scan", "settle", "clock", "doze", "sleep"}

Listed == {head[i] : i \in 1 .. Len(head)}

TypeOK ==
  /\ now \in Nat
  /\ head \in Seq(Periodics)
  /\ deadline \in [Periodics -> Nat]
  /\ born \in [Periodics -> Nat]
  /\ runs \in [Periodics -> Nat]
  /\ entering \subseteq Periodics /\ registered \subseteq Periodics
  /\ pc \in PC /\ tv \in Nat /\ tp \in Periodics \cup {None} /\ wake \in Nat
  /\ seen \subseteq Periodics
  /\ fault \in {"none", "raced", "closed"}

Init ==
  /\ now = 0
  /\ head = <<>> /\ entering = {} /\ registered = {}
  /\ deadline = [p \in Periodics |-> 0]
  /\ born = [p \in Periodics |-> 0]
  /\ runs = [p \in Periodics |-> 0]
  /\ pc = "unborn" /\ tv = 0 /\ tp = None /\ wake = 0 /\ seen = {}
  /\ fault = "none"
-----------------------------------------------------------------------------
(* Mutation: every entry is appended.                                       *)
PlaceLast(list, due, p) == Len(list) + 1

(* The place of insert_periodic in a list: before the first entry that is   *)
(* due later than p, the last if there is none.                             *)
Place(list, due, p) ==
  CHOOSE i \in 1 .. Len(list) + 1 :
    /\ \A j \in 1 .. i - 1 : due[list[j]] <= due[p]
    /\ i <= Len(list) => due[p] < due[list[i]]

InsertPeriodic(list, due, p) == InsertAt(list, Place(list, due, p), p)

Index(list, p) == CHOOSE i \in 1 .. Len(list) : list[i] = p

First(list) == IF list = <<>> THEN None ELSE list[1]

(* LIST_NEXT.                                                               *)
NextOf(list, p) == LET i == Index(list, p)
                   IN IF i < Len(list) THEN list[i + 1] ELSE None
-----------------------------------------------------------------------------
(* Mutation: a negative period is not refused.                              *)
RegisterAnyPeriod(p) ==
  /\ pc = "unborn" /\ p \in Periodics \ (Late \cup registered)
  /\ registered' = registered \cup {p}
  /\ born' = [born EXCEPT ![p] = now]
  /\ \E period \in {Period[p], 0 - 1} : deadline' = [deadline EXCEPT ![p] = now + period]
  /\ head' = InsertPeriodic(head, deadline', p)
  /\ UNCHANGED <<now, runs, entering, mainVars, fault>>

(* register_periodic while the extensions are loaded.                       *)
Register(p) ==
  /\ pc = "unborn" /\ p \in Periodics \ (Late \cup registered)
  /\ registered' = registered \cup {p}
  /\ born' = [born EXCEPT ![p] = now]
  /\ deadline' = [deadline EXCEPT ![p] = now + Period[p]]
  /\ head' = InsertPeriodic(head, deadline', p)
  /\ UNCHANGED <<now, runs, entering, mainVars, fault>>

(* init_louis starts periodic_main.                                         *)
Start == /\ pc = "unborn" /\ pc' = "check"
         /\ UNCHANGED <<now, pVars, tv, tp, wake, seen, fault>>

(* register_periodic in a hook, and the insertion it does on the way.       *)
EnterLate(p) ==
  /\ pc # "unborn" /\ p \in Late \ registered
  /\ registered' = registered \cup {p} /\ entering' = entering \cup {p}
  /\ born' = [born EXCEPT ![p] = now]
  /\ deadline' = [deadline EXCEPT ![p] = now + Period[p]]
  /\ fault' = IF entering = {} THEN fault ELSE "raced"
  /\ UNCHANGED <<now, head, runs, mainVars>>

InsertLate(p) ==
  /\ p \in entering /\ entering' = entering \ {p}
  /\ head' = InsertPeriodic(head, deadline, p)
  /\ UNCHANGED <<now, deadline, born, runs, registered, mainVars, fault>>

(* periodic_main meets the insertion of a hook in the list.                 *)
AtList == fault' = IF entering = {} THEN fault ELSE "raced"

Sleep(n) == pc' = "sleep" /\ wake' = now + n

(* periodic_main, 44-50: the head of the loop.                              *)
CheckEmpty == /\ pc = "check" /\ head = <<>> /\ AtList
              /\ Sleep(Idle) /\ seen' = {}
              /\ UNCHANGED <<now, pVars, tv, tp>>

Check == /\ pc = "check" /\ head # <<>> /\ AtList
         /\ tv' = now /\ tp' = First(head)
         /\ pc' = "scan"
         /\ UNCHANGED <<now, pVars, wake, seen>>

(* Mutation: an entry is due in the second before its deadline.             *)
DueEarly == tp # None /\ deadline[tp] <= tv + 1

Due == tp # None /\ deadline[tp] <= tv

(* Mutation: the next deadline is counted from the time of the call.        *)
RunDrifting ==
  /\ pc = "scan" /\ Due /\ AtList
  /\ runs' = [runs EXCEPT ![tp] = @ + 1]
  /\ deadline' = [deadline EXCEPT ![tp] = tv + Period[tp]]
  /\ head' = InsertPeriodic(RemoveAt(head, Index(head, tp)), deadline', tp)
  /\ tp' = NextOf(head', tp)
  /\ UNCHANGED <<now, born, entering, registered, pc, tv, wake, seen>>

(* run_periodic moves the entry at hand, and the loop goes on from the      *)
(* place the entry has then.                                                *)
RunPeriodic ==
  /\ pc = "scan" /\ Due /\ AtList
  /\ runs' = [runs EXCEPT ![tp] = @ + 1]
  /\ deadline' = [deadline EXCEPT ![tp] = @ + Period[tp]]
  /\ head' = InsertPeriodic(RemoveAt(head, Index(head, tp)), deadline', tp)
  /\ tp' = NextOf(head', tp)
  /\ UNCHANGED <<now, born, entering, registered, pc, tv, wake, seen>>

ScanDone ==
  /\ pc = "scan" /\ ~Due
  /\ pc' = "settle"
  /\ UNCHANGED <<now, pVars, tv, tp, wake, seen, fault>>

(* Mutation: the sleep lasts until the deadline the scan stopped at.        *)
SettleStale ==
  /\ pc = "settle" /\ AtList
  /\ IF tp = None \/ head = <<>> THEN pc' = "check" /\ UNCHANGED <<tp, seen>>
                                ELSE pc' = "clock" /\ seen' = Listed /\ UNCHANGED tp
  /\ UNCHANGED <<now, pVars, tv, wake>>

(* periodic_main, 55-58: the entry to sleep for is the first of the list.   *)
Settle ==
  /\ pc = "settle" /\ AtList
  /\ IF head = <<>> THEN pc' = "check" /\ UNCHANGED <<tp, seen>>
                    ELSE pc' = "clock" /\ seen' = Listed /\ tp' = First(head)
  /\ UNCHANGED <<now, pVars, tv, wake>>

(* Mutation: a negative wait is not tested, and sleep takes it unsigned.    *)
ReadClockUnsigned ==
  /\ pc = "clock" /\ tv' = now
  /\ IF deadline[tp] >= now THEN pc' = "doze" /\ UNCHANGED wake
                             ELSE Sleep(MaxTime + 1)
  /\ UNCHANGED <<now, pVars, tp, seen, fault>>

(* 59-62, 64-65: how long to sleep, if at all.                              *)
ReadClock ==
  /\ pc = "clock" /\ tv' = now
  /\ pc' = IF deadline[tp] > now THEN "doze" ELSE "check"
  /\ UNCHANGED <<now, pVars, tp, wake, seen, fault>>

(* 63: the sleep begins later than the clock was read.                      *)
Doze ==
  /\ pc = "doze" /\ Sleep(deadline[tp] - tv)
  /\ UNCHANGED <<now, pVars, tv, tp, seen, fault>>

(* The sleep ends at its time, or before it at a signal.                    *)
Wake == /\ pc = "sleep" /\ now >= wake /\ pc' = "check"
        /\ UNCHANGED <<now, pVars, tv, tp, wake, seen, fault>>

Interrupt == /\ pc = "sleep" /\ now < wake /\ pc' = "check"
             /\ UNCHANGED <<now, pVars, tv, tp, wake, seen, fault>>

(* reload_louis: destroy_periodics closes the Lua state of every entry, and *)
(* free_ext closes the state of every extension: that of an extension with  *)
(* a periodic twice.  pthread_cancel takes effect in the next sleep.        *)
Reload ==
  /\ pc # "unborn" /\ pc' = "unborn"
  /\ fault' = IF head # <<>> THEN "closed"
              ELSE IF entering # {} \/ pc # "sleep" THEN "raced" ELSE fault
  /\ UNCHANGED <<now, pVars, tv, tp, wake, seen>>

Tick == /\ now < MaxTime /\ now' = now + 1
        /\ UNCHANGED <<pVars, mainVars, fault>>

Main == CheckEmpty \/ Check \/ RunPeriodic \/ ScanDone \/ Settle \/ ReadClock \/ Doze \/ Wake

Next ==
  /\ fault = "none"
  /\ \/ Start \/ Main \/ Interrupt \/ Reload \/ Tick
     \/ \E p \in Periodics : Register(p) \/ EnterLate(p) \/ InsertLate(p)

Spec == Init /\ [][Next]_vars
FairSpec == Spec /\ WF_vars(fault = "none" /\ Main) /\ WF_vars(fault = "none" /\ Tick)
                 /\ \A p \in Periodics : WF_vars(fault = "none" /\ InsertLate(p))
-----------------------------------------------------------------------------
InOrder(list, due) ==
  /\ \A i, j \in 1 .. Len(list) : i < j => due[list[i]] <= due[list[j]]
  /\ \A i, j \in 1 .. Len(list) : list[i] = list[j] => i = j

(* periodic.c:96-121: insertions and moves keep the list in the order of    *)
(* the deadlines, with every entry in it once.                              *)
Sorted == InOrder(head, deadline)

(* periodic.c:129, 80: calls do not drift.  A deadline is as many periods   *)
(* after the registration as p had calls, and one more, however late each   *)
(* call was; and an entry is in one place, the scan stands on an entry of   *)
(* the list or past its end, and the time read is not in the future.        *)
Books ==
  /\ entering \subseteq registered
  /\ Listed \subseteq registered \ entering
  /\ pc = "scan" => tp \in Listed \cup {None}
  /\ tv <= now
  /\ \A p \in Periodics \ registered : runs[p] = 0
  /\ \A p \in registered : deadline[p] = born[p] + (runs[p] + 1) * Period[p]

(* README:135-139, "every period seconds": a periodic is never ahead of its *)
(* time, the n-th call comes n periods after the registration or later.     *)
(* (When periodic_main is late it makes up for the calls it owes all at     *)
(* once, several of the same periodic in one second, periodic.c:48-53.)     *)
NeverAhead ==
  \A p \in registered : born[p] + runs[p] * Period[p] <= now

(* periodic.c:55-63: when periodic_main goes to sleep, it sleeps past the   *)
(* deadline of no entry that was in the list when it looked, but for the    *)
(* time that went by between its look at the clock and its sleep.           *)
SleepsInTime ==
  [][pc # "sleep" /\ pc' = "sleep" /\ fault' = "none"
       => \A p \in seen' : wake' <= deadline[p] + (now - tv)]_vars

(* periodic.c:47-65: while periodic_main is at its list it gets round to    *)
(* every entry that is due, whichever entries it moves and skips.           *)
CatchesUp ==
  \A p \in Periodics :
    (pc \in {"check", "scan", "settle"} /\ p \in Listed /\ deadline[p] <= now)
      ~> (deadline[p] > now \/ pc = "unborn" \/ fault # "none")
=============================================================================
