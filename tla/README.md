# A verification development for vini

vini is an IRC bot written in C. Its core keeps one or more sockets open to each
network, reads lines from them and runs the functions that other parts have hooked
to each IRC command. Two loadable modules make it scriptable: *vinny* starts a program
for a message that matches a command, a regex or a hook, and *louis* calls functions of
Lua extensions. This directory models that core in TLA+, model-checks it with TLC and
proves some of it with TLAPS. Paths below are relative to the repository.

## The system

| part | source | state it keeps | operations | works with |
|---|---|---|---|---|
| IRC connection | `src/irc/irc.c`, `core.c`, `utils.c` | sockets per network, SSL handles, `wsocket`, `conmtx`, bot and network names | connect, register, read lines, send | the server; runs hooks |
| hooks | `src/irc/hooks.c` | a global hash table: IRC command -> list of (function, fid) | add, remove, run | every other part |
| parser | `src/irc/ircparser.c` | none | sender, command, n-th parameter, tail of a line | every other part |
| info | `src/info/info.c`, `structs.c` | nick table (same global hash table), channels with user lists, topics | JOIN, PART, QUIT, NICK, MODE, 352, 353, TOPIC, 332 | hooks; read by louis |
| vinny messages | `src/modules/vinny/vinny.c`, `mods.c`, `watcher.c` | `struct ircmsg` with holders, list of running modules, `mod_mtx` | `to_vinny`, `spawn_mod`, the watcher thread, clean up at SIGCHLD | hooks, programs in `bin/`, `vini.c` |
| vinny registries | `cmds.c`, `hooks.c`, `regex.c` | command table and list, `hooks[8192]`, regex list | make, find, destroy | the configuration, `to_vinny` |
| vinny configuration | `loader.c`, `handlers.c`, `parser.c`, `ops.c` | `struct mod_op` | scan `bin/` and `etc/`, parse DEF, MATCH, HOOK and the answers of programs | registries, watcher |
| louis | `src/modules/louis/louis.c`, `lualib.c` | an array of extensions, each with a mutex, a Lua state, a current message, hooks | load, run a hook, reload | hooks, info, periodics |
| periodics | `src/modules/louis/periodic.c` | a list of functions sorted by deadline | register, run, destroy | louis |
| main | `src/vini/vini.c` | list of loaded shared objects | `load`, `unload`, `reload`, `reloadlib` on the command line; the SIGCHLD handler | every module |
| games | `ext/uno.lua`, `ext/dickhunt.lua` | hands, deck and players of an Uno game; a database | commands from channels | louis |
| programs | `bin/`, `lib/` | none | read argv, write actions to stdout | vinny |

The threads are: the main thread, which reads the command line and in practice takes the
SIGCHLDs; one IRC thread per socket of each network; in vinny one watcher thread per running
program; in louis the periodic thread and one thread per periodic run.
What is hard about the code is how these share memory: a message that several threads
use and the last one frees, a list that a signal handler edits, tables that a reload
empties under running threads, and a picture of the channels that is only as good as
the server events that are hooked.

### What is hard, and what makes each part correct

* **vinny messages.** One `struct ircmsg` is read by the IRC thread that spawns programs
  for it and by every watcher; the last user frees it, on the word of a flag read without
  a lock and a list read under one. Watchers run before they are registered. SIGCHLD may
  interrupt the owner of `mod_mtx`, whose lock the handler takes too; one signal may
  stand for several dead children. Correct means: no user of a message ever sees it freed, the last
  one frees it, `to_vinny` always returns, and no entry of the list outlives its process.
* **info.** The tables are a picture of the server's channels, kept by a sequence of
  handlers over a hash table that cannot delete or replace an entry, with lookups that trust `errno`. Correct
  means: nobody is shown modes he does not have, a key leads to a block of its own, no
  list holds freed memory, a user who left is not found, operators are known as such.
* **periodics.** A list sorted by deadline, changed while it is scanned, by a thread that
  may be late by any number of periods. Correct means: the order survives, calls do not drift,
  none comes too early, no due entry is left behind, and no sleep lasts past a deadline.
* **IRC connection.** Several sockets act as one: they register in any order, take turns
  for what the bot says, and all get every message of a channel, of which one may count.
  Connections are lost and opened again, nicks are taken or changed from outside.
* **hooks and registries.** A reload empties lists that IRC threads are walking and frees the
  rules they are about to run, without a lock; tables of three kinds are undone and made
  again, each in its own way. Correct means: what runs for a message is what is configured
  for it, other modules lose nothing, and freed memory is met only by a message that a
  reload overlaps.
* **louis.** Each message starts threads that meet at the mutex of an extension, share one
  struct for the message, and find their hook by a number that a reload gives to another.
  Correct means: an extension's functions run one at a time, each sees the message it was
  started for, and each one that is due does run.
* **parser, watcher lines, configuration.** Functions on text in several passes that have to
  agree on quotes, escapes and separators. Correct means: what was written down part by part is
  read back as these parts.

`PROJECT.json` lists each hazard at its line with the properties that cover it.

## Plan

Modules are written in this order, the core first. Parameters are CONSTANTS with named
assumptions, and only modules nobody proves anything about would use RECURSIVE.

| step | modules | status |
|---|---|---|
| 1 | `MsgLife` (abstract), `VinnySpawn` (implements it), `VinnySpawn_proofs` | done |
| 2 | `IrcInfo`: the tables compared with the server's channels | done |
| 3 | `Periodic`, `Periodic_proofs` | done |
| 4 | `IrcConn`, `IrcConn_proofs` | done |
| 5 | `Registry`: the lists of hooks, vinny's commands, hooks and regexes on top of them, and the command line | done |
| 6 | `Louis`: extensions, the threads of hooks and of periodics, the mutex, load, reload and unload | done |
| 7 | `IrcParser`, `VinnyText`: parts of a line, configurations, the lines programs write and their arguments | done |
| 8 | `Louis_proofs`, `InductionLemmas`, the rest of `IrcConn_proofs` and of `VinnySpawn_proofs` | done |
| 9 | `Registry_proofs` | done |
| 10 | `IrcInfo_proofs` | done |
| 11 | `RunsAsConfigured` in `Registry_proofs`, `Text_proofs` | done |

Abstract specifications worth having: `MsgLife` (done); a queue of pending messages per
extension, for `Louis`.

## How the modules are written

A step of a module is what the code does between two points where another thread, a
signal or the server can interfere with effect: a whole handler where nothing can, each lock, unlock,
unlocked read and write where something can. Each definition that stands for code is
listed in `PROJECT.json` under "map" with its lines. Reading or freeing freed
memory, and data races, are undefined behaviour: the step then has the outcome that
the program stops (`crashed`, `fault`), and where reading the stale bytes is
likely, also that it goes on. After it nothing is promised. Properties that would be
violated only by such an end of the program have `fault` or `crashed` in them.

Definitions whose comment begins with *Mutation* are no part of a specification. Each is
a plausible mistake in the code, kept beside the definition it would replace, and
`PROJECT.json` says which property that mistake violates in which run.

## VinnySpawn and MsgLife: one message, its programs and SIGCHLD

Threads are the IRC threads (`Handlers`), the watchers and the main thread (`Cli`). A
member of `Procs` is one call of `spawn_mod`: the child, its watcher, its
`struct vinny_module` and its entry in the list of modules. `pc` gives the place in the
code, `spc` the place in `sigchld_handler`, which may be entered from any place.

| state | code |
|---|---|
| `mem`, `done`, `holders` | the `struct ircmsg`, its `spawning_done`, its list of holders |
| `child`, `pending`, `spid` | the process, a pending SIGCHLD, what `wait()` returned |
| `vmod`, `mhead`, `owner` | the `struct vinny_module`, the list in `mods.c`, the owner of `mod_mtx` |
| `robbed` | no code: history, the calls of `spawn_mod` whose lock the handler gave away |

| actions | code |
|---|---|
| `ToVinny`, `SpawningDone` | `to_vinny` before and after its spawns |
| `SpawnMod` ... `InsertMod`, `SpawnModFail` | `spawn_mod`, its lock, `access`, `fork`, `pthread_create`, `register_msg_holder`, `insert_mod`, and its failure path |
| `FreeCheck`, `TestHolders`, `FreeMsg` | `free_msg_if_not_used`: unlocked flag, list under `holder_mtx`, free after the unlock |
| `WatcherStart`, `WatcherEof`, `WatcherTakesByteForEof`, `UnregisterMsgHolder`, `WatcherExit` | `mod_watcher` |
| `SigChld`, `SigWait`, `CleanupMod`, `RelockForever` | delivery, `sigchld_handler`, `cleanup_mod` |

`MsgLife` says what users of a message may rely on: it is live while anybody uses it, users
are let in only by users, and it is freed when the last has left. It has no holders, flag or
mutex. A user is the IRC thread up to `spawning_done`, and a watcher up to the end of its
`process_op` loop; the tests in `free_msg_if_not_used` are not uses.

* `spawn_safety`: two IRC threads, two programs, two messages, SIGCHLD to any thread. A
  second message is there so that a program of one message runs into the life of another.
  Messages, IRC threads and programs are interchangeable (symmetry). It checks the types,
  `UsersHoldLiveMessage`, `WaitNeverBlocks` and the refinement `LifeSpec`.
  `SpawnerOwnsLock` and `ReapedIsUnlisted` are about `mod_mtx`. No thread masks SIGCHLD, so the
  handler may run on the owner of `mod_mtx` itself; `cleanup_mod` then either gives the
  thread's lock away (an error-checking mutex) or never returns (a plain one), and both
  outcomes are in the model. The two properties say that the damage stays in that one call
  of `spawn_mod`: a history variable, `robbed`, keeps the calls whose lock the handler gave
  away, and no other call loses its lock or leaves an entry behind.
* `spawn_main`: one IRC thread, two programs, one message, SIGCHLD to any thread, because the
  graph of two messages is beyond a liveness check. `ToVinnyReturns` and `NoLostFree` name the ends
  that the code really has besides the good one: a handler that waits for the mutex of
  its own thread (`Deadlocked`), a watcher registered as a holder after it unregistered
  (`Leaked`), undefined behaviour (`crashed`).
* `spawn_sigchld_lost` (finding): `mods.c:186` says `cleanup_mod` is called on SIGCHLD, but
  two children that exit before the handler runs leave one signal, and the handler reaps one.

Two programs are enough for every race between a spawner, a watcher that ends early and one
that ends late; a third adds watchers that behave as these two. *Fairness*: the
scheduler runs every thread that can run (WF of the steps of each thread) and the kernel
delivers a pending signal. Nothing obliges the network to send or a child to exit, and a
mutex is not handed over fairly: a thread that waits for `mod_mtx` only gets it if it is
free when the thread runs.

*What the model shows besides.* `struct vinny_module` is freed by the handler
(`mods.c:160`) and by the watcher (`watcher.c`), so that a watcher of a child that died
early reads a freed block and frees it again (`Touch`). Two last holders may both
find the list of holders empty and both free the message. A watcher that unregisters before
its spawner has registered it (`mods.c:109`) leaves its holder behind, and that message is never
freed; `NoLostFree` names this leak. `mod_watcher` keeps what `getc` returns in a `char`, so the byte 0xFF ends a
watcher whose program runs on (`WatcherTakesByteForEof`). When `pthread_create` fails, the child is left to itself.

*Proved* (`VinnySpawn_proofs`, for any finite sets): `TypeCorrect`; `MessageOutlivesUsers`;
`ImplementsMsgLife`, by a step simulation under the invariant of the second.
`UsersHoldLiveMessage` is not inductive. The invariant adds that a thread that spawns
for a message has `spawning_done` off and works on a message that is live (`SpawnerInv`),
that a call of `spawn_mod` belongs to one IRC thread (`SlotInv`), that a watcher at work is
registered as a holder or its spawner still is at the line before the registration
(`HolderInv`), and that a thread about to free has seen the flag on and no holder
(`FreeInv`). So a free cannot coincide with a spawner, because of the flag, nor
with a watcher, because of the list, although the two are read at different times.
These theorems hold for SIGCHLD on any threads, and so does `WaitFindsAChild`: `wait()`
never blocks, because a signal is pending only while some child has exited and is not reaped (`ChildInv`).
`SpawnerKeepsLock` and `NoEntryOutlivesCleanup` make no assumption about where the signal goes
either. `LockInv` says that the owner of `mod_mtx` is inside `spawn_mod`, and that a call inside
`spawn_mod` is the owner or robbed; `ReapInv` that a reaped process which is still listed, or
is about to be by a call that is not robbed, is the one some thread is cleaning up.

*Only checked*: the liveness properties. *Left out*: reuse of blocks, process and thread identifiers; children that close
the socket before they exit, or are stopped by job control; what the watcher does with a
line, which is in `VinnyText`; the setup and destruction of vinny, which are in `Registry`.

## IrcInfo: the channels, as the bot sees them

An event of the server and the handler it leads to are one step: the connection is
ordered and one thread reads it, as in `config.h`, which has one socket and one network.
`members` and `modes` are the server's; `clist` is the list of `struct channel_info` with
their lists of `struct user_info`, `tab` the keys `network.channel.nick` of the hash table, `heap` the blocks
of `struct user_info`, which `malloc` takes again after `free`, and `err` says that `errno` is not zero. `tab` tells a key that was never entered ("absent")
from one whose data is NULL ("null"), because `hsearch` cannot remove a key, and ENTER does
not replace the data of one it finds. `strays` is history: `strays[c]` are those who are no members of c,
but whose leaving was kept from the module (a kick, a departure while the bot was not there, a rename), or whose nick it
read in the middle of another one.

The helpers of `structs.c` (`AddUser`, `RmUser`, `GetUser`, `MakeUser`, `FreeUser`, `ListOf`) are
operators from one record of tables to the next, and the handlers of `info.c` (`OnJoin`, `OnPart`, `OnBotPart`, `OnQuit`,
`OnNick`, `OnMode`, `OnWho`, `OnNames`) call them in the order of the code. `UpdateUser` is what
three handlers have in common: look up, make if that fails, change the modes. `Other` is a
message nobody hooked, `Kick` is one of them: `run_hooks` looks for its hooks, and the
failed `hsearch` leaves `errno` set.

A *setting* is a world to look at: which channels and users there are, which events happen, and how
many blocks. The run `info` takes three of them as initial states, so that each property is checked
where something can go wrong with it, in one state space:

* two channels, the bot and one user, joins, parts, quits and modes: two channels show what a
  QUIT, or a part in one of them, does to the other. `ModesAreReal` and `ListsMatchKeys` are about this
  setting (`Orderly`).
* two channels, the bot and one user, parts, kicks of either, modes, and modes of both in one line: `KeysFindOwner` in several
  channels, where the bot comes back to a channel that is in the list already.
* one channel, two users, every event but modes, renames and kicks and the bot's own among them:
  `KeysFindOwner`, which holds there in spite of all that goes wrong otherwise.
* `GoneAreNotFound` is checked in all three: whoever is found in a channel the bot is in is there, or is one of the strays.
* `info_errno` (finding): README:233-235 says the module keeps the modes of users; a stale
  `errno` makes `get_user_info` (`structs.c:177`) miss a user that is there, and the handler
  replaces him by one without his other modes.

`Blocks` bounds the users that are kept at a time and `Entries` the entries of the
list of channels; an event that would need another block does not happen. Two entries are
enough for a channel to be in the list twice. Modes are `op` and, in `info_errno`, `voice`. `info` has about a million states.

*What the model shows besides*, with other sets of `Events`: KICK is not hooked, though README:233-235 lists it, so a user who was
kicked stays found until he joins again and leaves as the module expects (a stray); all letters of `MODE +vo a b` go to the first nick (`info.c:205`); a user who
comes back has a key with NULL data and is not found again (`structs.c:112`), nor is
one who takes the nick of a user who left; the bot's own PART of a channel with users
dereferences NULL (`structs.c:258`, `free_user_list`); `on_names` (`info.c:340`) skips as
many characters as the name it read had, and may take the rest of a nick for a user: the rest of "xbob" is "bob",
who may be a user of the server, in the channel or not, so `BotJoin` reads any nicks without a prefix.
A NICK that comes while `errno` is set is missed, and the old nick stays in the tables.
A NICK that is not missed clears 256 bytes and copies the new nick where `strdup` put the old one (`info.c:169-170`), which overruns
the block at every rename. `Rename` has both outcomes, that the bytes behind do not matter and that they do ("undefined", where the behaviour ends).
The first setting leaves out the events under which `ModesAreReal` and `ListsMatchKeys` are false for these reasons:
renames break both, a kick of the bot `ListsMatchKeys` (its next JOIN makes a second entry of the channel, and the keys
lead into the first), and two modes at once `ModesAreReal`.

`KeysFindOwner` needs `ListsApart`. A rename to a nick whose key has data frees the old block and puts
the renamed one in its place in the list, where it may be already (`structs.c:88-108`); when that user
leaves, the list keeps his freed block once. In one channel that block is given to another user of the
channel, and all is well; with two channels it may be given to a user of the other, whose block is freed by an event of the first,
while his key still leads to it. The same may come of the bot leaving a channel it was kicked from before,
as its old entry becomes the first again. TLC finds such behaviours, of thirteen steps, with two channels,
three users and renames.
*Not modelled*: user, host, away and topic, a second network, and the Lua threads that read the tables.

*Proved* (`IrcInfo_proofs`, for any settings, that is any sets of channels, users and events, and any
heap and number of entries): `TypeCorrect`, `KeysLeadToOwners` (`KeysFindOwner`), `ModesShownAreHeld`
(`ModesAreReal`), `ListsAndKeysAgree` (`ListsMatchKeys`) and `GoneAreForgotten` (`GoneAreNotFound`).
The handlers are operators on records, so the proof first says of each what it does to keys, lists, blocks and
faults (`Added`, `Removed`, `Got`, `Joined`, `Updated`), and then reasons about these. The loops over channels and names,
recursive functions, keep any set of tables that each of their rounds keeps (`QuitStays`, `NickStays`, `NamesStay`,
from `StagedIn` of `InductionLemmas`).

`TypeCorrect` is inductive with nothing else, but needs that a handler never asks for a block that is
not there: a list of names takes at most one free block for each name (`RoomLeft`, `BurstIs`).
`KeysFindOwner` is not inductive: a user who parts takes the first block with his nick off the list of the
channel, and frees it. So the invariant (`Sound`) adds to it (`Owned`) that no block in the list of a channel
has a key of another (`Apart`), and, where there is more than one channel, that every block is
in one list, once, and live (`Tidy`): a block that is in a list twice would be freed and stay there. A rename
breaks `Tidy`, which is why there `ListsApart` asks for one channel. For `ModesAreReal` and `ListsMatchKeys` the invariant (`Faithful`) further says that
there is one list for each channel the bot is in and for no other (`Lists`), that the block of a key is in
the list of its channel (`Covered`), and that the user of a key has the modes of its block
(`Real`); a WHO that is not answered yet is one of a channel the bot is in. `GoneAreNotFound` is inductive once it is said of every
channel, the bot in it or not, and once every channel the bot is in has a list (`FoundInv`): else a quit would not look there. Each handler
is shown to give data to no key but of the users it names (`Grown`), a rename to the new nick only where the old one had data (`Moved`).

## Periodic: louis's periodics

`head` is the list, `deadline`, `runs` and `born` its entries' times and the calls so far;
`pc`, `tv`, `tp` and `wake` are `periodic_main`'s, and `seen` is history: the entries of the list
when it looked at its head last. Time is whole seconds and passes between
any two steps (`Tick`). `Register` is `register_periodic` while extensions are loaded;
`EnterLate` and `InsertLate` are the same in a hook, from its own thread, with a point
between: as nothing locks the list, any other access to the list at that point ends
in "raced". `Check`, `RunPeriodic`, `ScanDone`, `Settle`, `ReadClock`, `Doze` and `Wake` are `periodic_main`,
where the look at the list (58), at the clock (59) and the sleep (63) are steps of their own;
`RunPeriodic` moves the entry and goes on from the entry's new place, as the code does.
`Reload` is `reload_louis`: with a periodic in the list it closes a Lua state twice, "closed".

The run `periodic` has three periodics with periods 1, 2 and 3, the second of them
registered by a hook, an idle sleep of 3 seconds instead of 10, and six seconds of time: enough
to be late by several periods of each and to catch up. `Books` ties deadlines to the
number of calls, `NeverAhead` to the time: the n-th call comes n periods after the registration
or later. It does not say that calls are a period apart: when `periodic_main` is late it makes up for
every call it owes at once, several of one periodic in the same second (`periodic.c:48-53`).
`SleepsInTime` is a property of the step into
a sleep: past the deadline of an entry it saw it sleeps by no more than the time between
`gettimeofday` and `sleep`. `CatchesUp` says that no due entry is left behind although the scan skips
entries when it moves one. *Fairness*: `periodic_main` and the thread of the hook run when they
can, and time passes up to the bound. The end of time does not help a property: an entry due at
the last second has to be called too.

*Proved* (`Periodic_proofs`, for any periodics and any positive periods, and any length of
time): `TypeCorrect`, `ListStaysSorted`, `DeadlinesCountRuns`, `NoCallBeforeItsTime`,
`NeverSleepsPastADeadline`. The
inductive invariant is the conjunction of the four state properties: sortedness alone needs
that an entry to be inserted is not in the list yet, that is from `Books`; the bound of `NeverAhead`
follows from `Books` when an entry is due. `WaitInv` adds, for the steps between the look at the list
and the sleep, that the entry to sleep for is the first due of those seen and is not due yet. The library has no facts on `InsertAt` and `RemoveAt`, so the
lemmas at the start of the module say what they do to length, range and order.
*Only checked*: `CatchesUp`, as it is liveness.
*Shown besides*: a periodic registered by a hook during a sleep is first called when that sleep ends,
up to ten seconds or one longest period late (README:135-139 says every period seconds).
The threads that call the functions are in `Louis`.

## IrcConn: several sockets, one bot

`Socks` are the sockets of a network, each with a thread that reads it; `Senders` are threads of
modules, watchers and Lua, that speak. `link[f]` is a descriptor with the server's side of it: registered,
nick, joined, lines on their way in (`inn`) and out (`out`). `socket[s]` is the
descriptor socket `s` believes it has, which is stale between `close` and the end of a
reconnection, when another socket may have got the same number. A nick is the index of its suffix in
`irc_suffixlist`; one nick more is outside the list.

`Send` and `Lock`, `Choose`, `Write` are `send_irc_message`: the lock of `conmtx`, the choice
of `wsocket`, a write for each target and the next choice. `Speak` is `irc_msg` and its like.
`Read` and the `On...` actions are one line of one socket and the core hook it leads to. `OnNickInUse`,
`TryNick`, the send and `CountAttempt` are one handler, which reads `nick_attempts`, sends and counts only
when the send has returned, all without a lock; a second thread that enters the handler in that time
(`InNickInUse`) ends the run as "raced". `Close`, `Reconnect`, `ConnectFails`, `AddressesRunOut` and
`HandshakeFails` are what `irc_handler` does at the end of file: `setup_irc_connection` goes to the next
address before it connects (irc.c:164-166), so a host with one address, or with none that accepts,
ends the program in a null pointer. `Serve`, `Ping`,
`Rename`, `Drop` and `Say` are the server, modelled from what the handlers expect of it. `fault`
says how the program ended: "exit" (`err()`, no nick left, or a failed handshake), "killed" by SIGPIPE, which nothing
ignores, or by that null pointer, or "raced".

* `conn`: two sockets, two senders, three nicks of which one or all are taken, NickServ or not:
  `HandledOnce`, `TakeTurns`, `KnowsItsName`, `GivesUpLast`. `MaxEvents` bounds
  sends, pings and renames to two, `MaxDrops` lost connections to one; two
  sends are needed for a turn, one drop with two sockets lets a descriptor be reused.
* `conn_live`: the same with one sender, one event: `JoinsChannels` and `PingsAnswered`.
* `conn_reconnect` (finding): `irc.c:2-3` promises to maintain the connection; a connection that was
  lost is opened again, but `register_irc_client` is called from `irc_main` only.

*Fairness*: threads that can run do (WF of sending and of the handlers), the server answers
(WF of `Serve`), and a connection that is tried again and again is at some time accepted (SF
of `Reconnect`): `StaysOnNetwork` is false even so. Nothing obliges the server to send a PING or to
drop a connection, or a module to speak.

*Proved* (`IrcConn_proofs`, any number of sockets, threads and events): all state properties, by three
inductive invariants. For `SocketsTakeTurns` the invariant says that only the owner of `conmtx` writes (`OwnerWrites`), that what a module's thread is
about to write goes to `wsocket` (`ChosenIsNext`), and that sockets before `wsocket` are exactly one
message ahead of the others, which is the case that makes the count wrap around (`Ahead`); `Types` has the types of
just the variables these need.

`LinkInv` is about the connections, and gives `TypeCorrect`, `MessagesHandledOnce` and most of
`NameIsTheNick` and `AllNicksAsked`. `TypeInv` has the types, with the lines of each direction
apart; `SendInv` says what a thread may be sending; `OwnerInv` that a connection belongs to the socket
that has its descriptor, unless that socket is between `close` and a new connection. The other parts
look into the lines under way: a PONG to come has a PING that was counted (`PingInv`), no two connections have one
nick (`NickInv`), the name a socket has, changed by each of the lines it has still to read, ends as the
nick the server has for it (`NameInv`, which is where renames, the 042 after registration and the order of
lines meet), a message of the channel is in the lines of the counting socket or was handled there, and
only once (`OnceInv`), and the nicks before `attempts` were asked for or are on their way
(`AskedInv`). The last needs `WindowInv`, which is carried along: unless "raced", one thread at a time is in
the handler that counts, and it asks for the very nick that it counts. Names after a line are given by a function from the lines rather than by recursion, so
that adding a line at the end or reading the first keeps the function.

`UserInv` is needed for `NameIsTheNick`: a socket whose connection was closed keeps the number of its
descriptor, another socket may get it, and `KnowsItsName` speaks of the first one too. It is true because only
the connections the program starts with are ever registered (`conn_reconnect`), and those have
the socket they started with. (So a write through a stale descriptor, irc.c:114, cannot make it false.) TLC found it to hold on `conn`, and with two lost connections, before it was proved.

*Only checked*: the liveness properties.
*Not modelled*: the names of networks (005), INVITE, the text of lines, the SSL object that two
threads share, connections the server gives up because they never register.

## Registry: what runs for a message, and reloads

Two threads: the main thread at the command line (`cli`) and an IRC thread (`reader`) that is in
`run_hooks` for one message after the other. `table` has the lists of hooks of the core, by IRC
command, with those of other modules (`Others`) in them; `hooks` and `ccount` are vinny's slots, `rxhead`
its regexes, `cmdl` its commands, and `tab` the words in the hash table. A rule is a `struct mod_op`, known
by the setup that made it and the place it has among what that setup found (`at`: a configuration may say the same
twice), and `freed` has those that were freed. `tree` is what lies in the
directories; `Edit` changes it between commands.

| actions | code |
|---|---|
| `Command`, `Close` | `cli_load`, `cli_unload`, `cli_reload`, `cli_reloadlib` |
| `DestroyHook`, `DestroyedHooks`, `DestroyRgx`, `DestroyCmds`, `RmPrivmsg` | `destroy_vinny`, one slot, regex or list at a time |
| `setup_vinny`, `Make`, `SetUp` | `setup_vinny`, the rules of all configurations in their order, one at a time |
| `Receive`, `Call`, `spawn_hook`, `spawn_cmd`, `spawn_rgx` | `run_hooks` at each entry of its list, `to_vinny` and what it looks at |

An IRC thread that reads an entry, a rule, a slot or code that is gone ends in a `fault`; so does,
perhaps, `free_mop`, which frees the name of a program twice, once as `argv[0]` ("double free"): each reload or
unload of a vinny with a hook or regex does that. `overlap` says whether the command line
was in use at any time since the message came.

The run `registry` has two networks and two states of the directories: one with a program of all networks that has a rule
of each kind and a program of one network, the other with one hook more than there are slots, not in the order of the
first, and a program that cannot be executed. It has up to three setups by any of
the commands, and four messages. Three setups are needed for what a reload keeps from the
setup before the last. `SlotsMatchTable` ties the slots to the lists between two
commands, `OthersKept` speaks of the hooks of other modules, in the lists and of
what `run_hooks` called, `RunsAsConfigured` of which programs ran for a message that no command
overlapped, and `FaultsNeedRace` says that no other message meets anything freed.

*Proved* (`Registry_proofs`, for any programs, messages, prefixes, hooks of other modules, any number of slots,
networks and setups): `TypeCorrect`, `OthersStay`, `SlotsAgree`, `RacesOnly`, `RunsWhatIsConfigured`. The assumptions say
that the hooks of other modules are not vinny's and stand once in their lists (`OthersAssumption`), that programs have rules of three kinds and hooks
name IRC commands there are and a program is found once in the directory of all networks or of one of the networks (`TreesAssumption`; a HOOK of a command nobody sends is a hook nobody calls, and two files of one directory have two names),
that prefixes are not empty, as in `config.h:7` (`PrefixAssumption`; with an empty one `free_cmd` would find commands, and free them), and that rules
and hooks are different structs (`MessagesAssumption`).

The inductive invariant is `RInv`. `TableInv` says what is in each list at any point of a
reload: the hooks of others in their order, and one entry of vinny for each slot that is in use there (`Fids`).
`SlotInv` says which slots these are, between `cli.i` and `ccount`; `RuleInv` that a slot, a regex and what is still to be made are
of the last setup, while what was freed is of an earlier one, or of the last while vinny is taken
down. `ReadInv` is about the IRC thread: if the entry it stands on is still in the list, then what it called and what is
left of the list behind the entry make up the hooks of others (`Left`), and an entry of vinny that was removed never comes back, as its
setup or its slot is behind it. That is why a thread that walks a list somebody changes calls each hook of others once.
`CalmInv` is what holds while no command is in use: the entry is in its list, and the rule
it is at was not freed. The lists are sequences, so the
proof rests on what `Keep`, `\o` and `FlattenSeq` do to the members, the order and the hooks of others of a sequence, proved by
induction over sequences (`InductionLemmas`). `Keep` is `SelectSeq` for a set: the prover cannot
reason about an operator that is given as a parameter.

`RunsAsConfigured` compares two things that happen at different times: what the setup read, and what a message starts much
later, slot by slot. `RegInv` and `WalkInv` tie them. `TodoInv` is about a setup that is under way: what was
made and what is to be made are, put together, what it found, in its order. `CmdInv` says that a
command has the rule that made it first, which by then may be of a setup long ago, and that a rule of the last setup
is the first of its word unless a former setup has one. `OnceInv` says that a rule stands in one slot and no other, and
once among the regexes, so that nothing is started twice. `ConfInv` says that what was made is in a slot and in its list, or among
the regexes, unless there were no slots left. That needs a count: the slots in use are as many as
the hooks made so far (`SlotsFill`, by the pigeonhole principle). `WalkInv` says what the thread started: of the
entries it is past, the hooks that are for the message, and at vinny's own entry for PRIVMSG the regexes and
the command; as the entries do not change while no command is in use, at the end this is all of them
(`RunsRight`). TLC found `RInv`, `RegInv` and `WalkInv` to hold on the run's instance before they were proved.

*What the model shows besides.* `free_cmd` (`cmds.c:111`) looks a command up without a prefix and never
finds it, so that commands are not freed and a word keeps the rule it had first, whatever a
reload finds: what one would expect of README:35-48 after an edit holds for hooks and regexes only,
and `RunsAsConfigured` says so (`FirstDef`). A hook for a channel also runs for private messages
(`hooks.c:36`). A regex with a group never runs anything, as `pcre_exec` returns more than 1
(`regex.c:37`): the model has in `rx` the regexes it returns 1 for.
*Left out*: failing allocations, keys of IRC commands that are also words or users in the one hash table of
the process, loading a module twice.

## Louis: extensions and their threads

A message starts a thread for each hook that is for it (`Receive`, `to_louis`, `match_cmds`), and that
thread waits for the mutex of the extension, puts the message down in the struct of the
extension, and calls the function (`Start`, `Lock`, `Enter`, `Ask`, `Unlock` are `exec_hook`; `Ask` is
any of the functions of the `irc` table, which find their extension with `get_ext`).
`call_periodic` is the thread of a periodic. The main thread loads, reloads or unloads (`Command`):
`DestroyPeriodics`, `TakeExt`, `LockExt`, `FreeHooks`, `UnlockExt`, `FreeExt` are `free_louis`, and
`init_louis`, `load_ext`, `l_register_hook`, `SetHook` the way back, one step for each point where
a thread of a message sees a difference.

An extension is known by its place in the directory and the load that made it, so `owner[x]` and
`S[x]` are the memory of that load, and `dead` says that it was freed. `hooks[fid]` is the array
that gives a number another meaning after each load. `calm` are the messages that came
since louis was last loaded, which no command overlaps.

The run `louis` has two messages, of which one names a command and the other a word that only begins like
one, two directories (two extensions with three hooks; one with two hooks and a
periodic), one call of a periodic, two loads, and unload and reload at any point. Two messages
with up to three hooks, of which two are in one extension, are enough to wait for one
another; two loads let a thread of the first meet what the second made. `OneAtATime` is mutual
exclusion of the threads of messages, periodics and the main thread that closes the state; `SeesItsMessage` relates
the function that runs, the hook that was registered and the message the extension has; `FaultsNeedReload`
says that what a reload frees is met only by a message it overlapped; `EveryMessageRuns`
is liveness. *Fairness*: every thread that can run does, functions of extensions return, and
a free mutex is taken by some thread that waits for it. As there are finitely many threads that each take it once, weak
fairness is enough. Nothing obliges anybody to send a message, to start a periodic or to enter a command.

*Proved* (`Louis_proofs`, for any scripts, messages and calls, any number of loads and threads):
`TypeCorrect`, `AloneInExtension`, `FunctionSeesItsMessage`, `LaterMessagesAreSafe`. The
assumptions say what the parameters are: scripts have hooks, `Fids` has a number for each hook of a
directory (`DirsAssumption`), the prefixes are a sequence (`PrefixAssumption`), and the names of threads differ
(`ThreadsAssumption`). The array of hooks has room for 1024 and grows behind that (`lualib.c:24-26`), so that there is a number for each hook.
The invariant `Inv` places the main thread in the directory (`MainInv`), and from that place says which entries of
`exts` are there (`ExtsInv`), which extensions are freed (`DeadInv`), which hook of which
script has which number (`ArrayInv`, `CountInv`: the number of a hook is how many hooks come before it in the directory), and that the
core's lists lead to hooks that are there (`TableInv`). `OwnInv` is the mutex. `ThreadInv` says that a thread that
has found its extension has one that is freed or still holds its hook, and `CalmInv` what is
true of a message no command overlapped: its hooks are where `run_hooks` found them, and a thread that is
past the lock has the message in the extension. Threads and arrays change in different
steps, so the proof has one lemma for each group of conjuncts and kind of step.
`InductionLemmas` says that a set of numbers has a least one, and states induction over numbers and sequences for
sets rather than predicates, which the library does; `StagedRec` and `StagedIn` say of a function that is defined by
rounds that it is what its rounds make of it, and stays in sets its rounds lead through.

*Only checked*: `EveryMessageRuns`, as it is liveness.

*What the model shows besides.* With a periodic, each reload and unload ends in "closed": the Lua state is
closed by `free_periodic` while its mutex is held, which is destroyed, and then locked and closed once more
by `free_ext`. A message that is under way during a reload may find its hook NULL, its mutex freed or
another function under its number; a script that is still being loaded may be entered by a
message for the hook it has just registered, as `load_ext` does not take the mutex.
*Left out*: more than 1024 hooks (`lualib.c:26` makes the array `hksize` bytes long where `louis.c:75` makes
it as many pointers); hooks and periodics that functions register themselves, errors in scripts, what functions
send, and what functions of periodics may ask for: they run on a Lua thread that `get_ext` does not know, so that
`irc.getraw` dereferences NULL and an error ends the program.

## IrcParser, VinnyText: text

Texts are sequences of characters; the operators have the names of the functions. NULL and
`Overrun` are the results "not found" and "reads or writes outside of its memory". A scan that jumps
ahead in the code is a fold over the positions with a mode that says what the jump was about
(`SplitStep`, `ScanStep`, `ItemStep`). Where the code copies without a bound the operator says so:
`Held` is `Overrun` for a sender, command or tail that does not fit into the local array of 512, 32 or 513 characters it is
copied to before it is cut to the size asked for. `mkargv` stops at the first NULL, so that a `$host$` or `$text$` that is not there
keeps the names behind it. `get_next_word` is a set: the word and any number of unwritten bytes (`"?"`) up to
the null byte it writes, and `Overrun` besides where that byte is behind the eight that are allocated.
`process_module_conf` maps as many pages of a configuration as the program has (`loader.c:184`), so that its second parameter
says how many lines those hold. `mod_watcher` reads up to the byte 255 (`ReadBytes`).

| operators | code |
|---|---|
| `get_sender`, `get_command`, `get_param`, `get_tail` | `ircparser.c` |
| `get_nick` ... `mkargv` | `ops.c`: what replaces `$nick$` and its like in the argv of a program |
| `split_maker_parts`, `delistify`, `parse_argv`, `cmd_maker` | `parser.c`, `handlers.c`: a DEF, HOOK or MATCH |
| `process_op`, `sendto`, `get_next_word` | `parser.c`, `handlers.c`: any operation |
| `process_module_conf`, `mod_watcher` | `loader.c`, `watcher.c`: the lines operations come from |

The run `text` writes inputs from their parts, has the operators read them, and compares: all lines of
the server with up to two parameters and a short tail (`IrcLineTaken`), all short lists over letters,
commas, spaces and backslashes, against a definition by cut positions (`ListsSplit`),
configurations of up to two rules and comments with quoted arguments, mapped in full or not (`ConfigRead`, which promises only the former),
and up to three lines of a program with each end of line and an unfinished one, or one behind a byte 255 (`OutputActedOn`). Three lines are the least where one that
is acted on has others before and behind it, empty or not.

*Proved* (`Text_proofs`): `ListsAreSplit` is `ListsSplit` for any bound on the length of the lists, and rests on
`ListSplit`, which is about every list over any characters that has no quotes and begins with neither a space nor a comma.
`OutputIsActedOn` is `OutputActedOn` for any number of lines, and rests on `WatcherLines`: whatever
the lines and the ends of lines are, and whatever the characters but the byte 255 are, the watcher makes each line that is not empty one operation,
in their order, and nothing of what is behind a byte 255.
`LinesAreTaken` is `IrcLineTaken` for tails of up to 255 characters, the most the smallest buffer holds, and rests on two theorems
that have no bounds. `LineParts` is about any line that is made of an optional sender, words with one space between them and
an optional tail, over any characters: each function finds its part and cuts it to the size asked for if it fits into the local array,
and overruns that array if it does not.
`ArgvFilled` is about `mkargv` and any argv: all that is before the first NULL, which is what `execv` takes, is filled.
Its hypothesis that the text of a name is not itself the name of another one is what
the code needs: the names are looked for one after the other, in what an earlier one was replaced by as well. The assumptions are that NULL
is no channel (`NullIsNoChannel`), that tails fit, and that no text is NULL or `Overrun` (`TextsFound`).

A line is reasoned about by where its words begin (`LineOf`): a position before the end of word q is inside one of the first q words
or is the space before one (`InSomeWord`), so word q has q - 1 spaces before it (`SpacesBefore`), a space
with a colon behind it is where the tail starts (`NoTailBefore`), and a colon before parameter q is in an earlier word (`ColonFree`).
A line with a sender is one with a word more (`LineWithSender`). That the text a line is put down as is such a line
follows join by join (`JoinOne`, `BodyIs`).

The scans are folds, and a fold is a function the community modules CHOOSE: `FoldExists` says that there is one, so that a
scan may be followed step by step. Behind position k, the second scan of `delistify` is in the item that the last
cut opened and has made the items before it (`ItemsAt`), and there are as many as there are cuts up to k.
That nothing is written behind the array needs the first scan as well: without quotes it counts
all commas, and each cut is one (`ScanPlain`), so that the array has room for the items. Behind k
lines, the watcher has an empty buffer and as many operations as k lines have that are not empty (`OpsAt`). What `process_op`
makes of a line follows from its first characters (`ReplyMade`, `NothingMade`, `OperationMade`).

*Only checked*: `ConfigRead`, with the texts that have quotes.

*What the operators show besides*, and what the inputs therefore leave out: `get_param` finds nothing
behind a parameter that has a colon in it; `split_maker_parts` drops quotes that `delistify` looks for,
so that a comma inside of quotes cuts, an apostrophe loses the rule, and the example of
README:108, `MATCH "^regex$"`, whose quote `delistify` sees only when it closes, is refused; a line behind an empty one
is never read; `get_next_word` leaves the target of a SEND with what is in memory behind it, and writes a null byte
behind its allocation for a target of six characters with a text behind it, or a longer one; a program that writes DEF makes
`cmd_maker` copy a path that is NULL; `$nick$` of a message from a server, `$args$` of one without a tail and `$nuh$` read what
was never written; lists with quotes may get more items than `delistify` made room for. Of what programs write, lines of 2^17 characters and more
are left out: one of exactly that length overruns the buffer of the watcher by one, and when a longer one makes `realloc` move the buffer,
`pinfo.op` still is the old one.

## Not modelled

`logs.c` is compiled only with WITH_PG, which the configuration leaves off. `ext/uno.lua` and
`ext/dickhunt.lua` are extensions in Lua, run one function at a time under the mutex of `Louis`; the latter keeps its state in a
database. The programs in `bin/` and `lib/` run once and exit. Of the main program the options and the
splitting of a command line are left out, and the limits of buffers where a section does not name them.

## What stays with TLC

Liveness under fairness and ENABLED are out of the prover's reach, and so are the library's theorems of
induction, which have an operator as a parameter. Induction over a set of numbers or of sequences (`InductionLemmas`) takes its place
where a recursive function is needed (`Keep`, `FlattenSeq`, the loops of `IrcInfo`), and `FoldExists` where a
fold is (`delistify`, `mod_watcher`, `mkargv`). The operators of `VinnyText` for configurations are checked on bounded inputs
only. The theorems hold for all values
of the constants under the `ASSUME` of each module, which TLC evaluates on the values of the runs.
